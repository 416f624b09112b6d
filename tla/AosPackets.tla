----------------------------- MODULE AosPackets -----------------------------
(* Transfer frames to space packets: AosPacketDemux::push
   (src/rust/space_packet_stream.rs) and its caller, `packets` and `augment` of
   src/rust/meteor_cli.rs. A spacecraft sends Frames frames of one virtual channel;
   packets lie in their zones end to end, and a packet may span frames. The receiver
   may lose, repeat and reorder frames, and must put together no packet but those
   sent.

   A byte of a zone is stood for by its place in the transmission, so that "the bytes
   of a packet" is a run of places, and bytes of two packets can be told apart. What
   the header says is a function of the place its packet starts at. *)
EXTENDS Integers, Sequences, FiniteSets

CONSTANTS
    Frames,    \* frames sent during a pass
    Zone,      \* bytes of a frame's packet zone (882)
    Header,    \* bytes of a packet's header (6)
    Period,    \* frame counters before they start again (2^24)
    Firsts,    \* frame counters that a pass may begin with
    MaxReads,  \* bound: frames in the receiver's file
    MaxOdd     \* bound: packets and frames that are not plain data

ASSUME PacketAssumption ==
    /\ Frames \in Nat /\ Zone \in Nat /\ Header \in Nat /\ Period \in Nat
    /\ Frames > 0 /\ Zone > 0 /\ Header > 0
    /\ 2 * Frames <= Period      \* a pass is short: at 8 frames/s 2^23 take 12 days
    /\ Firsts \subseteq 0..(Period - 1)
    /\ MaxReads \in Nat /\ MaxOdd \in Nat

Numbers == 1..Frames
Total == Frames * Zone

\* First-header pointers that are no pointers, and one that points outside.
NoHeader == Zone + 1    \* 2047: the zone holds the middle of one packet
OnlyIdle == Zone + 2    \* 2046: the zone holds nothing
Outside  == Zone

NoCounter == -1

VARIABLES
    sent,     \* the transmission, see Transmissions
    queue,    \* the file of `augment`, as far as it is still to be read
    mode,     \* "free": any file; "hybrid": queue; "refused": augment wrote none
    reads,    \* frames read from the file
    seen,     \* seen_frames
    pushed,   \* the frames that reached push, in order
    channel,  \* the demultiplexer's [last, pending]
    cursor,   \* the zone being walked: [frame, at]; at = Zone when push is over
    archive,  \* the packets written, each a sequence of places
    report    \* the report's counts

vars == <<sent, queue, mode, reads, seen, pushed, channel, cursor, archive, report>>
-----------------------------------------------------------------------------
(* The transmission: where packets start, what each is, what each frame is. *)

\* The start of the packet after the last one sent is in starts too.
Layouts ==
    {s \in SUBSET (0..(Total + Header)) :
        /\ Cardinality(s \cap Total..(Total + Header)) = 1
        /\ \A a, b \in s : a < b => b - a > Header}

Following(s, a) == CHOOSE b \in s : a < b /\ \A c \in s : a < c => b <= c

PacketKinds == {"data", "idle", "strange"}    \* strange: not version 0
FrameKinds == {"packets", "idle", "skewed", "foreign"}

Odd(S, f, plain) == Cardinality({x \in S : f[x] # plain})

Base(f) == (f - 1) * Zone

\* In a frame of idle data no packet goes on; as a stretch of places it counts as
\* a packet of its own.
FitsIdle(s, of) ==
    \A f \in Numbers : of[f] = "idle" =>
        s \cap Base(f)..(Base(f) + Zone) = {Base(f), Base(f) + Zone}

Inner(s) == {a \in s : a < Total}

KindsFor(s) ==
    {k \in [Inner(s) -> PacketKinds] : Odd(Inner(s), k, "data") <= MaxOdd}

FramesFor(s, k) ==
    {of \in [Numbers -> FrameKinds] :
        /\ Odd(Numbers, of, "packets") + Odd(Inner(s), k, "data") <= MaxOdd
        /\ FitsIdle(s, of)}

Transmission(s, k, of, c) ==
    [starts |-> s,
     length |-> [a \in Inner(s) |-> Following(s, a) - a],
     kind   |-> k,
     frame  |-> of,
     first  |-> c]

Transmissions ==
    UNION {UNION {
        {Transmission(s, k, of, c) : of \in FramesFor(s, k), c \in Firsts} :
        k \in KindsFor(s)} :
        s \in Layouts}

Starts == DOMAIN sent.length

\* The sender's counters, and where it says the first header of a zone is.
Counter(f) ==
    IF sent.first + f - 1 < Period THEN sent.first + f - 1
                                   ELSE sent.first + f - 1 - Period

IsFirst(f, o) ==
    /\ o \in 0..(Zone - 1)
    /\ Base(f) + o \in Starts
    /\ \A a \in Starts : Base(f) <= a => Base(f) + o <= a

Pointer(f) ==
    CASE sent.frame[f] = "idle" -> OnlyIdle
      [] sent.frame[f] = "skewed" -> Outside
      [] OTHER -> IF \E o \in 0..(Zone - 1) : IsFirst(f, o)
                  THEN CHOOSE o \in 0..(Zone - 1) : IsFirst(f, o)
                  ELSE NoHeader

\* Bytes from..to of a frame's zone, counted from 1.
Bytes(f, from, to) == [i \in 1..(to - from + 1) |-> Base(f) + from + i - 2]

\* The bytes of a packet, or of the beginning of one.
Run(a, n) == [i \in 1..n |-> a + i - 1]
-----------------------------------------------------------------------------
(* AosPacketDemux *)

\* packet_extent: the version is in the first byte, the length in the header's last.
\* Bytes that no header was put in read as a version 0 and a shortest length.
HeaderRead(bytes) == Len(bytes) >= Header
HeaderValid(bytes) == ~(bytes[1] \in Starts /\ sent.kind[bytes[1]] = "strange")
Extent(bytes) ==
    LET a == bytes[Header] - (Header - 1)
    IN IF a \in Starts THEN sent.length[a] ELSE Header + 1

\* packet: idle packets are dropped.
Packet(bytes) ==
    IF bytes[1] \in Starts /\ sent.kind[bytes[1]] = "idle" THEN {} ELSE {bytes}

Successor(c) == IF c + 1 = Period THEN 0 ELSE c + 1

Gap_Backwards(c) == channel.last # NoCounter /\ c <= channel.last
Gap_NoWrap(c) == channel.last # NoCounter /\ c # channel.last + 1
Gap(c) == channel.last # NoCounter /\ c # Successor(channel.last)

\* What of the pending packet is left after the check of the counter.
Kept(f) == IF Gap(Counter(f)) THEN <<>> ELSE channel.pending

\* The bytes before the first header belong to the pending packet, if there is one.
Boundary(f) == IF Pointer(f) = NoHeader THEN Zone ELSE Pointer(f)
Joined(f) == Kept(f) \o Bytes(f, 1, Boundary(f))

FillInvalid(f) ==
    Kept(f) # <<>> /\ HeaderRead(Joined(f)) /\ ~HeaderValid(Joined(f))

FillCompletes(f) ==
    /\ Kept(f) # <<>> /\ HeaderRead(Joined(f)) /\ HeaderValid(Joined(f))
    /\ Len(Joined(f)) >= Extent(Joined(f))

FillGoesOn(f) == Kept(f) # <<>> /\ ~FillInvalid(f) /\ ~FillCompletes(f)

B(p) == IF p THEN 1 ELSE 0

\* A frame with nothing in it, or with a pointer to nowhere, ends the pending packet.
PushNothing(f) ==
    /\ Pointer(f) \in {OnlyIdle, Outside}
    /\ channel' = [last |-> Counter(f), pending |-> <<>>]
    /\ cursor' = [frame |-> f, at |-> Zone]
    /\ report' = [report EXCEPT
           !.gaps = @ + B(Gap(Counter(f))),
           !.aborts = @ + B(channel.pending # <<>>),
           !.rejected = @ + B(Pointer(f) = Outside)]
    /\ UNCHANGED archive

\* Otherwise the pending packet is filled up to the first header, where it must be
\* complete; what lies behind the header is walked by WalkPacket.
PushZone(f) ==
    /\ Pointer(f) \notin {OnlyIdle, Outside}
    /\ channel' = [last |-> Counter(f),
                   pending |-> IF FillGoesOn(f) /\ Pointer(f) = NoHeader
                               THEN Joined(f) ELSE <<>>]
    /\ archive' = archive \cup
           IF FillCompletes(f)
           THEN Packet(SubSeq(Joined(f), 1, Extent(Joined(f)))) ELSE {}
    /\ cursor' = [frame |-> f, at |-> Boundary(f)]
    /\ report' = [report EXCEPT
           !.gaps = @ + B(Gap(Counter(f))),
           !.aborts = @ + B(\/ Gap(Counter(f)) /\ channel.pending # <<>>
                            \/ FillGoesOn(f) /\ Pointer(f) # NoHeader),
           !.invalid = @ + B(FillInvalid(f))]

\* The loop over the packets that start in the zone.
Walking == cursor.at < Zone
Rest == Bytes(cursor.frame, cursor.at + 1, Zone)

Fits == HeaderRead(Rest) /\ Extent(Rest) <= Len(Rest)

WalkPacket ==
    /\ Walking /\ Fits /\ HeaderValid(Rest)
    /\ archive' = archive \cup Packet(SubSeq(Rest, 1, Extent(Rest)))
    /\ cursor' = [cursor EXCEPT !.at = @ + Extent(Rest)]
    /\ UNCHANGED <<sent, queue, mode, reads, seen, pushed, channel, report>>

WalkPart ==
    /\ Walking /\ ~Fits /\ (HeaderRead(Rest) => HeaderValid(Rest))
    /\ channel' = [channel EXCEPT !.pending = @ \o Rest]
    /\ cursor' = [cursor EXCEPT !.at = Zone]
    /\ UNCHANGED <<sent, queue, mode, reads, seen, pushed, archive, report>>

WalkInvalid_Silent ==
    /\ Walking /\ HeaderRead(Rest) /\ ~HeaderValid(Rest)
    /\ cursor' = [cursor EXCEPT !.at = Zone]
    /\ UNCHANGED <<sent, queue, mode, reads, seen, pushed, channel, archive, report>>
WalkInvalid ==
    /\ Walking /\ HeaderRead(Rest) /\ ~HeaderValid(Rest)
    /\ report' = [report EXCEPT !.invalid = @ + 1]
    /\ cursor' = [cursor EXCEPT !.at = Zone]
    /\ UNCHANGED <<sent, queue, mode, reads, seen, pushed, channel, archive>>
-----------------------------------------------------------------------------
(* packets: the frames of the file, one after the other *)

\* A frame seen before is passed over: nothing of it reaches the demultiplexer.
Repeated(f) ==
    /\ f \in seen
    /\ UNCHANGED <<seen, pushed, channel, cursor, archive, report>>

Foreign(f) ==
    /\ f \notin seen /\ sent.frame[f] = "foreign"
    /\ seen' = seen \cup {f}
    /\ report' = [report EXCEPT !.rejected = @ + 1]
    /\ UNCHANGED <<pushed, channel, cursor, archive>>

Push(f) ==
    /\ f \notin seen /\ sent.frame[f] # "foreign"
    /\ seen' = seen \cup {f}
    /\ pushed' = Append(pushed, f)
    /\ PushNothing(f) \/ PushZone(f)

ReadFrame(f) ==
    /\ ~Walking /\ reads < MaxReads
    /\ CASE mode = "free" -> queue' = queue
         [] mode = "hybrid" -> /\ queue # <<>> /\ f = Head(queue)
                               /\ queue' = Tail(queue)
         [] OTHER -> FALSE
    /\ reads' = reads + 1
    /\ Repeated(f) \/ Foreign(f) \/ Push(f)
    /\ UNCHANGED <<sent, mode>>
-----------------------------------------------------------------------------
(* augment: the frames of two receivers, merged by identity and in the order of
   their counters. A span of half the counters is a wrap that the order hides. *)

InOrder(q) == \A i, j \in DOMAIN q : i < j => Counter(q[i]) < Counter(q[j])

SpanRefused(S) == \E f, g \in S : 2 * (Counter(g) - Counter(f)) >= Period

Augment(baseline, native) ==
    /\ mode = "free" /\ reads = 0
    /\ LET both == baseline \cup native
       IN IF SpanRefused(both)
          THEN mode' = "refused" /\ queue' = <<>>
          ELSE /\ mode' = "hybrid"
               /\ queue' \in {q \in [1..Cardinality(both) -> both] :
                                 /\ {q[i] : i \in DOMAIN q} = both
                                 /\ InOrder(q)}
    /\ UNCHANGED <<sent, reads, seen, pushed, channel, cursor, archive, report>>
-----------------------------------------------------------------------------
Init ==
    /\ sent \in Transmissions
    /\ queue = <<>> /\ mode = "free" /\ reads = 0
    /\ seen = {} /\ pushed = <<>>
    /\ channel = [last |-> NoCounter, pending |-> <<>>]
    /\ cursor = [frame |-> 1, at |-> Zone]
    /\ archive = {}
    /\ report = [gaps |-> 0, aborts |-> 0, invalid |-> 0, rejected |-> 0]

Next ==
    \/ \E f \in Numbers : ReadFrame(f)
    \/ WalkPacket \/ WalkPart \/ WalkInvalid
    \/ \E baseline, native \in SUBSET Numbers : Augment(baseline, native)

Spec == Init /\ [][Next]_vars
-----------------------------------------------------------------------------
(* Properties *)

FrameOf(a) == a \div Zone + 1

\* The frames that a packet lies in.
Spans(a) == FrameOf(a)..FrameOf(a + sent.length[a] - 1)

\* A data packet that is sent to its end in plain frames, with no header before it
\* in the same frame that cannot be read (the rest of such a frame is given up).
Readable(a) ==
    /\ sent.kind[a] = "data"
    /\ a + sent.length[a] <= Total
    /\ \A f \in Spans(a) : sent.frame[f] = "packets"
    /\ \A b \in Starts : FrameOf(b) = FrameOf(a) /\ b < a => sent.kind[b] # "strange"

Archived(a) == Run(a, sent.length[a]) \in archive

\* Every packet written is one that was sent, whole: whatever frames are lost,
\* repeated or out of order, and wherever the counter starts again, no packet is
\* joined from parts of two, cut, or begun in the middle.
PacketsAreWhole ==
    \A p \in archive : \E a \in Starts : p = Run(a, sent.length[a])

\* The packet's frames reached the demultiplexer one after the other.
PushedInARow(a) ==
    \E i \in DOMAIN pushed : \A f \in Spans(a) :
        LET k == i + f - FrameOf(a) IN k \in DOMAIN pushed /\ pushed[k] = f

\* One receiver or the other received them, and the hybrid file has been read.
Merged(a) == mode = "hybrid" /\ queue = <<>> /\ Spans(a) \subseteq seen

\* A packet whose frames arrive one after the other is written, whatever came before
\* and whatever comes after, across a counter that starts again and with a header that
\* is split between frames; and merging two receivers puts the frames into an order
\* in which no packet is lost that they received between them.
PacketsAreKept ==
    ~Walking =>
        \A a \in Starts :
            Readable(a) /\ (PushedInARow(a) \/ Merged(a)) => Archived(a)

\* A report with no gap, no abort, no invalid header and no rejected frame is the
\* report of an archive that misses nothing of the frames read.
CleanReportIsComplete ==
    (~Walking /\ \A c \in DOMAIN report : report[c] = 0) =>
        \A a \in Starts :
            (/\ sent.kind[a] = "data"
             /\ Spans(a) \subseteq seen
             /\ \A f \in Spans(a) : sent.frame[f] # "idle")
            => Archived(a)
=============================================================================
