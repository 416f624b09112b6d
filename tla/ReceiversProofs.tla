-------------------------- MODULE ReceiversProofs --------------------------
(* Of the receivers, for every size of frame, flag, scrambler, encoder and code.

   Packets (AosPackets). Only whole packets are written: what is pending is always the
   head of one packet, cut at the end of the frame whose counter is remembered, so the
   next counter is that of the frame that goes on with it (IInv). A packet is kept if
   its frames were pushed in a row: from the frame it starts in, the walk has it still
   to come to, or it is pending up to the last frame that was pushed, or it is in the
   archive (RowsKept of KInv). A report without a gap, an abort or a refused frame says
   the same of every packet whose first frame was read (CleanKept).

   Levels (HdlcFrames). Streams that differ in the first level differ in the same two
   bits whether they are decoded twice or flipped where that level reaches. Decoding
   undoes what the sender did: NRZI for any level, the scrambler after the first
   TapB bits, stuffing for any bits. A stuffed frame has no Ones + 1 ones in a row, so no
   flag stands in it or over its ends, and the flags around it are neighbours.

   Soft decisions (Viterbi). Each metric is the best that any path to its state has, and
   tracing the decisions back gives a path that attains it.

   Blocks (ReedSolomon). A primitive polynomial makes the symbols a field. Sums of the
   powers of different symbols do not all vanish (Vandermonde), so codewords are more than
   Parity places apart (CodewordsAreApart), and a polynomial has no more roots than its
   degree (FewRoots). After each syndrome the locator foretells those read so far, its
   degree is no more than the number of errors, and the locator that is kept besides is the
   last one that failed, at the syndrome it is remembered with (Searched). So in the end
   the locator vanishes at the places of the errors (AllPredicted) and has no other roots,
   and the magnitudes are the only solution. Each division of the encoder leaves the values
   at the generator's roots as they are, so what it sends are codewords; the lanes of what
   is interleaved are the lanes. *)
EXTENDS ReceiversInvariants, FiniteSetTheorems, SequenceTheorems, WellFoundedInduction, TLAPS
-----------------------------------------------------------------------------
(* Numbers *)

LEMMA LeastOne ==
    ASSUME NEW S \in SUBSET Nat, S # {}
    PROVE  \E x \in S : \A y \in S : x <= y
<1> DEFINE Less == OpToRel(<, Nat)
<1>1. IsWellFoundedOn(Less, Nat)
  BY NatLessThanWellFounded
<1>2. \E x \in S : \A y \in S : ~(<<y, x>> \in Less)
  <2> HIDE DEF Less
  <2> QED  BY <1>1, WFMin
<1>3. \A x, y \in Nat : y < x => <<y, x>> \in Less
  BY DEF OpToRel
<1> HIDE DEF Less
<1>4. \A x, y \in Nat : ~(y < x) => x <= y
  OBVIOUS
<1> QED  BY <1>2, <1>3, <1>4

\* What holds of 0, and of every number up to n if of the one before, holds of all of
\* them.
LEMMA UpTo ==
    ASSUME NEW n \in Nat, NEW S, 0 \in S, \A i \in 1..n : i - 1 \in S => i \in S
    PROVE  \A i \in 0..n : i \in S
<1> DEFINE Bad == (0..n) \ S
<1>1. SUFFICES ASSUME Bad # {}
               PROVE  FALSE
  OBVIOUS
<1>2. PICK x \in Bad : \A y \in Bad : x <= y
  <2>1. Bad \in SUBSET Nat
    OBVIOUS
  <2> HIDE DEF Bad
  <2> QED  BY <1>1, <2>1, LeastOne
<1>3. x \in 1..n /\ x - 1 \in 0..n /\ ~(x <= x - 1)
  BY <1>2
<1>4. x - 1 \in S
  BY <1>2, <1>3
<1> QED  BY <1>2, <1>3, <1>4

LEMMA Rounds ==
    ASSUME NEW T, NEW base \in T, NEW n \in Nat, NEW step \in [1..n -> [T -> T]]
    PROVE  \E f \in [0..n -> T] : Loop(f, n, base, step)
<1> DEFINE Has(k, f) == f \in [0..k -> T] /\ f[0] = base /\ \A i \in 1..k : f[i] = step[i][f[i - 1]]
           S == {k \in 0..n : \E f : Has(k, f)}
<1>1. 0 \in S
  <2>1. Has(0, [i \in 0..0 |-> base])
    OBVIOUS
  <2> HIDE DEF Has
  <2> QED  BY <2>1
<1>2. ASSUME NEW k \in 1..n, k - 1 \in S
      PROVE  k \in S
  <2>1. PICK f : Has(k - 1, f)
    BY <1>2
  <2> DEFINE g == [i \in 0..k |-> IF i = k THEN step[k][f[k - 1]] ELSE f[i]]
  <2>2. f[k - 1] \in T /\ step[k][f[k - 1]] \in T
    BY <2>1
  <2>3. g \in [0..k -> T] /\ g[0] = base
    BY <2>1, <2>2
  <2>4. ASSUME NEW i \in 1..k
        PROVE  g[i] = step[i][g[i - 1]]
    BY <2>1
  <2>5. Has(k, g)
    BY <2>3, <2>4
  <2> HIDE DEF Has, g
  <2> QED  BY <2>5
<1>3. \A k \in 1..n : k - 1 \in S => k \in S
  BY <1>2
<1>4. n \in S
  <2> HIDE DEF S
  <2>1. \A k \in 0..n : k \in S
    BY <1>1, <1>3, UpTo, Zenon
  <2> QED  BY <2>1
<1> QED  BY <1>4 DEF Loop

LEMMA BitsAreSeq ==
    ASSUME NEW n \in Nat, NEW S, NEW bits \in [1..n -> S]
    PROVE  bits \in Seq(S) /\ Len(bits) = n
OBVIOUS

\* Where the zone of a frame begins and ends.
LEMMA ZoneEnds ==
    ASSUME NEW f \in Numbers
    PROVE  /\ Base(f) \in Nat
           /\ Base(f) + Zone = f * Zone
           /\ f * Zone \in Nat
           /\ f * Zone <= Total
<1>1. f \in Nat /\ f - 1 \in Nat /\ Frames - f \in Nat /\ Zone \in Nat /\ Frames \in Nat
  BY PacketAssumption DEF Numbers
<1>2. (f - 1) * Zone \in Nat /\ (Frames - f) * Zone \in Nat /\ f * Zone \in Nat
  BY <1>1
<1>3. (f - 1) * Zone + Zone = f * Zone
  BY <1>1
<1>4. (Frames - f) * Zone + f * Zone = Frames * Zone
  BY <1>1
<1> QED  BY <1>2, <1>3, <1>4, <1>1 DEF Base, Total

\* Within a pass the successor of a frame's counter is the next frame's.
LEMMA CounterFollows ==
    ASSUME SentOK, NEW f \in Numbers, NEW g \in Numbers,
           Counter(f) = Successor(Counter(g))
    PROVE  f = g + 1
BY PacketAssumption DEF SentOK, Numbers, Counter, Successor

LEMMA CounterIsNumber ==
    ASSUME SentOK, NEW f \in Numbers
    PROVE  Counter(f) \in Nat /\ Counter(f) # NoCounter
BY PacketAssumption DEF SentOK, Numbers, Counter, NoCounter
-----------------------------------------------------------------------------
(* Runs of bytes *)

LEMMA RunFacts ==
    ASSUME NEW a \in Nat, NEW n \in Nat
    PROVE  /\ Run(a, n) \in Seq(Nat)
           /\ Len(Run(a, n)) = n
           /\ \A i \in 1..n : Run(a, n)[i] = a + i - 1
BY DEF Run

LEMMA RunJoins ==
    ASSUME NEW a \in Nat, NEW n \in Nat, NEW m \in Nat
    PROVE  Run(a, n) \o Run(a + n, m) = Run(a, n + m)
<1> DEFINE x == Run(a, n)
           y == Run(a + n, m)
           z == Run(a, n + m)
<1>1. a + n \in Nat /\ n + m \in Nat
  OBVIOUS
<1>2. x \in Seq(Nat) /\ Len(x) = n /\ \A i \in 1..n : x[i] = a + i - 1
  BY RunFacts
<1>3. y \in Seq(Nat) /\ Len(y) = m /\ \A i \in 1..m : y[i] = a + n + i - 1
  BY RunFacts, <1>1
<1>4. z \in Seq(Nat) /\ Len(z) = n + m /\ \A i \in 1..(n + m) : z[i] = a + i - 1
  BY RunFacts, <1>1
<1> HIDE DEF x, y, z
<1>5. /\ x \o y \in Seq(Nat)
      /\ Len(x \o y) = Len(x) + Len(y)
      /\ \A i \in 1 .. Len(x) + Len(y) :
            (x \o y)[i] = IF i <= Len(x) THEN x[i] ELSE y[i - Len(x)]
  BY <1>2, <1>3, ConcatProperties
<1>6. \A i \in 1 .. Len(x \o y) : (x \o y)[i] = z[i]
  BY SMTT(20), <1>2, <1>3, <1>4, <1>5
<1>7. x \o y = z
  BY <1>2, <1>3, <1>4, <1>5, <1>6, SeqEqual
<1> QED  BY <1>7 DEF x, y, z

LEMMA RunCut ==
    ASSUME NEW a \in Nat, NEW n \in Nat, NEW k \in Nat, k <= n
    PROVE  SubSeq(Run(a, n), 1, k) = Run(a, k)
BY RunFacts DEF Run

LEMMA EmptyRun ==
    ASSUME NEW a \in Nat, NEW n \in Nat, n # 0
    PROVE  Run(a, n) # <<>>
BY RunFacts

LEMMA ZoneBytes ==
    ASSUME NEW f \in Numbers, NEW from \in Nat, NEW to \in Nat,
           1 <= from, from <= to + 1
    PROVE  Bytes(f, from, to) = Run(Base(f) + from - 1, to - from + 1)
<1>1. Base(f) \in Nat
  BY ZoneEnds
<1> QED  BY <1>1 DEF Bytes, Run

\* The header of a run that begins at a packet's start is that packet's.
LEMMA HeaderOfRun ==
    ASSUME SentOK, NEW a \in Starts, NEW n \in Nat, n >= Header
    PROVE  Extent(Run(a, n)) = sent.length[a] /\ Run(a, n)[1] = a
<1>1. a \in Nat /\ Header \in Nat /\ 1 <= Header
  BY PacketAssumption DEF SentOK
<1>2. Run(a, n)[Header] = a + Header - 1 /\ Run(a, n)[1] = a
  <2>1. \A i \in 1..n : Run(a, n)[i] = a + i - 1
    BY <1>1, RunFacts
  <2>2. Header \in 1..n /\ 1 \in 1..n
    BY <1>1
  <2> QED  BY <2>1, <2>2, <1>1
<1>3. Run(a, n)[Header] - (Header - 1) = a
  BY <1>1, <1>2
<1> QED  BY <1>2, <1>3 DEF Extent

\* A sound pointer points at the start of a packet.
LEMMA PointerAtStart ==
    ASSUME NEW f \in Numbers, Pointer(f) \notin {OnlyIdle, Outside}
    PROVE  \/ Pointer(f) = NoHeader
           \/ Pointer(f) \in 0..(Zone - 1) /\ Base(f) + Pointer(f) \in Starts
<1>1. CASE \E o \in 0..(Zone - 1) : IsFirst(f, o)
  <2> DEFINE o == CHOOSE x \in 0..(Zone - 1) : IsFirst(f, x)
  <2>1. o \in 0..(Zone - 1) /\ IsFirst(f, o)
    BY <1>1
  <2>2. Pointer(f) = o
    BY <1>1 DEF Pointer
  <2> QED  BY <2>1, <2>2 DEF IsFirst
<1>2. CASE ~\E o \in 0..(Zone - 1) : IsFirst(f, o)
  BY <1>2 DEF Pointer
<1> QED  BY <1>1, <1>2
-----------------------------------------------------------------------------
(* Initially *)

LEMMA FollowingIs ==
    ASSUME NEW s \in Layouts, NEW a \in s, a < Total
    PROVE  /\ Following(s, a) \in s
           /\ Following(s, a) \in Nat
           /\ Following(s, a) - a > Header
<1>1. s \subseteq 0..(Total + Header)
  BY DEF Layouts
<1>2. Total \in Nat /\ Header \in Nat
  BY PacketAssumption DEF Total
<1>3. PICK t \in s : t >= Total
  <2>1. Cardinality(s \cap Total..(Total + Header)) # Cardinality({})
    BY FS_EmptySet DEF Layouts
  <2> QED  BY <2>1, <1>1, <1>2
<1> DEFINE T == {c \in s : a < c}
<1>4. T \in SUBSET Nat /\ T # {}
  <2>1. a \in Nat /\ s \subseteq Nat
    BY <1>1, <1>2
  <2>2. t \in T
    BY <2>1, <1>2, <1>3
  <2> QED  BY <2>1, <2>2
<1>5. PICK b \in T : \A c \in T : b <= c
  BY <1>4, LeastOne
<1>6. b \in s /\ a < b /\ \A c \in s : a < c => b <= c
  BY <1>5
<1>7. /\ Following(s, a) \in s
      /\ a < Following(s, a)
  BY <1>6 DEF Following
<1>8. Following(s, a) - a > Header
  BY <1>7 DEF Layouts
<1>9. Following(s, a) \in Nat
  <2>1. Following(s, a) \in 0..(Total + Header)
    BY <1>7, <1>1
  <2> QED  BY <2>1
<1> QED  BY <1>7, <1>8, <1>9

LEMMA InitIInv == Init => IInv
<1> SUFFICES ASSUME Init PROVE IInv
  OBVIOUS
<1>1. SentOK
  <2>1. PICK s \in Layouts, c \in Firsts :
            /\ sent.first = c
            /\ sent.length = [a \in {x \in s : x < Total} |-> Following(s, a) - a]
    <3>1. sent \in Transmissions
      BY DEF Init
    <3>2. PICK s \in Layouts : sent \in UNION {
              {Transmission(s, k, of, c) : of \in FramesFor(s, k), c \in Firsts} :
              k \in KindsFor(s)}
      BY <3>1 DEF Transmissions
    <3>3. PICK k \in KindsFor(s) :
              sent \in {Transmission(s, k, of, c) : of \in FramesFor(s, k), c \in Firsts}
      BY <3>2
    <3>4. PICK of \in FramesFor(s, k), c \in Firsts : sent = Transmission(s, k, of, c)
      BY <3>3
    <3> QED  BY <3>4 DEF Transmission, Inner
  <2>2. Starts = {x \in s : x < Total}
    BY <2>1 DEF Starts
  <2>3. s \subseteq 0..(Total + Header) /\ Total \in Nat /\ Header \in Nat
    BY PacketAssumption DEF Layouts, Total
  <2>4. Starts \subseteq 0..(Total - 1)
    <3>1. \A x \in 0..(Total + Header) : x < Total => x \in 0..(Total - 1)
      BY <2>3
    <3> QED  BY <2>2, <2>3, <3>1
  <2>5. ASSUME NEW a \in Starts
        PROVE  /\ sent.length[a] \in Nat
               /\ sent.length[a] > Header
               /\ a + sent.length[a] \in Starts \/ a + sent.length[a] >= Total
    <3>1. a \in s /\ a < Total /\ a \in Nat
      BY <2>2, <2>4, <2>3
    <3>2. sent.length[a] = Following(s, a) - a
      BY <3>1, <2>1
    <3>3. /\ Following(s, a) \in s
          /\ Following(s, a) \in Nat
          /\ Following(s, a) - a > Header
      BY <3>1, FollowingIs
    <3> QED  BY <3>1, <3>2, <3>3, <2>2, <2>3
  <2> QED  BY <2>1, <2>4, <2>5, PacketAssumption DEF SentOK
<1>2. ChannelOK /\ CursorOK /\ FileOK
  BY PacketAssumption DEF Init, ChannelOK, CursorOK, FileOK, Numbers, NoCounter
<1>3. PendingIsHead /\ WalkAtStart /\ PacketsAreWhole
  BY PacketAssumption DEF Init, PendingIsHead, WalkAtStart, Walking, PacketsAreWhole
<1> QED  BY <1>1, <1>2, <1>3 DEF IInv, Carried
-----------------------------------------------------------------------------
(* Steps *)

LEMMA BoundaryIs ==
    ASSUME NEW f \in Numbers, Pointer(f) \notin {OnlyIdle, Outside}
    PROVE  /\ Boundary(f) \in 0..Zone
           /\ Boundary(f) < Zone =>
                 Pointer(f) # NoHeader /\ Base(f) + Boundary(f) \in Starts
           /\ Pointer(f) = NoHeader => Boundary(f) = Zone
BY PointerAtStart, PacketAssumption DEF Boundary, NoHeader

\* What is pending and what goes on in the next frame are of one packet.
LEMMA JoinedIs ==
    ASSUME SentOK, ChannelOK, PendingIsHead,
           NEW f \in Numbers, Pointer(f) \notin {OnlyIdle, Outside}, Kept(f) # <<>>
    PROVE  \E a \in Starts, n \in Nat :
               Joined(f) = Run(a, n) /\ a + n = Base(f) + Boundary(f)
<1>1. ~Gap(Counter(f)) /\ Kept(f) = channel.pending /\ channel.pending # <<>>
  BY DEF Kept
<1>2. PICK a \in Starts, n \in Nat, g \in Numbers :
          /\ channel.pending = Run(a, n)
          /\ channel.last = Counter(g)
          /\ a + n = g * Zone
  BY <1>1 DEF PendingIsHead
<1>3. Counter(f) = Successor(Counter(g))
  BY <1>1, <1>2, CounterIsNumber DEF Gap
<1>4. f = g + 1
  BY <1>3, CounterFollows
<1>5. Base(f) = a + n /\ a \in Nat /\ a + n \in Nat
  <2>1. f - 1 = g
    BY <1>4 DEF Numbers
  <2>2. a \in Nat
    BY DEF SentOK
  <2> QED  BY <2>1, <2>2, <1>2 DEF Base
<1>6. Boundary(f) \in Nat
  BY BoundaryIs, PacketAssumption
<1>7. Bytes(f, 1, Boundary(f)) = Run(a + n, Boundary(f))
  <2>1. Bytes(f, 1, Boundary(f)) = Run(Base(f) + 1 - 1, Boundary(f) - 1 + 1)
    BY <1>6, ZoneBytes
  <2>2. Base(f) + 1 - 1 = a + n /\ Boundary(f) - 1 + 1 = Boundary(f)
    BY <1>5, <1>6
  <2> QED  BY <2>1, <2>2
<1>8. Joined(f) = Run(a, n + Boundary(f))
  <2>1. Joined(f) = Run(a, n) \o Run(a + n, Boundary(f))
    BY <1>1, <1>2, <1>7 DEF Joined
  <2>2. Run(a, n) \o Run(a + n, Boundary(f)) = Run(a, n + Boundary(f))
    BY <1>5, <1>6, RunJoins
  <2> QED  BY <2>1, <2>2
<1>9. n + Boundary(f) \in Nat /\ a + (n + Boundary(f)) = Base(f) + Boundary(f)
  BY <1>5, <1>6
<1> QED  BY <1>8, <1>9

\* A run that is longer than the packet it begins with yields that packet.
LEMMA RunYields ==
    ASSUME SentOK, NEW a \in Starts, NEW n \in Nat,
           HeaderRead(Run(a, n)), Extent(Run(a, n)) <= Len(Run(a, n)),
           NEW p \in Packet(SubSeq(Run(a, n), 1, Extent(Run(a, n))))
    PROVE  p = Run(a, sent.length[a])
<1>1. a \in Nat /\ sent.length[a] \in Nat
  BY DEF SentOK
<1>2. Len(Run(a, n)) = n
  BY <1>1, RunFacts
<1>3. Extent(Run(a, n)) = sent.length[a]
  BY <1>2, HeaderOfRun DEF HeaderRead
<1>4. SubSeq(Run(a, n), 1, sent.length[a]) = Run(a, sent.length[a])
  BY <1>1, <1>2, <1>3, RunCut
<1> QED  BY <1>3, <1>4 DEF Packet

LEMMA PushZoneKeeps ==
    ASSUME IInv, NEW f \in Numbers, PushZone(f), sent' = sent
    PROVE  Carried'
<1>1. SentOK /\ ChannelOK /\ CursorOK /\ PendingIsHead /\ PacketsAreWhole
  BY DEF IInv, Carried
<1>2. Pointer(f) \notin {OnlyIdle, Outside}
  BY DEF PushZone
<1>3. /\ channel' = [last |-> Counter(f),
                     pending |-> IF FillGoesOn(f) /\ Pointer(f) = NoHeader
                                 THEN Joined(f) ELSE <<>>]
      /\ cursor' = [frame |-> f, at |-> Boundary(f)]
      /\ archive' = archive \cup
             IF FillCompletes(f)
             THEN Packet(SubSeq(Joined(f), 1, Extent(Joined(f)))) ELSE {}
  BY DEF PushZone
<1>4. Counter(f)' = Counter(f) /\ Starts' = Starts
  BY DEF Counter, Starts
<1>5. Counter(f) \in Int
  BY <1>1, CounterIsNumber
<1>6. Boundary(f) \in 0..Zone
  BY <1>2, BoundaryIs
<1>7. PendingIsHead' /\ ChannelOK'
  <2>1. CASE FillGoesOn(f) /\ Pointer(f) = NoHeader
    <3>1. Kept(f) # <<>>
      BY <2>1 DEF FillGoesOn
    <3>2. PICK a \in Starts, n \in Nat :
              Joined(f) = Run(a, n) /\ a + n = Base(f) + Boundary(f)
      BY <1>1, <1>2, <3>1, JoinedIs
    <3>3. Boundary(f) = Zone
      BY <1>2, <2>1, BoundaryIs
    <3>4. a + n = f * Zone
      BY <3>2, <3>3, ZoneEnds
    <3>5. channel'.pending = Run(a, n) /\ channel'.last = Counter(f)
      BY <1>3, <2>1, <3>2
    <3>6. Run(a, n) \in Seq(Nat)
      <4>1. a \in Nat
        BY <1>1 DEF SentOK
      <4> QED  BY <4>1, RunFacts
    <3>7. Run(a, n)' = Run(a, n)
      BY DEF Run
    <3>8. PendingIsHead'
      BY <3>4, <3>5, <3>7, <1>4 DEF PendingIsHead
    <3>9. ChannelOK'
      BY <1>3, <1>5, <2>1, <3>2, <3>6 DEF ChannelOK
    <3> QED  BY <3>8, <3>9
  <2>2. CASE ~(FillGoesOn(f) /\ Pointer(f) = NoHeader)
    <3>1. channel' = [last |-> Counter(f), pending |-> <<>>]
      BY <1>3, <2>2
    <3> QED  BY <3>1, <1>5 DEF PendingIsHead, ChannelOK
  <2> QED  BY <2>1, <2>2
<1>8. WalkAtStart'
  <2> SUFFICES ASSUME Walking' PROVE /\ channel'.pending = <<>>
                                     /\ channel'.last = Counter(f)
                                     /\ Base(f) + Boundary(f) \in Starts
    BY <1>3, <1>4 DEF WalkAtStart, Counter, Base
  <2>1. Boundary(f) < Zone
    BY <1>3 DEF Walking
  <2>2. Pointer(f) # NoHeader /\ Base(f) + Boundary(f) \in Starts
    BY <1>2, <2>1, BoundaryIs
  <2> QED  BY <1>3, <2>2
<1>9. CursorOK'
  BY <1>3, <1>6 DEF CursorOK
<1>10. PacketsAreWhole'
  <2> SUFFICES ASSUME NEW p \in archive'
               PROVE  \E a \in Starts : p = Run(a, sent.length[a])
    BY <1>4 DEF PacketsAreWhole, Run
  <2>1. CASE p \in archive
    BY <1>1, <2>1 DEF PacketsAreWhole
  <2>2. CASE p \notin archive
    <3>1. FillCompletes(f) /\ p \in Packet(SubSeq(Joined(f), 1, Extent(Joined(f))))
      BY <1>3, <2>2
    <3>2. /\ Kept(f) # <<>>
          /\ HeaderRead(Joined(f))
          /\ Len(Joined(f)) >= Extent(Joined(f))
      BY <3>1 DEF FillCompletes
    <3>3. PICK a \in Starts, n \in Nat :
              Joined(f) = Run(a, n) /\ a + n = Base(f) + Boundary(f)
      BY <1>1, <1>2, <3>2, JoinedIs
    <3>4. HeaderRead(Run(a, n)) /\ n \in Nat /\ a \in Nat
      BY <3>2, <3>3, <1>1 DEF SentOK
    <3>5. Len(Run(a, n)) = n /\ n >= Header
      BY <3>4, RunFacts DEF HeaderRead
    <3>6. Extent(Run(a, n)) \in Nat
      BY <3>5, <1>1, HeaderOfRun DEF SentOK
    <3>7. Extent(Run(a, n)) <= Len(Run(a, n))
      BY <3>2, <3>3, <3>5, <3>6
    <3>8. p = Run(a, sent.length[a])
      BY <1>1, <3>1, <3>3, <3>4, <3>7, RunYields
    <3> QED  BY <3>8
  <2> QED  BY <2>1, <2>2
<1> QED  BY <1>7, <1>8, <1>9, <1>10 DEF Carried

\* What remains of a zone that is walked is a run from the start of a packet.
LEMMA RestIs ==
    ASSUME IInv, Walking
    PROVE  LET a == Base(cursor.frame) + cursor.at
           IN /\ a \in Starts /\ a \in Nat
              /\ Zone - cursor.at \in Nat
              /\ Rest = Run(a, Zone - cursor.at)
              /\ a + (Zone - cursor.at) = cursor.frame * Zone
              /\ Len(Rest) = Zone - cursor.at
<1> DEFINE f == cursor.frame
           a == Base(f) + cursor.at
<1>1. f \in Numbers /\ cursor.at \in 0..Zone /\ cursor.at < Zone /\ Zone \in Nat
  BY PacketAssumption DEF IInv, Carried, CursorOK, Walking
<1>2. a \in Starts /\ a \in Nat
  <2>1. a \in Starts
    BY DEF IInv, Carried, WalkAtStart
  <2>2. \A x \in Starts : x \in Nat
    BY DEF IInv, SentOK
  <2> QED  BY <2>1, <2>2
<1>3. Base(f) \in Nat /\ Base(f) + Zone = f * Zone /\ Zone \in Nat
  BY <1>1, ZoneEnds, PacketAssumption
<1>4. Bytes(f, cursor.at + 1, Zone) =
          Run(Base(f) + (cursor.at + 1) - 1, Zone - (cursor.at + 1) + 1)
  <2>1. cursor.at + 1 \in Nat /\ 1 <= cursor.at + 1 /\ cursor.at + 1 <= Zone + 1
    BY <1>1
  <2> QED  BY <1>1, <1>3, <2>1, ZoneBytes
<1>5. /\ Base(f) + (cursor.at + 1) - 1 = a
      /\ Zone - (cursor.at + 1) + 1 = Zone - cursor.at
      /\ Zone - cursor.at \in Nat
      /\ a + (Zone - cursor.at) = f * Zone
  BY <1>1, <1>3
<1>6. Rest = Run(a, Zone - cursor.at)
  BY <1>4, <1>5 DEF Rest
<1>7. Len(Rest) = Zone - cursor.at
  BY <1>2, <1>5, <1>6, RunFacts
<1> QED  BY <1>2, <1>5, <1>6, <1>7

LEMMA WalkPacketKeeps ==
    ASSUME IInv, WalkPacket
    PROVE  Carried'
<1> DEFINE f == cursor.frame
           a == Base(f) + cursor.at
           n == Zone - cursor.at
<1>1. /\ Walking /\ Fits
      /\ archive' = archive \cup Packet(SubSeq(Rest, 1, Extent(Rest)))
      /\ cursor' = [cursor EXCEPT !.at = @ + Extent(Rest)]
      /\ sent' = sent /\ channel' = channel
  BY DEF WalkPacket
<1>2. /\ SentOK /\ ChannelOK /\ CursorOK /\ PendingIsHead /\ WalkAtStart
      /\ PacketsAreWhole
  BY DEF IInv, Carried
<1>3. /\ a \in Starts /\ a \in Nat
      /\ n \in Nat
      /\ Rest = Run(a, n)
      /\ Len(Rest) = n
      /\ a + n = f * Zone
  BY <1>1, RestIs
<1>4. HeaderRead(Rest) /\ Extent(Rest) <= Len(Rest) /\ n >= Header
  BY <1>1, <1>3 DEF Fits, HeaderRead
<1>5. Extent(Rest) = sent.length[a] /\ sent.length[a] \in Nat
  BY <1>2, <1>3, <1>4, HeaderOfRun DEF SentOK
<1>6. f \in Numbers /\ cursor.at \in 0..Zone /\ cursor.at + sent.length[a] \in 0..Zone
  BY <1>2, <1>3, <1>4, <1>5, PacketAssumption DEF CursorOK
<1>7. /\ cursor'.frame = f
      /\ cursor'.at = cursor.at + sent.length[a]
      /\ cursor' \in [frame : Numbers, at : 0..Zone]
  BY <1>1, <1>2, <1>5, <1>6 DEF CursorOK
<1>8. WalkAtStart'
  <2> SUFFICES ASSUME Walking'
               PROVE  /\ channel.pending = <<>>
                      /\ channel.last = Counter(f)
                      /\ Base(f) + (cursor.at + sent.length[a]) \in Starts
    BY <1>1, <1>7 DEF WalkAtStart, Counter, Base, Starts
  <2>1. cursor.at + sent.length[a] < Zone
    BY <1>7 DEF Walking
  <2>2. Base(f) \in Nat /\ Base(f) + Zone = f * Zone /\ f * Zone <= Total /\ Zone \in Nat
    BY <1>6, ZoneEnds, PacketAssumption
  <2>3. Base(f) + (cursor.at + sent.length[a]) = a + sent.length[a]
    BY <1>5, <1>6, <2>2
  <2>4. Total \in Nat
    BY PacketAssumption DEF Total
  <2>5. ~(a + sent.length[a] >= Total)
    BY <1>5, <1>6, <2>1, <2>2, <2>3, <2>4
  <2>6. a + sent.length[a] \in Starts
    BY <1>2, <1>3, <2>5 DEF SentOK
  <2> QED  BY <1>1, <1>2, <2>3, <2>6 DEF WalkAtStart
<1>9. PacketsAreWhole'
  <2> SUFFICES ASSUME NEW p \in archive'
               PROVE  \E b \in Starts : p = Run(b, sent.length[b])
    BY <1>1 DEF PacketsAreWhole, Run, Starts
  <2>1. CASE p \in archive
    BY <1>2, <2>1 DEF PacketsAreWhole
  <2>2. CASE p \notin archive
    <3>1. p \in Packet(SubSeq(Run(a, n), 1, Extent(Run(a, n))))
      BY <1>1, <1>3, <2>2
    <3>2. HeaderRead(Run(a, n)) /\ Extent(Run(a, n)) <= Len(Run(a, n))
      BY <1>3, <1>4
    <3>3. p = Run(a, sent.length[a])
      <4> HIDE DEF a, n
      <4> QED  BY <1>2, <1>3, <3>1, <3>2, RunYields
    <3> QED  BY <1>3, <3>3
  <2> QED  BY <2>1, <2>2
<1>10. ChannelOK' /\ PendingIsHead'
  BY <1>1, <1>2 DEF ChannelOK, PendingIsHead, Starts, Run, Counter
<1> QED  BY <1>7, <1>8, <1>9, <1>10 DEF Carried, CursorOK

LEMMA WalkPartKeeps ==
    ASSUME IInv, WalkPart
    PROVE  Carried'
<1> DEFINE f == cursor.frame
           a == Base(f) + cursor.at
           n == Zone - cursor.at
<1>1. /\ Walking
      /\ channel' = [channel EXCEPT !.pending = @ \o Rest]
      /\ cursor' = [cursor EXCEPT !.at = Zone]
      /\ sent' = sent /\ archive' = archive
  BY DEF WalkPart
<1>2. /\ SentOK /\ ChannelOK /\ CursorOK /\ PendingIsHead /\ WalkAtStart
      /\ PacketsAreWhole
  BY DEF IInv, Carried
<1>3. /\ a \in Starts /\ a \in Nat
      /\ n \in Nat
      /\ Rest = Run(a, n)
      /\ a + n = f * Zone
  BY <1>1, RestIs
<1>4. Rest \in Seq(Nat)
  BY <1>3, RunFacts
<1>5. channel.pending = <<>> /\ channel.last = Counter(f) /\ f \in Numbers
  BY <1>1, <1>2 DEF WalkAtStart, CursorOK
<1>6. channel' = [channel EXCEPT !.pending = Rest]
  BY <1>1, <1>4, <1>5
<1>7. ChannelOK' /\ channel'.pending = Rest /\ channel'.last = Counter(f)
  BY <1>2, <1>4, <1>5, <1>6 DEF ChannelOK
<1>8. PendingIsHead'
  <2>1. Starts' = Starts /\ Counter(f)' = Counter(f)
    BY <1>1, <1>7, <1>5 DEF Starts, Counter, CursorOK
  <2> QED  BY <1>1, <1>3, <1>5, <1>7 DEF PendingIsHead, Starts, Counter, Run
<1>9. CursorOK' /\ WalkAtStart'
  BY <1>1, <1>2, PacketAssumption DEF CursorOK, WalkAtStart, Walking
<1>10. PacketsAreWhole'
  BY <1>1, <1>2 DEF PacketsAreWhole, Starts, Run
<1> QED  BY <1>7, <1>8, <1>9, <1>10 DEF Carried

\* Steps that change neither the demultiplexer's pending bytes nor the archive.
LEMMA QuietKeeps ==
    ASSUME IInv, UNCHANGED <<sent, channel, archive>>,
           UNCHANGED cursor \/ cursor' = [cursor EXCEPT !.at = Zone]
    PROVE  Carried'
<1>1. (ChannelOK /\ PendingIsHead /\ PacketsAreWhole)'
  BY DEF IInv, Carried, ChannelOK, PendingIsHead, PacketsAreWhole, Starts, Counter, Run
<1>2. CASE UNCHANGED cursor
  BY <1>1, <1>2 DEF IInv, Carried, CursorOK, WalkAtStart, Walking, Starts, Counter, Base
<1>3. CASE cursor' = [cursor EXCEPT !.at = Zone]
  BY <1>1, <1>3, PacketAssumption DEF IInv, Carried, CursorOK, WalkAtStart, Walking
<1> QED  BY <1>2, <1>3 DEF Carried

LEMMA SentKeeps ==
    ASSUME SentOK, sent' = sent
    PROVE  SentOK'
BY DEF SentOK, Starts

LEMMA NextIInv == IInv /\ [Next]_vars => IInv'
<1> SUFFICES ASSUME IInv, [Next]_vars PROVE SentOK' /\ FileOK' /\ Carried'
  BY DEF IInv, Carried
<1>1. SentOK /\ FileOK
  BY DEF IInv, Carried
<1>2. ASSUME NEW f \in Numbers, ReadFrame(f) PROVE SentOK' /\ FileOK' /\ Carried'
  <2>1. sent' = sent
    BY <1>2 DEF ReadFrame
  <2>2. FileOK'
    BY <1>1, <1>2 DEF ReadFrame, FileOK
  <2>3. ASSUME Repeated(f) PROVE Carried'
    <3>1. UNCHANGED <<sent, channel, archive>> /\ UNCHANGED cursor
      BY <2>1, <2>3 DEF Repeated
    <3> QED  BY <3>1, QuietKeeps
  <2>4. ASSUME Foreign(f) PROVE Carried'
    <3>1. UNCHANGED <<sent, channel, archive>> /\ UNCHANGED cursor
      BY <2>1, <2>4 DEF Foreign
    <3> QED  BY <3>1, QuietKeeps
  <2>5. ASSUME Push(f) /\ PushNothing(f) PROVE Carried'
    <3>1. /\ channel' = [last |-> Counter(f), pending |-> <<>>]
          /\ cursor' = [frame |-> f, at |-> Zone]
          /\ archive' = archive
      BY <2>5 DEF PushNothing
    <3>2. Counter(f) \in Int
      BY <1>1, CounterIsNumber
    <3>3. (ChannelOK /\ CursorOK /\ PendingIsHead /\ WalkAtStart)'
      BY <3>1, <3>2, PacketAssumption
         DEF ChannelOK, CursorOK, PendingIsHead, WalkAtStart, Walking
    <3>4. PacketsAreWhole'
      BY <2>1, <3>1 DEF IInv, Carried, PacketsAreWhole, Starts, Run
    <3> QED  BY <3>3, <3>4 DEF Carried
  <2>6. ASSUME Push(f) /\ PushZone(f) PROVE Carried'
    BY <2>1, <2>6, PushZoneKeeps
  <2>7. Carried'
    <3> QED  BY <1>2, <2>3, <2>4, <2>5, <2>6 DEF ReadFrame, Push
  <2> QED  BY <1>1, <2>1, <2>2, <2>7, SentKeeps
<1>3. CASE WalkPacket
  <2>1. UNCHANGED <<sent, queue>>
    BY <1>3 DEF WalkPacket
  <2> QED  BY <1>1, <1>3, <2>1, SentKeeps, WalkPacketKeeps DEF FileOK
<1>4. CASE WalkPart
  <2>1. UNCHANGED <<sent, queue>>
    BY <1>4 DEF WalkPart
  <2> QED  BY <1>1, <1>4, <2>1, SentKeeps, WalkPartKeeps DEF FileOK
<1>5. CASE WalkInvalid
  <2>1. UNCHANGED <<sent, queue, channel, archive>> /\ cursor' = [cursor EXCEPT !.at = Zone]
    BY <1>5 DEF WalkInvalid
  <2> QED  BY <1>1, <2>1, SentKeeps, QuietKeeps DEF FileOK
<1>6. ASSUME NEW b \in SUBSET Numbers, NEW n \in SUBSET Numbers, Augment(b, n)
      PROVE  SentOK' /\ FileOK' /\ Carried'
  <2>1. UNCHANGED <<sent, channel, cursor, archive>>
    BY <1>6 DEF Augment
  <2>2. FileOK'
    <3>1. CASE SpanRefused(b \cup n)
      BY <1>6, <3>1 DEF Augment, FileOK
    <3>2. CASE ~SpanRefused(b \cup n)
      <4>1. queue' \in [1..Cardinality(b \cup n) -> b \cup n]
        BY <1>6, <3>2 DEF Augment
      <4>2. Cardinality(b \cup n) \in Nat
        <5>1. IsFiniteSet(Numbers)
          BY FS_Interval, PacketAssumption DEF Numbers
        <5>2. IsFiniteSet(b \cup n)
          BY <5>1, FS_Subset
        <5> QED  BY <5>2, FS_CardinalityType
      <4>3. queue' \in [1..Cardinality(b \cup n) -> Numbers]
        BY <4>1
      <4> QED  BY <4>2, <4>3, SeqDef DEF FileOK
    <3> QED  BY <3>1, <3>2
  <2> QED  BY <1>1, <2>1, <2>2, SentKeeps, QuietKeeps
<1>7. CASE UNCHANGED vars
  BY <1>1, <1>7, SentKeeps, QuietKeeps DEF vars, FileOK
<1> QED  BY <1>2, <1>3, <1>4, <1>5, <1>6, <1>7 DEF Next

\* Whatever the sizes of frames, headers and packets, whatever is lost, repeated or out
\* of order: every packet written is one that was sent, whole.
THEOREM PacketsWhole == Spec => []PacketsAreWhole
<1>1. IInv => PacketsAreWhole
  BY DEF IInv, Carried
<1> QED  BY InitIInv, NextIInv, <1>1, PTL DEF Spec
-----------------------------------------------------------------------------
(* Kept packets *)
-----------------------------------------------------------------------------
(* Places and frames *)

LEMMA FrameOfIs ==
    ASSUME NEW x \in Nat
    PROVE  /\ FrameOf(x) \in Nat /\ FrameOf(x) >= 1
           /\ (FrameOf(x) - 1) * Zone <= x
           /\ x < FrameOf(x) * Zone
<1> DEFINE q == x \div Zone
<1>1. Zone \in Nat /\ Zone > 0
  BY PacketAssumption
<1>2. q \in Nat /\ q * Zone <= x /\ x < q * Zone + Zone
  BY <1>1
<1>3. FrameOf(x) = q + 1 /\ (q + 1) * Zone = q * Zone + Zone
  BY <1>1, <1>2 DEF FrameOf
<1> HIDE DEF q
<1> QED  BY <1>2, <1>3

\* A frame begins where the one before it ends, and frames are in order.
LEMMA ZonesInOrder ==
    ASSUME NEW f \in Nat, NEW g \in Nat, f < g
    PROVE  f * Zone <= (g - 1) * Zone /\ f * Zone + Zone <= g * Zone
<1>1. Zone \in Nat /\ g - 1 - f \in Nat
  BY PacketAssumption
<1>2. (g - 1 - f) * Zone \in Nat
  BY <1>1
<1>3. (g - 1 - f) * Zone = (g - 1) * Zone - f * Zone /\ (g - 1) * Zone + Zone = g * Zone
  BY <1>1
<1>4. f * Zone \in Nat /\ (g - 1) * Zone \in Nat /\ g * Zone \in Nat
  <2>1. g - 1 \in Nat
    BY <1>1
  <2> QED  BY <1>1, <2>1
<1> QED  BY <1>1, <1>2, <1>3, <1>4

\* A place lies in a frame before g if it lies before the beginning of g.
LEMMA FrameBefore ==
    ASSUME NEW x \in Nat, NEW g \in Nat
    PROVE  FrameOf(x) <= g <=> x < g * Zone
<1>1. /\ FrameOf(x) \in Nat /\ FrameOf(x) >= 1
      /\ (FrameOf(x) - 1) * Zone <= x /\ x < FrameOf(x) * Zone
  BY FrameOfIs
<1>2. FrameOf(x) - 1 \in Nat /\ Zone \in Nat
  BY <1>1, PacketAssumption
<1>3. /\ FrameOf(x) * Zone \in Nat /\ (FrameOf(x) - 1) * Zone \in Nat
      /\ g * Zone \in Nat
  BY <1>1, <1>2
<1>4. CASE FrameOf(x) = g
  BY <1>1, <1>4
<1>5. CASE FrameOf(x) < g
  <2>1. FrameOf(x) * Zone + Zone <= g * Zone
    BY <1>1, <1>5, ZonesInOrder
  <2> QED  BY <1>1, <1>2, <1>3, <1>5, <2>1
<1>6. CASE g < FrameOf(x)
  <2>1. g * Zone <= (FrameOf(x) - 1) * Zone
    BY <1>1, <1>6, ZonesInOrder
  <2> QED  BY <1>1, <1>2, <1>3, <1>6, <2>1
<1> QED  BY <1>1, <1>4, <1>5, <1>6

\* A stretch of places ends in a frame before g if it ends before g begins.
LEMMA EndsBefore ==
    ASSUME NEW a \in Nat, NEW n \in Nat, n > 0, NEW g \in Nat
    PROVE  /\ FrameOf(a + n - 1) \in Nat
           /\ FrameOf(a + n - 1) <= g <=> a + n <= g * Zone
<1> DEFINE x == a + n - 1
<1>1. x \in Nat /\ a + n = x + 1 /\ g * Zone \in Nat
  BY PacketAssumption
<1> HIDE DEF x
<1>2. FrameOf(x) \in Nat /\ (FrameOf(x) <= g <=> x < g * Zone)
  BY <1>1, FrameOfIs, FrameBefore
<1> QED  BY <1>1, <1>2 DEF x

LEMMA CounterNext ==
    ASSUME SentOK, NEW f \in Numbers, f + 1 \in Numbers
    PROVE  Counter(f + 1) = Successor(Counter(f))
BY PacketAssumption DEF SentOK, Numbers, Counter, Successor
-----------------------------------------------------------------------------
(* Where the first header of a frame is *)

LEMMA FirstIs ==
    ASSUME SentOK, NEW f \in Numbers, sent.frame[f] \notin {"idle", "skewed"},
           NEW a \in Starts, Base(f) <= a, a < f * Zone,
           \A b \in Starts : Base(f) <= b => a <= b
    PROVE  /\ Pointer(f) = a - Base(f)
           /\ Boundary(f) = a - Base(f)
           /\ Pointer(f) \notin {OnlyIdle, Outside, NoHeader}
<1>1. /\ Base(f) \in Nat /\ Base(f) + Zone = f * Zone /\ f * Zone \in Nat /\ Zone \in Nat
      /\ \A b \in Starts : b \in Nat
  BY ZoneEnds, PacketAssumption DEF SentOK
<1>2. IsFirst(f, a - Base(f))
  BY <1>1 DEF IsFirst
<1>3. \A o \in 0..(Zone - 1) : IsFirst(f, o) => o = a - Base(f)
  BY <1>1 DEF IsFirst
<1>4. a - Base(f) \in 0..(Zone - 1)
  BY <1>1
<1>5. Pointer(f) = a - Base(f)
  BY <1>2, <1>3, <1>4 DEF Pointer
<1> QED  BY <1>1, <1>4, <1>5 DEF Boundary, OnlyIdle, Outside, NoHeader

LEMMA NoFirst ==
    ASSUME SentOK, NEW f \in Numbers, sent.frame[f] \notin {"idle", "skewed"},
           \A b \in Starts : ~(Base(f) <= b /\ b < f * Zone)
    PROVE  /\ Pointer(f) = NoHeader
           /\ Boundary(f) = Zone
           /\ Pointer(f) \notin {OnlyIdle, Outside}
<1>1. /\ Base(f) \in Nat /\ Base(f) + Zone = f * Zone /\ f * Zone \in Nat /\ Zone \in Nat
  BY ZoneEnds, PacketAssumption
<1>2. \A o \in 0..(Zone - 1) : ~IsFirst(f, o)
  BY <1>1 DEF IsFirst
<1>3. Pointer(f) = NoHeader
  BY <1>2 DEF Pointer
<1> QED  BY <1>1, <1>3 DEF Boundary, OnlyIdle, Outside, NoHeader

\* In a plain frame with a start, the header is at the start or before it.
LEMMA FirstBefore ==
    ASSUME SentOK, NEW f \in Numbers, sent.frame[f] \notin {"idle", "skewed"},
           NEW a \in Starts, Base(f) <= a, a < f * Zone
    PROVE  /\ Pointer(f) \notin {OnlyIdle, Outside, NoHeader}
           /\ Boundary(f) < Zone
           /\ Base(f) + Boundary(f) <= a
<1>1. /\ Base(f) \in Nat /\ Base(f) + Zone = f * Zone /\ f * Zone \in Nat /\ Zone \in Nat
      /\ \A b \in Starts : b \in Nat
  BY ZoneEnds, PacketAssumption DEF SentOK
<1> DEFINE T == {b \in Starts : Base(f) <= b}
<1>2. T \in SUBSET Nat /\ T # {}
  BY <1>1
<1>3. PICK b \in T : \A c \in T : b <= c
  BY <1>2, LeastOne
<1>4. b \in Starts /\ Base(f) <= b /\ b <= a /\ \A c \in Starts : Base(f) <= c => b <= c
  BY <1>3
<1>5. b < f * Zone
  BY <1>1, <1>4
<1>6. /\ Pointer(f) = b - Base(f) /\ Boundary(f) = b - Base(f)
      /\ Pointer(f) \notin {OnlyIdle, Outside, NoHeader}
  BY <1>4, <1>5, FirstIs
<1> QED  BY <1>1, <1>4, <1>5, <1>6
-----------------------------------------------------------------------------
(* A packet on its way: steps *)

\* Where a packet that is underway stands.
LEMMA UnderwayIs ==
    ASSUME SentOK, CursorOK, NEW a \in Starts, Underway(a)
    PROVE  /\ a \in Nat /\ sent.length[a] \in Nat /\ cursor.frame * Zone \in Nat
           /\ sent.length[a] > Header
           /\ a < cursor.frame * Zone
           /\ cursor.frame * Zone < a + sent.length[a]
           /\ cursor.frame * Zone - a \in Nat
           /\ channel.pending = Run(a, cursor.frame * Zone - a)
           /\ channel.pending # <<>>
<1> DEFINE g == cursor.frame
           e == a + sent.length[a]
<1>1. a \in Nat /\ sent.length[a] \in Nat /\ sent.length[a] > Header /\ Header \in Nat
  BY PacketAssumption DEF SentOK
<1>2. g \in Numbers /\ g \in Nat
  BY DEF CursorOK, Numbers
<1>3. g * Zone \in Nat
  BY <1>2, ZoneEnds
<1>4. sent.length[a] > 0
  BY <1>1
<1> HIDE DEF g
<1>5. /\ FrameOf(a) \in Nat /\ LastOf(a) \in Nat
      /\ LastOf(a) <= g <=> a + sent.length[a] <= g * Zone
  BY <1>1, <1>2, <1>4, FrameOfIs, EndsBefore DEF LastOf
<1>6. FrameOf(a) <= g /\ ~(LastOf(a) <= g)
  BY <1>2, <1>5 DEF Underway, g
<1>7. a < g * Zone
  BY <1>1, <1>2, <1>6, FrameBefore
<1>9. g * Zone < e /\ g * Zone - a \in Nat /\ g * Zone - a # 0
  BY <1>1, <1>3, <1>5, <1>6, <1>7
<1>10. channel.pending = Run(a, g * Zone - a) /\ channel.pending # <<>>
  BY <1>1, <1>9, EmptyRun DEF Underway, g
<1> QED  BY <1>1, <1>3, <1>7, <1>9, <1>10 DEF g

\* The frame that follows completes the pending packet or prolongs it.
LEMMA PushGoesOn ==
    ASSUME SentOK, Apart, ChannelOK, CursorOK, sent' = sent,
           NEW a \in Starts, sent.kind[a] = "data", Underway(a),
           channel.last = Counter(cursor.frame),
           NEW f \in Numbers, f = cursor.frame + 1,
           sent.frame[f] \notin {"idle", "skewed"}, PushZone(f)
    PROVE  Archived(a)' \/ Underway(a)'
<1> DEFINE g == cursor.frame
           len == sent.length[a]
           e == a + len
           n == g * Zone - a
           end == f * Zone
<1>1. g \in Numbers /\ g \in Nat /\ f \in Nat /\ f - 1 = g
  BY DEF CursorOK, Numbers
<1>2. /\ Base(f) = g * Zone /\ Base(f) \in Nat /\ Base(f) + Zone = end /\ end \in Nat
      /\ end <= Total /\ Zone \in Nat /\ Total \in Nat /\ Header \in Nat /\ Header > 0
  BY <1>1, ZoneEnds, PacketAssumption DEF Base, Total
<1>3. /\ a \in Nat /\ len \in Nat /\ len > Header
      /\ a < Base(f) /\ Base(f) < e /\ n \in Nat
  BY <1>2, UnderwayIs
<1>4. ~Gap(Counter(f)) /\ Kept(f) = Run(a, n) /\ Kept(f) # <<>>
  <2>1. Counter(f) = Successor(Counter(g))
    BY <1>1, CounterNext
  <2>2. channel.pending = Run(a, n) /\ channel.pending # <<>>
    BY UnderwayIs
  <2> QED  BY <2>1, <2>2 DEF Gap, Kept
<1>5. \A b \in Starts : b \in Nat /\ (a < b => e <= b)
  BY DEF Apart, SentOK
<1>6. e < Total => e \in Starts
  BY <1>2, <1>3 DEF SentOK
<1> HIDE DEF g, len, n, e, end
<1>7. a + n = Base(f) /\ e \in Nat /\ e = a + len
  <2>1. n = Base(f) - a /\ e = a + len
    BY <1>2 DEF n, e
  <2> QED  BY <1>2, <1>3, <2>1
<1>8. \A b \in Starts : Base(f) <= b => e <= b
  <2> TAKE b \in Starts
  <2>1. Base(f) <= b => a < b
    BY <1>2, <1>3, <1>5
  <2> QED  BY <1>5, <2>1
<1>9. ASSUME Boundary(f) \in Nat
      PROVE  Joined(f) = Run(a, n + Boundary(f))
  <2>1. Bytes(f, 1, Boundary(f)) = Run(Base(f) + 1 - 1, Boundary(f) - 1 + 1)
    BY <1>9, ZoneBytes
  <2>2. Base(f) + 1 - 1 = a + n /\ Boundary(f) - 1 + 1 = Boundary(f)
    BY <1>2, <1>7, <1>9
  <2>3. Run(a, n) \o Run(a + n, Boundary(f)) = Run(a, n + Boundary(f))
    <3>1. a \in Nat /\ n \in Nat
      BY <1>3
    <3> QED  BY <1>9, <3>1, RunJoins
  <2> QED  BY <1>4, <2>1, <2>2, <2>3 DEF Joined
<1>10. CASE e <= end
  <2>1. Boundary(f) = e - Base(f)
    <3>1. CASE e < end
      <4>1. e \in Starts /\ Base(f) <= e
        BY <1>2, <1>3, <1>6, <1>7, <3>1
      <4> QED  BY <3>1, <4>1, <1>8, FirstIs DEF end
    <3>2. CASE e = end
      <4>1. \A b \in Starts : ~(Base(f) <= b /\ b < end)
        BY <1>2, <1>5, <1>8, <3>2
      <4>2. Boundary(f) = Zone
        BY <4>1, NoFirst DEF end
      <4> QED  BY <1>2, <3>2, <4>2
    <3> QED  BY <1>2, <1>7, <1>10, <3>1, <3>2
  <2>2. Boundary(f) \in Nat /\ n + Boundary(f) = len
    <3>1. Base(f) \in Nat /\ a \in Nat /\ len \in Nat /\ n \in Nat /\ Base(f) < e
      BY <1>2, <1>3
    <3> QED  BY <1>7, <2>1, <3>1
  <2>3. Joined(f) = Run(a, len)
    BY <1>9, <2>2
  <2>4. Len(Run(a, len)) = len /\ len >= Header
    BY <1>2, <1>3, RunFacts
  <2>5. Extent(Run(a, len)) = len /\ Run(a, len)[1] = a
    BY <1>3, <2>4, HeaderOfRun DEF len
  <2>6. SubSeq(Run(a, len), 1, len) = Run(a, len)
    <3>1. len \in Nat /\ a \in Nat /\ len <= len
      BY <1>3
    <3> QED  BY <3>1, RunCut
  <2>7. FillCompletes(f)
    <3>1. Extent(Joined(f)) = len /\ Len(Joined(f)) = len /\ Joined(f)[1] = a
      BY <2>3, <2>4, <2>5
    <3>2. HeaderRead(Joined(f)) /\ HeaderValid(Joined(f))
      BY <2>4, <3>1 DEF HeaderRead, HeaderValid
    <3>3. Len(Joined(f)) >= Extent(Joined(f))
      BY <1>3, <3>1
    <3> QED  BY <1>4, <3>2, <3>3 DEF FillCompletes
  <2>8. Packet(SubSeq(Joined(f), 1, Extent(Joined(f)))) = {Run(a, len)}
    BY <2>3, <2>5, <2>6 DEF Packet
  <2>9. Run(a, len) \in archive'
    BY <2>7, <2>8 DEF PushZone
  <2> QED  BY <2>9 DEF Archived, len
<1>11. CASE end < e
  <2>1. \A b \in Starts : ~(Base(f) <= b /\ b < end)
    BY <1>2, <1>5, <1>7, <1>8, <1>11
  <2>2. Pointer(f) = NoHeader /\ Boundary(f) = Zone
    BY <2>1, NoFirst DEF end
  <2>3. Joined(f) = Run(a, n + Zone)
    BY <1>2, <1>9, <2>2
  <2>4. n + Zone = end - a /\ n + Zone < len /\ n + Zone \in Nat
    BY <1>2, <1>3, <1>7, <1>11
  <2>5. Len(Joined(f)) = n + Zone
    BY <1>3, <2>3, <2>4, RunFacts
  <2>6. ASSUME HeaderRead(Joined(f))
        PROVE  HeaderValid(Joined(f)) /\ ~(Len(Joined(f)) >= Extent(Joined(f)))
    <3>1. n + Zone >= Header
      BY <2>5, <2>6 DEF HeaderRead
    <3>2. Extent(Joined(f)) = len /\ Joined(f)[1] = a
      BY <2>3, <2>4, <3>1, HeaderOfRun DEF len
    <3>3. HeaderValid(Joined(f))
      BY <3>2 DEF HeaderValid
    <3> QED  BY <1>3, <2>4, <2>5, <3>2, <3>3
  <2>7. FillGoesOn(f)
    BY <1>4, <2>6 DEF FillGoesOn, FillInvalid, FillCompletes
  <2>8. channel'.pending = Run(a, end - a) /\ cursor'.frame = f
    BY <2>2, <2>3, <2>4, <2>7 DEF PushZone
  <2>9. f \in FrameOf(a)..(LastOf(a) - 1)
    <3>1. ~(a + len <= end) /\ len > 0
      BY <1>2, <1>3, <1>7, <1>11
    <3>2. LastOf(a) = FrameOf(a + len - 1)
      BY DEF LastOf, len
    <3>3. ~(LastOf(a) <= f) /\ LastOf(a) \in Nat
      BY <1>1, <1>3, <3>1, <3>2, EndsBefore DEF end
    <3>4. g \in FrameOf(a)..(LastOf(a) - 1) /\ FrameOf(a) \in Nat
      BY <1>3, FrameOfIs DEF Underway, g
    <3>5. FrameOf(a) <= g
      BY <1>1, <3>3, <3>4
    <3> QED  BY <1>1, <3>3, <3>4, <3>5
  <2>10. LastOf(a)' = LastOf(a)
    BY DEF LastOf
  <2> QED  BY <2>8, <2>9, <2>10 DEF Underway, end
<1> QED  BY <1>2, <1>7, <1>10, <1>11

\* A packet that starts in a plain frame is ahead of the walk through it.
LEMMA PushStarts ==
    ASSUME SentOK, sent' = sent, NEW a \in Starts,
           NEW f \in Numbers, f = FrameOf(a),
           sent.frame[f] \notin {"idle", "skewed"}, PushZone(f)
    PROVE  Ahead(a)'
<1>1. a \in Nat
  BY DEF SentOK
<1>2. Base(f) <= a /\ a < f * Zone
  BY <1>1, FrameOfIs DEF Base
<1>3. Boundary(f) < Zone /\ Base(f) + Boundary(f) <= a
  BY <1>2, FirstBefore
<1>4. cursor' = [frame |-> f, at |-> Boundary(f)]
  BY DEF PushZone
<1> QED  BY <1>3, <1>4 DEF Ahead, Walking

\* Plain frames are walked, idle ones and skewed ones are not.
LEMMA PlainIsWalked ==
    ASSUME NEW f \in Numbers
    PROVE  sent.frame[f] \notin {"idle", "skewed"} <=> Pointer(f) \notin {OnlyIdle, Outside}
<1>1. CASE \E o \in 0..(Zone - 1) : IsFirst(f, o)
  BY <1>1, PacketAssumption DEF Pointer, OnlyIdle, Outside
<1>2. CASE ~\E o \in 0..(Zone - 1) : IsFirst(f, o)
  BY <1>2, PacketAssumption DEF Pointer, OnlyIdle, Outside, NoHeader
<1> QED  BY <1>1, <1>2

\* What the walk stands at, beside a packet that is ahead of it.
LEMMA AheadIs ==
    ASSUME IInv, Apart, NEW a \in Starts, Ahead(a)
    PROVE  LET b == Base(cursor.frame) + cursor.at
               n == Zone - cursor.at
           IN /\ b \in Starts /\ b \in Nat /\ a \in Nat /\ n \in Nat /\ n # 0
              /\ Rest = Run(b, n) /\ Len(Rest) = n
              /\ b + n = cursor.frame * Zone
              /\ FrameOf(b) = FrameOf(a)
              /\ sent.length[b] \in Nat /\ sent.length[b] > Header /\ Header \in Nat
              /\ a < cursor.frame * Zone
              /\ b < a => b + sent.length[b] <= a
              /\ b <= a
<1> DEFINE g == cursor.frame
           b == Base(g) + cursor.at
           n == Zone - cursor.at
<1>1. Walking /\ g = FrameOf(a) /\ b <= a
  BY DEF Ahead
<1>2. /\ b \in Starts /\ b \in Nat /\ n \in Nat
      /\ Rest = Run(b, n) /\ Len(Rest) = n
      /\ b + n = g * Zone
  BY <1>1, RestIs
<1>3. a \in Nat /\ sent.length[b] \in Nat /\ sent.length[b] > Header /\ Header \in Nat
  BY <1>2, PacketAssumption DEF IInv, SentOK
<1>4. g \in Numbers /\ g \in Nat /\ g - 1 \in Nat /\ cursor.at \in Nat /\ cursor.at < Zone
  BY <1>1, PacketAssumption DEF IInv, Carried, CursorOK, Numbers, Walking
<1>5. n # 0 /\ Zone \in Nat
  BY <1>4, PacketAssumption
<1>6. a < g * Zone
  BY <1>1, <1>3, FrameOfIs
<1>7. FrameOf(b) = g
  <2>1. Base(g) \in Nat /\ Base(g) = (g - 1) * Zone
    BY <1>4, ZoneEnds DEF Base
  <2>2. Base(g) <= b
    BY <1>4, <2>1
  <2> HIDE DEF b, n, g
  <2>3. b < g * Zone
    BY <1>2, <1>5
  <2>4. FrameOf(b) <= g
    BY <1>2, <1>4, <2>3, FrameBefore
  <2>5. ~(FrameOf(b) <= g - 1)
    BY <1>2, <1>4, <2>1, <2>2, FrameBefore
  <2>6. FrameOf(b) \in Nat
    BY <1>2, FrameOfIs
  <2> QED  BY <1>4, <2>4, <2>5, <2>6
<1>8. b < a => b + sent.length[b] <= a
  BY <1>2 DEF Apart
<1> QED  BY <1>1, <1>2, <1>3, <1>5, <1>6, <1>7, <1>8

\* The walk takes the packet or comes nearer to it.
LEMMA WalkPacketComes ==
    ASSUME IInv, Apart, WalkPacket, NEW a \in Starts, sent.kind[a] = "data", Ahead(a)
    PROVE  Archived(a)' \/ Ahead(a)'
<1> DEFINE g == cursor.frame
           b == Base(g) + cursor.at
           n == Zone - cursor.at
<1>1. /\ b \in Starts /\ b \in Nat /\ a \in Nat /\ n \in Nat
      /\ Rest = Run(b, n) /\ Len(Rest) = n
      /\ b + n = g * Zone
      /\ sent.length[b] \in Nat
      /\ a < g * Zone
      /\ b < a => b + sent.length[b] <= a
      /\ b <= a
  BY AheadIs
<1>2. /\ Fits /\ sent' = sent
      /\ archive' = archive \cup Packet(SubSeq(Rest, 1, Extent(Rest)))
      /\ cursor' = [cursor EXCEPT !.at = @ + Extent(Rest)]
  BY DEF WalkPacket
<1>3. SentOK /\ g \in Numbers /\ cursor.at \in Nat /\ cursor \in [frame : Numbers, at : 0..Zone]
  BY PacketAssumption DEF IInv, Carried, CursorOK
<1>4. Extent(Rest) = sent.length[b] /\ Rest[1] = b /\ sent.length[b] <= n
  <2>1. n >= Header
    BY <1>1, <1>2 DEF Fits, HeaderRead
  <2>2. Extent(Rest) = sent.length[b] /\ Rest[1] = b
    <3> HIDE DEF b, n
    <3> QED  BY <1>1, <1>3, <2>1, HeaderOfRun
  <2> QED  BY <1>1, <1>2, <2>2 DEF Fits
<1>5. CASE a = b
  <2>1. SubSeq(Rest, 1, Extent(Rest)) = Run(a, sent.length[a])
    <3> HIDE DEF b, n
    <3>1. SubSeq(Run(b, n), 1, sent.length[b]) = Run(b, sent.length[b])
      BY <1>1, <1>4, RunCut
    <3> QED  BY <1>1, <1>4, <1>5, <3>1
  <2>2. Run(a, sent.length[a])[1] = a
    <3>1. sent.length[a] \in Nat /\ sent.length[a] >= Header
      BY <1>3, PacketAssumption DEF SentOK
    <3> QED  BY <1>3, <3>1, HeaderOfRun
  <2>3. Packet(SubSeq(Rest, 1, Extent(Rest))) = {Run(a, sent.length[a])}
    BY <2>1, <2>2 DEF Packet
  <2> QED  BY <1>2, <2>3 DEF Archived
<1>6. CASE b < a
  <2>1. b + sent.length[b] <= a
    BY <1>1, <1>6
  <2>2. cursor'.frame = g /\ cursor'.at = cursor.at + sent.length[b]
    BY <1>2, <1>3, <1>4
  <2>3. Base(g) \in Nat /\ Base(g) + Zone = g * Zone /\ Zone \in Nat
    BY <1>3, ZoneEnds, PacketAssumption
  <2>4. Base(g) + (cursor.at + sent.length[b]) <= a /\ cursor.at + sent.length[b] < Zone
    <3> DEFINE len == sent.length[b]
               at == cursor.at
    <3>1. at \in Nat /\ len \in Nat /\ a \in Nat /\ a < g * Zone
      BY <1>1, <1>3
    <3>2. Base(g) + at + len <= a
      BY <2>1
    <3> HIDE DEF g, n, len, at
    <3>3. Base(g) + (at + len) <= a /\ at + len < Zone
      BY <2>3, <3>1, <3>2
    <3> QED  BY <3>3 DEF len, at
  <2>5. g = FrameOf(a)
    BY DEF Ahead
  <2> QED  BY <2>2, <2>4, <2>5 DEF Ahead, Walking
<1> QED  BY <1>1, <1>5, <1>6

\* A packet that does not fit in its frame is pending at its end.
LEMMA WalkPartComes ==
    ASSUME IInv, Apart, WalkPart, NEW a \in Starts, Ahead(a)
    PROVE  Underway(a)'
<1> DEFINE g == cursor.frame
           b == Base(g) + cursor.at
           n == Zone - cursor.at
<1>1. /\ b \in Starts /\ b \in Nat /\ a \in Nat /\ n \in Nat
      /\ Rest = Run(b, n) /\ Len(Rest) = n
      /\ b + n = g * Zone
      /\ sent.length[b] \in Nat /\ sent.length[b] > Header /\ Header \in Nat
      /\ a < g * Zone
      /\ b < a => b + sent.length[b] <= a
      /\ b <= a
  BY AheadIs
<1>2. /\ Walking /\ ~Fits /\ sent' = sent
      /\ channel' = [channel EXCEPT !.pending = @ \o Rest]
      /\ cursor' = [cursor EXCEPT !.at = Zone]
  BY DEF WalkPart
<1>3. SentOK /\ g \in Numbers /\ g \in Nat /\ cursor \in [frame : Numbers, at : 0..Zone]
  BY DEF IInv, Carried, CursorOK, Numbers
<1>4. n < sent.length[b]
  <2>1. CASE n < Header
    BY <1>1, <2>1
  <2>2. CASE n >= Header
    <3>1. Extent(Rest) = sent.length[b]
      <4> HIDE DEF b, n
      <4> QED  BY <1>1, <1>3, <2>2, HeaderOfRun
    <3> QED  BY <1>1, <1>2, <2>2, <3>1 DEF Fits, HeaderRead
  <2> QED  BY <1>1, <2>1, <2>2
<1>5. a = b
  <2>1. ~(b < a)
    <3> HIDE DEF b, n
    <3> QED  BY <1>1, <1>4, <1>3
  <2> QED  BY <1>1, <2>1
<1>6. channel'.pending = Run(a, g * Zone - a)
  <2>1. channel.pending = <<>> /\ channel \in [last : Int, pending : Seq(Nat)]
    BY <1>2 DEF IInv, Carried, WalkAtStart, ChannelOK
  <2>2. Rest \in Seq(Nat)
    BY <1>1, RunFacts
  <2>3. channel'.pending = Rest
    BY <1>2, <2>1, <2>2
  <2>4. n = g * Zone - a
    <3> HIDE DEF b, n
    <3> QED  BY <1>1, <1>5
  <2> QED  BY <1>1, <1>5, <2>3, <2>4
<1>7. cursor'.frame = g /\ g = FrameOf(a)
  BY <1>2, <1>3 DEF Ahead
<1>8. g \in FrameOf(a)..(LastOf(a) - 1)
  <2>1. /\ sent.length[a] \in Nat /\ sent.length[a] > 0
        /\ ~(a + sent.length[a] <= g * Zone)
    <3> HIDE DEF b, n
    <3> QED  BY <1>1, <1>3, <1>4, <1>5
  <2> HIDE DEF g
  <2>2. ~(LastOf(a) <= g) /\ LastOf(a) \in Nat
    BY <1>1, <1>3, <2>1, EndsBefore DEF LastOf
  <2> QED  BY <1>3, <1>7, <2>2
<1>9. LastOf(a)' = LastOf(a)
  BY <1>2 DEF LastOf
<1> QED  BY <1>6, <1>7, <1>8, <1>9 DEF Underway

\* The walk does not give up before a packet unless a header before it is strange.
LEMMA WalkInvalidMisses ==
    ASSUME IInv, Apart, WalkInvalid, NEW a \in Starts, sent.kind[a] = "data", Ahead(a)
    PROVE  \E b \in Starts : FrameOf(b) = FrameOf(a) /\ b < a /\ sent.kind[b] = "strange"
<1> DEFINE b == Base(cursor.frame) + cursor.at
           n == Zone - cursor.at
<1>1. /\ b \in Starts /\ b \in Nat /\ a \in Nat /\ n \in Nat
      /\ Rest = Run(b, n) /\ Len(Rest) = n
      /\ FrameOf(b) = FrameOf(a)
      /\ b <= a
  BY AheadIs
<1>2. HeaderRead(Rest) /\ ~HeaderValid(Rest)
  BY DEF WalkInvalid
<1>3. Rest[1] = b
  <2>1. n >= Header
    BY <1>1, <1>2 DEF HeaderRead
  <2>2. SentOK
    BY DEF IInv
  <2> HIDE DEF b, n
  <2> QED  BY <1>1, <2>1, <2>2, HeaderOfRun
<1>4. sent.kind[b] = "strange"
  BY <1>2, <1>3 DEF HeaderValid
<1> QED  BY <1>1, <1>4
-----------------------------------------------------------------------------
(* Initially *)

LEMMA FollowingIsNext ==
    ASSUME NEW s \in Layouts, NEW a \in s, NEW b \in s, a < b
    PROVE  Following(s, a) <= b
<1> DEFINE T == {c \in s : a < c}
<1>1. T \in SUBSET Nat /\ T # {}
  <2>1. s \subseteq Nat
    BY PacketAssumption DEF Layouts, Total
  <2> QED  BY <2>1
<1>2. PICK c \in T : \A d \in T : c <= d
  BY <1>1, LeastOne
<1>3. c \in s /\ a < c /\ \A d \in s : a < d => c <= d
  BY <1>2
<1>4. \A d \in s : a < d => Following(s, a) <= d
  BY <1>3 DEF Following
<1> QED  BY <1>4

LEMMA InitKInv == Init => KInv
<1> SUFFICES ASSUME Init PROVE KInv
  OBVIOUS
<1>1. Apart
  <2>1. PICK s \in Layouts :
            sent.length = [a \in {x \in s : x < Total} |-> Following(s, a) - a]
    <3>1. sent \in Transmissions
      BY DEF Init
    <3>2. PICK s \in Layouts : sent \in UNION {
              {Transmission(s, k, of, c) : of \in FramesFor(s, k), c \in Firsts} :
              k \in KindsFor(s)}
      BY <3>1 DEF Transmissions
    <3>3. PICK k \in KindsFor(s) :
              sent \in {Transmission(s, k, of, c) : of \in FramesFor(s, k), c \in Firsts}
      BY <3>2
    <3>4. PICK of \in FramesFor(s, k), c \in Firsts : sent = Transmission(s, k, of, c)
      BY <3>3
    <3> QED  BY <3>4 DEF Transmission, Inner
  <2> SUFFICES ASSUME NEW a \in Starts, NEW b \in Starts, a < b
               PROVE  a + sent.length[a] <= b
    BY DEF Apart
  <2>2. a \in s /\ b \in s /\ a < Total /\ sent.length[a] = Following(s, a) - a
    BY <2>1 DEF Starts
  <2>3. a \in Nat /\ b \in Nat
    BY <2>2, PacketAssumption DEF Layouts, Total
  <2>4. Following(s, a) \in Nat /\ Following(s, a) <= b
    BY <2>2, FollowingIs, FollowingIsNext
  <2> QED  BY <2>2, <2>3, <2>4
<1>2. ReportOK
  BY DEF Init, ReportOK
<1>3. /\ pushed = <<>> /\ seen = {} /\ reads = 0 /\ channel.last = NoCounter /\ ~Walking
      /\ mode = "free"
  BY PacketAssumption DEF Init, Walking
<1>4. HistoryOK
  BY <1>3 DEF HistoryOK
<1>5. Merging
  BY <1>3 DEF Merging
<1>6. RowsKept
  BY <1>3 DEF RowsKept
<1>7. CleanKept
  BY <1>3 DEF CleanKept
<1> QED  BY <1>1, <1>2, <1>4, <1>5, <1>6, <1>7 DEF KInv
-----------------------------------------------------------------------------
(* Steps *)

LEMMA PushedGrows ==
    ASSUME HistoryOK, NEW f \in Numbers, pushed' = Append(pushed, f)
    PROVE  /\ Len(pushed) \in Nat /\ Len(pushed') = Len(pushed) + 1
           /\ pushed' \in Seq(Numbers)
           /\ DOMAIN pushed = 1..Len(pushed) /\ DOMAIN pushed' = 1..(Len(pushed) + 1)
           /\ pushed'[Len(pushed) + 1] = f
           /\ \A i \in 1..Len(pushed) : pushed'[i] = pushed[i]
BY AppendProperties, LenProperties DEF HistoryOK

\* What any push does.
LEMMA PushDoes ==
    ASSUME NEW f \in Numbers, Push(f)
    PROVE  /\ f \notin seen /\ seen' = seen \cup {f} /\ pushed' = Append(pushed, f)
           /\ sent.frame[f] # "foreign"
           /\ cursor'.frame = f /\ channel'.last = Counter(f)
           /\ archive \subseteq archive'
           /\ PushNothing(f) \/ PushZone(f)
BY DEF Push, PushNothing, PushZone

LEMMA ReadHistory ==
    ASSUME SentOK, HistoryOK, NEW f \in Numbers, ReadFrame(f)
    PROVE  HistoryOK'
<1>1. reads \in Nat /\ reads' = reads + 1 /\ sent' = sent /\ ~Walking
  BY DEF HistoryOK, ReadFrame
<1>2. reads' \in Nat /\ reads' # 0
  BY <1>1
<1>3. CASE Repeated(f)
  BY <1>1, <1>2, <1>3 DEF Repeated, HistoryOK, Counter, Walking
<1>4. CASE Foreign(f)
  BY <1>1, <1>2, <1>4 DEF Foreign, HistoryOK, Counter, Walking
<1>5. CASE Push(f)
  <2>1. /\ seen' = seen \cup {f} /\ pushed' = Append(pushed, f)
        /\ cursor'.frame = f /\ channel'.last = Counter(f)
    BY <1>5, PushDoes
  <2>2. /\ Len(pushed) \in Nat /\ Len(pushed') = Len(pushed) + 1
        /\ pushed' \in Seq(Numbers)
        /\ DOMAIN pushed = 1..Len(pushed) /\ DOMAIN pushed' = 1..(Len(pushed) + 1)
        /\ pushed'[Len(pushed) + 1] = f
        /\ \A i \in 1..Len(pushed) : pushed'[i] = pushed[i]
    BY <2>1, PushedGrows
  <2>3. pushed' # <<>>
    BY <2>2
  <2>4. \A g \in seen' : sent'.frame[g] = "foreign" \/ \E i \in DOMAIN pushed' : pushed'[i] = g
    <3> TAKE g \in seen'
    <3>1. CASE g = f
      BY <2>2, <3>1
    <3>2. CASE g # f
      <4>1. sent.frame[g] = "foreign" \/ \E i \in DOMAIN pushed : pushed[i] = g
        BY <2>1, <3>2 DEF HistoryOK
      <4> QED  BY <1>1, <2>2, <4>1
    <3> QED  BY <3>1, <3>2
  <2>5. \A i \in DOMAIN pushed' : pushed'[i] \in seen'
    BY <2>1, <2>2 DEF HistoryOK
  <2>6. seen' \subseteq Numbers
    BY <2>1 DEF HistoryOK
  <2>7. Counter(f)' = Counter(f)
    BY <1>1 DEF Counter
  <2> QED  BY <1>2, <2>1, <2>2, <2>3, <2>4, <2>5, <2>6, <2>7 DEF HistoryOK, Counter
<1> QED  BY <1>3, <1>4, <1>5 DEF ReadFrame

LEMMA ReadMerging ==
    ASSUME SentOK, FileOK, HistoryOK, Merging, NEW f \in Numbers, ReadFrame(f)
    PROVE  Merging'
<1> SUFFICES ASSUME mode' = "hybrid" PROVE Merging'
  BY DEF Merging
<1>1. /\ mode = "hybrid" /\ queue # <<>> /\ f = Head(queue) /\ queue' = Tail(queue)
      /\ sent' = sent
  BY DEF ReadFrame
<1>2. /\ queue \in Seq(Numbers) /\ Len(queue) \in Nat /\ Len(queue) >= 1
      /\ DOMAIN queue = 1..Len(queue)
      /\ f = queue[1]
      /\ DOMAIN queue' = 1..(Len(queue) - 1)
      /\ \A j \in 1..(Len(queue) - 1) : queue'[j] = queue[j + 1]
  BY <1>1, HeadTailProperties, LenProperties, EmptySeq DEF FileOK
<1>3. \A g : Counter(g)' = Counter(g)
  BY <1>1 DEF Counter
<1>4. /\ \A g, h \in seen \cup {queue[j] : j \in DOMAIN queue} :
            ~(2 * (Counter(h) - Counter(g)) >= Period)
      /\ \A i, j \in DOMAIN queue : i < j => Counter(queue[i]) < Counter(queue[j])
      /\ \A i, j \in DOMAIN pushed : i < j => Counter(pushed[i]) < Counter(pushed[j])
      /\ \A g \in seen, j \in DOMAIN queue : Counter(g) < Counter(queue[j])
  BY <1>1 DEF Merging, InOrder, SpanRefused
<1>5. seen' \subseteq seen \cup {f}
  BY DEF ReadFrame, Repeated, Foreign, Push
<1>6. seen \subseteq Numbers /\ \A j \in DOMAIN queue : queue[j] \in Numbers
  BY <1>2 DEF HistoryOK
<1>7. \A j \in DOMAIN queue' : j + 1 \in DOMAIN queue /\ 1 < j + 1 /\ queue'[j] = queue[j + 1]
  BY <1>2
<1>8. \A g, h \in seen' \cup {queue'[j] : j \in DOMAIN queue'} :
          ~(2 * (Counter(h) - Counter(g)) >= Period)
  <2>1. seen' \cup {queue'[j] : j \in DOMAIN queue'} \subseteq
            seen \cup {queue[j] : j \in DOMAIN queue}
    BY <1>2, <1>5, <1>7
  <2> QED  BY <1>4, <2>1
<1>9. \A i, j \in DOMAIN queue' : i < j => Counter(queue'[i]) < Counter(queue'[j])
  <2> TAKE i, j \in DOMAIN queue'
  <2>1. i < j => i + 1 < j + 1
    BY <1>2
  <2> QED  BY <1>4, <1>7, <2>1
<1>10. \A i, j \in DOMAIN pushed' : i < j => Counter(pushed'[i]) < Counter(pushed'[j])
  <2>1. CASE pushed' = pushed
    BY <1>4, <2>1
  <2>2. CASE pushed' # pushed
    <3>1. Push(f)
      BY <2>2 DEF ReadFrame, Repeated, Foreign
    <3>2. /\ Len(pushed) \in Nat
          /\ DOMAIN pushed = 1..Len(pushed) /\ DOMAIN pushed' = 1..(Len(pushed) + 1)
          /\ pushed'[Len(pushed) + 1] = f
          /\ \A i \in 1..Len(pushed) : pushed'[i] = pushed[i]
      BY <3>1, PushDoes, PushedGrows
    <3>3. 1 \in DOMAIN queue
      BY <1>2
    <3>4. \A i \in DOMAIN pushed : Counter(pushed[i]) < Counter(f)
      BY <1>2, <1>4, <3>3 DEF HistoryOK
    <3> TAKE i, j \in DOMAIN pushed'
    <3>5. CASE j = Len(pushed) + 1
      BY <3>2, <3>4, <3>5
    <3>6. CASE j # Len(pushed) + 1
      <4>1. j \in DOMAIN pushed /\ (i < j => i \in DOMAIN pushed)
        BY <3>2, <3>6
      <4> QED  BY <1>4, <3>2, <4>1
    <3> QED  BY <3>5, <3>6
  <2> QED  BY <2>1, <2>2
<1>11. \A g \in seen', j \in DOMAIN queue' : Counter(g) < Counter(queue'[j])
  <2>1. 1 \in DOMAIN queue
    BY <1>2
  <2> QED  BY <1>2, <1>4, <1>5, <1>7, <2>1
<1> QED  BY <1>3, <1>8, <1>9, <1>10, <1>11 DEF Merging, InOrder, SpanRefused

LEMMA AugmentMerging ==
    ASSUME SentOK, HistoryOK,
           NEW baseline \in SUBSET Numbers, NEW native \in SUBSET Numbers,
           Augment(baseline, native)
    PROVE  Merging'
<1> SUFFICES ASSUME mode' = "hybrid" PROVE Merging'
  BY DEF Merging
<1> DEFINE both == baseline \cup native
<1>1. seen = {} /\ pushed = <<>> /\ UNCHANGED <<sent, seen, pushed>>
  BY DEF Augment, HistoryOK
<1>2. \A g : Counter(g)' = Counter(g)
  BY <1>1 DEF Counter
<1>3. ~SpanRefused(both)
  BY DEF Augment
<1>4. {queue'[i] : i \in DOMAIN queue'} = both /\ InOrder(queue')
  BY <1>3 DEF Augment
<1>5. seen' \cup {queue'[i] : i \in DOMAIN queue'} = both
  BY <1>1, <1>4
<1>6. \A g, h \in both : ~(2 * (Counter(h) - Counter(g)) >= Period)
  BY <1>3 DEF SpanRefused
<1>7. \A i, j \in DOMAIN queue' : i < j => Counter(queue'[i]) < Counter(queue'[j])
  BY <1>4 DEF InOrder
<1>8. seen' = {} /\ DOMAIN pushed' = {}
  BY <1>1
<1> HIDE DEF both
<1> QED  BY <1>2, <1>5, <1>6, <1>7, <1>8 DEF Merging, InOrder, SpanRefused

\* A packet begins in the first of its frames and goes on to the last.
LEMMA SpansAre ==
    ASSUME SentOK, NEW a \in Starts
    PROVE  /\ FrameOf(a) \in Nat /\ LastOf(a) \in Nat /\ FrameOf(a) <= LastOf(a)
           /\ Spans(a) = FrameOf(a)..LastOf(a)
<1>1. a \in Nat /\ sent.length[a] \in Nat /\ sent.length[a] > 0
  BY PacketAssumption DEF SentOK
<1>2. FrameOf(a) \in Nat /\ FrameOf(a) >= 1 /\ (FrameOf(a) - 1) * Zone <= a
  BY <1>1, FrameOfIs
<1> DEFINE g == FrameOf(a) - 1
<1>3. g \in Nat /\ g * Zone <= a /\ g * Zone \in Nat /\ FrameOf(a) = g + 1
  BY <1>2, PacketAssumption
<1> HIDE DEF g
<1>4. LastOf(a) \in Nat /\ (LastOf(a) <= g <=> a + sent.length[a] <= g * Zone)
  BY <1>1, <1>3, EndsBefore DEF LastOf
<1>5. ~(LastOf(a) <= g)
  BY <1>1, <1>3, <1>4
<1> QED  BY <1>2, <1>3, <1>4, <1>5 DEF Spans, LastOf

\* What of a packet does not change while the transmission does not.
LEMMA PacketSame ==
    ASSUME sent' = sent, NEW a \in Starts
    PROVE  /\ Starts' = Starts
           /\ Readable(a)' = Readable(a)
           /\ Spans(a)' = Spans(a) /\ LastOf(a)' = LastOf(a)
           /\ archive \subseteq archive' /\ Archived(a) => Archived(a)'
<1>1. Starts' = Starts
  BY DEF Starts
<1>2. Spans(a)' = Spans(a) /\ LastOf(a)' = LastOf(a)
  BY DEF Spans, LastOf
<1>3. Readable(a)' = Readable(a)
  BY <1>1, <1>2 DEF Readable
<1>4. archive \subseteq archive' /\ Archived(a) => Archived(a)'
  BY DEF Archived
<1> QED  BY <1>1, <1>2, <1>3, <1>4

LEMMA PushRows ==
    ASSUME IInv, KInv, NEW f \in Numbers, ~Walking, Push(f), sent' = sent
    PROVE  RowsKept'
<1> DEFINE n == Len(pushed)
           g == cursor.frame
<1>1. SentOK /\ ChannelOK /\ CursorOK /\ Apart /\ HistoryOK /\ RowsKept
  BY DEF IInv, Carried, KInv
<1>2. /\ cursor'.frame = f /\ archive \subseteq archive' /\ sent.frame[f] # "foreign"
      /\ pushed' = Append(pushed, f)
      /\ PushNothing(f) \/ PushZone(f)
  BY PushDoes
<1>3. /\ n \in Nat /\ Len(pushed') = n + 1
      /\ DOMAIN pushed = 1..n /\ DOMAIN pushed' = 1..(n + 1)
      /\ pushed'[n + 1] = f
      /\ \A i \in 1..n : pushed'[i] = pushed[i]
  BY <1>1, <1>2, PushedGrows
<1>4. sent.frame[f] \notin {"idle", "skewed"} => PushZone(f)
  BY <1>2, PlainIsWalked DEF PushNothing
<1>5. g \in Nat /\ g \in Numbers /\ f \in Nat
  BY <1>1 DEF CursorOK, Numbers
<1> HIDE DEF n, g
<1> SUFFICES ASSUME NEW a \in Starts, Readable(a), NEW i \in DOMAIN pushed', RowSoFar(a, i)'
             PROVE  \/ Archived(a)'
                    \/ Ahead(a)' /\ i = n + 1
                    \/ Underway(a)' /\ i + f - FrameOf(a) = n + 1
  <2>1. Starts' = Starts /\ \A a \in Starts : Readable(a)' = Readable(a)
    BY PacketSame DEF Starts
  <2> QED  BY <1>2, <1>3, <2>1 DEF RowsKept
<1>6. /\ FrameOf(a) \in Nat /\ LastOf(a) \in Nat /\ FrameOf(a) <= LastOf(a)
      /\ Spans(a) = FrameOf(a)..LastOf(a)
  BY <1>1, SpansAre
<1>7. /\ pushed'[i] = FrameOf(a) /\ i \in Nat
      /\ \A h \in FrameOf(a)..LastOf(a) :
            i + h - FrameOf(a) \in 1..(n + 1) => pushed'[i + h - FrameOf(a)] = h
  BY <1>3, <1>6, PacketSame DEF RowSoFar
<1>8. \A h \in FrameOf(a)..LastOf(a) : sent.frame[h] = "packets"
  BY <1>6 DEF Readable
<1>9. sent.kind[a] = "data"
  BY DEF Readable
<1>10. CASE i = n + 1
  <2>1. f = FrameOf(a)
    BY <1>3, <1>7, <1>10
  <2>2. sent.frame[f] = "packets"
    BY <1>6, <1>8, <2>1
  <2>3. Ahead(a)'
    BY <1>1, <1>4, <2>1, <2>2, PushStarts
  <2> QED  BY <1>10, <2>3
<1>11. CASE i # n + 1
  <2>1. i \in 1..n /\ pushed # <<>>
    BY <1>3, <1>11
  <2>2. RowSoFar(a, i)
    <3>1. pushed[i] = FrameOf(a)
      BY <1>3, <1>7, <2>1
    <3>2. ASSUME NEW h \in FrameOf(a)..LastOf(a), i + h - FrameOf(a) \in 1..n
          PROVE  pushed[i + h - FrameOf(a)] = h
      BY <1>3, <1>7, <3>2
    <3> QED  BY <1>3, <1>6, <2>1, <3>1, <3>2 DEF RowSoFar
  <2>3. Archived(a) \/ (Underway(a) /\ i + g - FrameOf(a) = n)
    BY <1>1, <1>3, <2>1, <2>2 DEF RowsKept, Ahead, g, n
  <2>4. CASE Archived(a)
    BY <1>2, <2>4, PacketSame
  <2>5. CASE Underway(a) /\ i + g - FrameOf(a) = n
    <3>1. g \in FrameOf(a)..(LastOf(a) - 1)
      BY <2>5 DEF Underway, g
    <3>2. g + 1 \in FrameOf(a)..LastOf(a) /\ i + (g + 1) - FrameOf(a) = n + 1
      BY <1>5, <1>6, <1>7, <2>5, <3>1
    <3>3. f = g + 1
      BY <1>3, <1>7, <3>2
    <3>4. sent.frame[f] = "packets"
      BY <1>8, <3>2, <3>3
    <3>5. channel.last = Counter(g)
      BY <1>1, <2>1 DEF HistoryOK, g
    <3>6. Archived(a)' \/ Underway(a)'
      BY <1>1, <1>4, <1>9, <2>5, <3>3, <3>4, <3>5, PushGoesOn DEF g
    <3> QED  BY <3>2, <3>3, <3>6
  <2> QED  BY <2>3, <2>4, <2>5
<1> QED  BY <1>10, <1>11

LEMMA WalkRows ==
    ASSUME IInv, KInv, WalkPacket \/ WalkPart \/ WalkInvalid
    PROVE  RowsKept'
<1> DEFINE n == Len(pushed)
<1>1. /\ Walking /\ sent' = sent /\ pushed' = pushed /\ cursor'.frame = cursor.frame
      /\ archive \subseteq archive'
  BY DEF WalkPacket, WalkPart, WalkInvalid, IInv, Carried, CursorOK
<1>2. SentOK /\ Apart /\ RowsKept /\ CursorOK /\ channel.pending = <<>>
  BY <1>1 DEF IInv, Carried, KInv, WalkAtStart
<1> HIDE DEF n
<1> SUFFICES ASSUME NEW a \in Starts, Readable(a), NEW i \in DOMAIN pushed, RowSoFar(a, i)
             PROVE  \/ Archived(a)'
                    \/ Ahead(a)' /\ i = n
                    \/ Underway(a)' /\ i + cursor.frame - FrameOf(a) = n
  <2>1. Starts' = Starts /\ \A a \in Starts : Readable(a)' = Readable(a) /\ Spans(a)' = Spans(a)
    BY <1>1, PacketSame DEF Starts
  <2> QED  BY <1>1, <2>1 DEF RowsKept, RowSoFar, n
<1>3. Archived(a) \/ (Ahead(a) /\ i = n) \/ Underway(a)
  BY DEF KInv, RowsKept, n
<1>4. CASE Archived(a)
  BY <1>1, <1>4, PacketSame
<1>5. CASE Underway(a)
  BY <1>2, <1>5, UnderwayIs
<1>6. CASE Ahead(a) /\ i = n
  <2>1. sent.kind[a] = "data"
    BY DEF Readable
  <2>2. i + cursor.frame - FrameOf(a) = n
    <3>1. i \in Nat
      BY LenProperties DEF KInv, HistoryOK
    <3>2. cursor.frame = FrameOf(a) /\ cursor.frame \in Nat
      BY <1>2, <1>6 DEF Ahead, CursorOK, Numbers
    <3> QED  BY <1>6, <3>1, <3>2
  <2>3. CASE WalkPacket
    BY <1>2, <1>6, <2>1, <2>3, WalkPacketComes
  <2>4. CASE WalkPart
    BY <1>2, <1>6, <2>2, <2>4, WalkPartComes
  <2>5. CASE WalkInvalid
    BY <1>2, <1>6, <2>1, <2>5, WalkInvalidMisses DEF Readable
  <2> QED  BY <2>3, <2>4, <2>5
<1> QED  BY <1>3, <1>4, <1>5, <1>6

\* A push that leaves a report clean found nothing amiss.
LEMMA PushReports ==
    ASSUME ReportOK, NEW f \in Numbers, PushNothing(f) \/ PushZone(f)
    PROVE  /\ ReportOK'
           /\ Clean' => /\ Clean /\ ~Gap(Counter(f))
                        /\ PushNothing(f) => channel.pending = <<>> /\ Pointer(f) # Outside
<1> DEFINE fields == {"gaps", "aborts", "invalid", "rejected"}
<1>1. DOMAIN report = fields /\ \A c \in fields : report[c] \in Nat
  BY DEF ReportOK
<1>2. \A p \in BOOLEAN : B(p) \in Nat /\ (B(p) = 0 <=> ~p)
  BY DEF B
<1>3. CASE PushNothing(f)
  <2> DEFINE p == Gap(Counter(f))
             q == channel.pending # <<>>
             r == Pointer(f) = Outside
  <2>1. report' = [report EXCEPT !.gaps = @ + B(p), !.aborts = @ + B(q),
                                 !.rejected = @ + B(r)]
    BY <1>3 DEF PushNothing
  <2>2. p \in BOOLEAN /\ q \in BOOLEAN /\ r \in BOOLEAN
    BY DEF Gap
  <2>3. B(p) \in Nat /\ B(q) \in Nat /\ B(r) \in Nat
    BY <1>2, <2>2
  <2> HIDE DEF p, q, r
  <2>4. /\ DOMAIN report' = fields
        /\ report'["gaps"] = report["gaps"] + B(p)
        /\ report'["aborts"] = report["aborts"] + B(q)
        /\ report'["rejected"] = report["rejected"] + B(r)
        /\ report'["invalid"] = report["invalid"]
        /\ report' \in [gaps : Nat, aborts : Nat, invalid : Nat, rejected : Nat]
    <3> DEFINE x == B(p)
               y == B(q)
               z == B(r)
    <3>1. x \in Nat /\ y \in Nat /\ z \in Nat
      BY <2>3
    <3>2. report' = [report EXCEPT !.gaps = @ + x, !.aborts = @ + y, !.rejected = @ + z]
      BY <2>1
    <3> HIDE DEF x, y, z
    <3>3. report \in [gaps : Nat, aborts : Nat, invalid : Nat, rejected : Nat]
      BY DEF ReportOK
    <3>4. /\ DOMAIN report' = fields
          /\ report'["gaps"] = report["gaps"] + x
          /\ report'["aborts"] = report["aborts"] + y
          /\ report'["rejected"] = report["rejected"] + z
          /\ report'["invalid"] = report["invalid"]
      BY <3>2, <3>3
    <3>5. /\ report["gaps"] + x \in Nat /\ report["aborts"] + y \in Nat
          /\ report["rejected"] + z \in Nat
      BY <3>1, <3>3
    <3>6. report' \in [gaps : Nat, aborts : Nat, invalid : Nat, rejected : Nat]
      BY <3>2, <3>3, <3>5
    <3> QED  BY <3>4, <3>6 DEF x, y, z
  <2>5. ASSUME Clean' PROVE Clean /\ B(p) = 0 /\ B(q) = 0 /\ B(r) = 0
    <3>1. \A c \in fields : report'[c] = 0
      BY <2>4, <2>5 DEF Clean
    <3>2. /\ report["gaps"] + B(p) = 0 /\ report["aborts"] + B(q) = 0
          /\ report["rejected"] + B(r) = 0 /\ report["invalid"] = 0
      BY <2>4, <3>1
    <3>3. /\ report["gaps"] = 0 /\ report["aborts"] = 0 /\ report["rejected"] = 0
          /\ B(p) = 0 /\ B(q) = 0 /\ B(r) = 0
      BY <1>1, <2>3, <3>2
    <3> QED  BY <1>1, <3>2, <3>3 DEF Clean
  <2>6. Clean' => Clean /\ ~p /\ ~q /\ ~r
    BY <1>2, <2>2, <2>5
  <2> QED  BY <2>4, <2>6 DEF p, q, r, ReportOK
<1>4. CASE PushZone(f)
  <2> DEFINE p == Gap(Counter(f))
             q == \/ Gap(Counter(f)) /\ channel.pending # <<>>
                  \/ FillGoesOn(f) /\ Pointer(f) # NoHeader
             r == FillInvalid(f)
  <2>1. report' = [report EXCEPT !.gaps = @ + B(p), !.aborts = @ + B(q),
                                 !.invalid = @ + B(r)]
    BY <1>4 DEF PushZone
  <2>2. p \in BOOLEAN /\ q \in BOOLEAN /\ r \in BOOLEAN
    BY DEF Gap, FillInvalid
  <2>3. B(p) \in Nat /\ B(q) \in Nat /\ B(r) \in Nat
    BY <1>2, <2>2
  <2> HIDE DEF p, q, r
  <2>4. /\ DOMAIN report' = fields
        /\ report'["gaps"] = report["gaps"] + B(p)
        /\ report'["aborts"] = report["aborts"] + B(q)
        /\ report'["invalid"] = report["invalid"] + B(r)
        /\ report'["rejected"] = report["rejected"]
        /\ report' \in [gaps : Nat, aborts : Nat, invalid : Nat, rejected : Nat]
    <3> DEFINE x == B(p)
               y == B(q)
               z == B(r)
    <3>1. x \in Nat /\ y \in Nat /\ z \in Nat
      BY <2>3
    <3>2. report' = [report EXCEPT !.gaps = @ + x, !.aborts = @ + y, !.invalid = @ + z]
      BY <2>1
    <3> HIDE DEF x, y, z
    <3>3. report \in [gaps : Nat, aborts : Nat, invalid : Nat, rejected : Nat]
      BY DEF ReportOK
    <3>4. /\ DOMAIN report' = fields
          /\ report'["gaps"] = report["gaps"] + x
          /\ report'["aborts"] = report["aborts"] + y
          /\ report'["invalid"] = report["invalid"] + z
          /\ report'["rejected"] = report["rejected"]
      BY <3>2, <3>3
    <3>5. /\ report["gaps"] + x \in Nat /\ report["aborts"] + y \in Nat
          /\ report["invalid"] + z \in Nat
      BY <3>1, <3>3
    <3>6. report' \in [gaps : Nat, aborts : Nat, invalid : Nat, rejected : Nat]
      BY <3>2, <3>3, <3>5
    <3> QED  BY <3>4, <3>6 DEF x, y, z
  <2>5. ASSUME Clean' PROVE Clean /\ B(p) = 0
    <3>1. \A c \in fields : report'[c] = 0
      BY <2>4, <2>5 DEF Clean
    <3>2. /\ report["gaps"] + B(p) = 0 /\ report["aborts"] + B(q) = 0
          /\ report["invalid"] + B(r) = 0 /\ report["rejected"] = 0
      BY <2>4, <3>1
    <3>3. /\ report["gaps"] = 0 /\ report["aborts"] = 0 /\ report["invalid"] = 0
          /\ B(p) = 0
      BY <1>1, <2>3, <3>2
    <3> QED  BY <1>1, <3>2, <3>3 DEF Clean
  <2>6. Clean' => Clean /\ ~p
    BY <1>2, <2>2, <2>5
  <2>7. ~PushNothing(f)
    BY <1>4 DEF PushNothing, PushZone
  <2> QED  BY <2>4, <2>6, <2>7 DEF p, ReportOK
<1> QED  BY <1>3, <1>4

\* One more bad header or rejected frame: the report is not clean.
LEMMA NotClean ==
    ASSUME ReportOK, \/ report' = [report EXCEPT !.invalid = @ + 1]
                     \/ report' = [report EXCEPT !.rejected = @ + 1]
    PROVE  ReportOK' /\ ~Clean'
<1>1. report["invalid"] \in Nat /\ report["rejected"] \in Nat
  BY DEF ReportOK
<1>2. \A x \in Nat : x + 1 # 0 /\ x + 1 \in Nat
  OBVIOUS
<1>3. CASE report' = [report EXCEPT !.invalid = @ + 1]
  <2>1. "invalid" \in DOMAIN report' /\ report'["invalid"] = report["invalid"] + 1
    BY <1>3 DEF ReportOK
  <2>2. ~Clean'
    BY <1>1, <1>2, <2>1 DEF Clean
  <2> QED  BY <1>1, <1>2, <1>3, <2>2 DEF ReportOK
<1>4. CASE report' = [report EXCEPT !.rejected = @ + 1]
  <2>1. "rejected" \in DOMAIN report' /\ report'["rejected"] = report["rejected"] + 1
    BY <1>4 DEF ReportOK
  <2>2. ~Clean'
    BY <1>1, <1>2, <2>1 DEF Clean
  <2> QED  BY <1>1, <1>2, <1>4, <2>2 DEF ReportOK
<1> QED  BY <1>3, <1>4

LEMMA PushClean ==
    ASSUME IInv, KInv, NEW f \in Numbers, ~Walking, Push(f), sent' = sent
    PROVE  CleanKept'
<1> DEFINE g == cursor.frame
<1>1. SentOK /\ ChannelOK /\ CursorOK /\ Apart /\ HistoryOK /\ ReportOK
  BY DEF IInv, Carried, KInv
<1>2. /\ cursor'.frame = f /\ channel'.last = Counter(f) /\ seen' = seen \cup {f}
      /\ archive \subseteq archive' /\ sent.frame[f] # "foreign"
      /\ PushNothing(f) \/ PushZone(f)
  BY PushDoes
<1>3. g \in Nat /\ g \in Numbers /\ f \in Nat /\ seen \subseteq Numbers /\ Numbers \subseteq Nat
  BY <1>1 DEF CursorOK, Numbers, HistoryOK
<1> HIDE DEF g
<1> SUFFICES ASSUME Clean'
             PROVE  /\ \A h \in seen' : h <= f /\ sent.frame[h] \notin {"foreign", "skewed"}
                    /\ \A a \in Starts :
                          /\ sent.kind[a] = "data"
                          /\ FrameOf(a) \in seen'
                          /\ sent.frame[FrameOf(a)] # "idle"
                          => Archived(a)' \/ Ahead(a)' \/ Underway(a)'
  <2>1. Starts' = Starts /\ Counter(f)' = Counter(f)
    BY DEF Starts, Counter
  <2> QED  BY <1>2, <2>1 DEF CleanKept
<1>4. /\ Clean /\ ~Gap(Counter(f))
      /\ PushNothing(f) => channel.pending = <<>> /\ Pointer(f) # Outside
  BY <1>1, <1>2, PushReports
<1>5. /\ \A h \in seen : h <= g /\ sent.frame[h] \notin {"foreign", "skewed"}
      /\ seen # {} => channel.last = Counter(g)
      /\ \A a \in Starts :
            /\ sent.kind[a] = "data"
            /\ FrameOf(a) \in seen
            /\ sent.frame[FrameOf(a)] # "idle"
            => Archived(a) \/ Ahead(a) \/ Underway(a)
  BY <1>4 DEF KInv, CleanKept, g
<1>6. seen # {} => f = g + 1
  BY <1>1, <1>3, <1>4, <1>5, CounterFollows, CounterIsNumber DEF Gap
<1>7. sent.frame[f] # "skewed"
  <2> SUFFICES ASSUME sent.frame[f] = "skewed" PROVE FALSE
    OBVIOUS
  <2>1. Pointer(f) = Outside
    BY DEF Pointer
  <2> QED  BY <1>2, <1>4, <2>1 DEF PushZone
<1>8. ASSUME NEW h \in seen'
      PROVE  h <= f /\ sent.frame[h] \notin {"foreign", "skewed"}
  <2>1. CASE h = f
    BY <1>2, <1>3, <1>7, <2>1
  <2>2. CASE h # f
    <3>1. h \in seen
      BY <1>2, <2>2
    <3>2. h <= g /\ f = g + 1 /\ h \in Nat
      BY <1>3, <1>5, <1>6, <3>1
    <3> QED  BY <1>3, <1>5, <3>1, <3>2
  <2> QED  BY <2>1, <2>2
<1>9. ASSUME NEW a \in Starts, sent.kind[a] = "data", FrameOf(a) \in seen',
             sent.frame[FrameOf(a)] # "idle"
      PROVE  Archived(a)' \/ Ahead(a)' \/ Underway(a)'
  <2>1. PushZone(f) <=> sent.frame[f] \notin {"idle", "skewed"}
    BY <1>2, PlainIsWalked DEF PushNothing, PushZone
  <2>2. CASE FrameOf(a) = f
    <3>1. PushZone(f) /\ sent.frame[f] \notin {"idle", "skewed"}
      BY <1>7, <1>9, <2>1, <2>2
    <3> QED  BY <1>1, <2>2, <3>1, PushStarts
  <2>3. CASE FrameOf(a) # f
    <3>1. FrameOf(a) \in seen /\ seen # {}
      BY <1>2, <1>9, <2>3
    <3>2. Archived(a) \/ Underway(a)
      BY <1>5, <1>9, <3>1 DEF Ahead
    <3>3. CASE Archived(a)
      BY <1>2, <3>3, PacketSame
    <3>4. CASE Underway(a)
      <4>1. channel.pending # <<>>
        BY <1>1, <3>4, UnderwayIs
      <4>2. PushZone(f) /\ sent.frame[f] \notin {"idle", "skewed"}
        BY <1>2, <1>4, <2>1, <4>1
      <4>3. f = g + 1 /\ channel.last = Counter(g)
        BY <1>5, <1>6, <3>1
      <4> QED  BY <1>1, <1>9, <3>4, <4>2, <4>3, PushGoesOn DEF g
    <3> QED  BY <3>2, <3>3, <3>4
  <2> QED  BY <2>2, <2>3
<1> QED  BY <1>8, <1>9

LEMMA WalkClean ==
    ASSUME IInv, KInv, WalkPacket \/ WalkPart
    PROVE  CleanKept'
<1>1. /\ Walking /\ sent' = sent /\ seen' = seen /\ cursor'.frame = cursor.frame
      /\ archive \subseteq archive' /\ channel'.last = channel.last /\ report' = report
  BY DEF WalkPacket, WalkPart, IInv, Carried, CursorOK, ChannelOK
<1>2. SentOK /\ Apart /\ CleanKept /\ CursorOK /\ channel.pending = <<>>
  BY <1>1 DEF IInv, Carried, KInv, WalkAtStart
<1>3. ASSUME NEW a \in Starts, sent.kind[a] = "data", Archived(a) \/ Ahead(a) \/ Underway(a)
      PROVE  Archived(a)' \/ Ahead(a)' \/ Underway(a)'
  <2>1. CASE Archived(a)
    BY <1>1, <2>1, PacketSame
  <2>2. CASE Underway(a)
    BY <1>2, <2>2, UnderwayIs
  <2>3. CASE Ahead(a) /\ WalkPacket
    BY <1>2, <1>3, <2>3, WalkPacketComes
  <2>4. CASE Ahead(a) /\ WalkPart
    BY <1>2, <2>4, WalkPartComes
  <2> QED  BY <1>3, <2>1, <2>2, <2>3, <2>4
<1>4. Starts' = Starts /\ Clean' = Clean
  BY <1>1 DEF Starts, Clean
<1>5. \A h : Counter(h)' = Counter(h)
  BY <1>1 DEF Counter
<1> QED  BY <1>1, <1>2, <1>3, <1>4, <1>5 DEF CleanKept

\* Steps that leave the demultiplexer alone.
LEMMA QuietRows ==
    ASSUME KInv, UNCHANGED <<sent, pushed, channel, cursor, archive>>
    PROVE  /\ Apart' /\ RowsKept'
           /\ UNCHANGED <<seen, report>> => CleanKept'
<1>1. /\ Starts' = Starts /\ \A h : Counter(h)' = Counter(h)
      /\ \A a \in Starts : /\ Readable(a)' = Readable(a)
                           /\ Spans(a)' = Spans(a)
                           /\ Archived(a) => Archived(a)'
                           /\ Ahead(a) => Ahead(a)'
                           /\ Underway(a) => Underway(a)'
  <2>1. Starts' = Starts /\ \A h : Counter(h)' = Counter(h)
    BY DEF Starts, Counter
  <2>2. ASSUME NEW a \in Starts
        PROVE  /\ Ahead(a) => Ahead(a)'
               /\ Underway(a) => Underway(a)'
    BY PacketSame DEF Ahead, Underway, Walking
  <2> QED  BY <2>1, <2>2, PacketSame
<1>2. Apart'
  BY <1>1 DEF KInv, Apart
<1>3. RowsKept'
  BY <1>1 DEF KInv, RowsKept, RowSoFar
<1>4. ASSUME UNCHANGED <<seen, report>>
      PROVE  CleanKept'
  <2>1. Clean' = Clean
    BY <1>4 DEF Clean
  <2> QED  BY <1>1, <1>4, <2>1 DEF KInv, CleanKept
<1> QED  BY <1>2, <1>3, <1>4

\* Steps that read nothing.
LEMMA QuietHistory ==
    ASSUME HistoryOK, UNCHANGED <<sent, seen, pushed, reads>>,
           Walking \/ UNCHANGED cursor,
           cursor'.frame = cursor.frame, channel'.last = channel.last
    PROVE  HistoryOK'
<1>1. \A h : Counter(h)' = Counter(h)
  BY DEF Counter
<1>2. pushed = <<>> => ~Walking'
  BY DEF HistoryOK, Walking
<1> QED  BY <1>1, <1>2 DEF HistoryOK

LEMMA ReadKInv ==
    ASSUME IInv, KInv, NEW f \in Numbers, ReadFrame(f)
    PROVE  KInv'
<1>1. /\ sent' = sent /\ ~Walking
      /\ SentOK /\ FileOK /\ Apart /\ HistoryOK /\ Merging /\ ReportOK
  BY DEF ReadFrame, IInv, KInv
<1>2. HistoryOK' /\ Merging'
  BY <1>1, ReadHistory, ReadMerging
<1>3. Apart'
  <2>1. Starts' = Starts
    BY <1>1 DEF Starts
  <2> QED  BY <1>1, <2>1 DEF Apart
<1>4. CASE Repeated(f)
  <2>1. UNCHANGED <<sent, pushed, channel, cursor, archive, seen, report>>
    BY <1>1, <1>4 DEF Repeated
  <2> QED  BY <1>1, <1>2, <2>1, QuietRows DEF KInv, ReportOK
<1>5. CASE Foreign(f)
  <2>1. UNCHANGED <<sent, pushed, channel, cursor, archive>>
    BY <1>1, <1>5 DEF Foreign
  <2>2. ReportOK' /\ ~Clean'
    BY <1>1, <1>5, NotClean DEF Foreign
  <2> QED  BY <1>2, <2>1, <2>2, QuietRows DEF KInv, CleanKept
<1>6. CASE Push(f)
  <2>1. RowsKept' /\ CleanKept'
    BY <1>1, <1>6, PushRows, PushClean
  <2>2. ReportOK'
    BY <1>1, <1>6, PushDoes, PushReports
  <2> QED  BY <1>2, <1>3, <2>1, <2>2 DEF KInv
<1> QED  BY <1>4, <1>5, <1>6 DEF ReadFrame

LEMMA WalkKInv ==
    ASSUME IInv, KInv, WalkPacket \/ WalkPart \/ WalkInvalid
    PROVE  KInv'
<1>1. /\ Walking /\ UNCHANGED <<sent, queue, mode, reads, seen, pushed>>
      /\ cursor'.frame = cursor.frame /\ channel'.last = channel.last
  BY DEF WalkPacket, WalkPart, WalkInvalid, IInv, Carried, CursorOK, ChannelOK
<1>2. Apart /\ HistoryOK /\ Merging /\ ReportOK
  BY DEF KInv
<1>3. HistoryOK' /\ RowsKept'
  BY <1>1, <1>2, QuietHistory, WalkRows
<1>4. Apart' /\ Merging'
  <2>1. Starts' = Starts /\ \A h : Counter(h)' = Counter(h)
    BY <1>1 DEF Starts, Counter
  <2>2. Apart'
    BY <1>1, <1>2, <2>1 DEF Apart
  <2>3. Merging'
    BY <1>1, <1>2, <2>1 DEF Merging, SpanRefused, InOrder
  <2> QED  BY <2>2, <2>3
<1>5. CASE WalkPacket \/ WalkPart
  <2>1. ReportOK'
    BY <1>2, <1>5 DEF WalkPacket, WalkPart, ReportOK
  <2> QED  BY <1>3, <1>4, <1>5, <2>1, WalkClean DEF KInv
<1>6. CASE WalkInvalid
  <2>1. ReportOK' /\ ~Clean'
    BY <1>2, <1>6, NotClean DEF WalkInvalid
  <2> QED  BY <1>3, <1>4, <2>1 DEF KInv, CleanKept
<1> QED  BY <1>5, <1>6

LEMMA NextKInv == IInv /\ KInv /\ [Next]_vars => KInv'
<1> SUFFICES ASSUME IInv, KInv, [Next]_vars PROVE KInv'
  OBVIOUS
<1>1. CASE \E f \in Numbers : ReadFrame(f)
  BY <1>1, ReadKInv
<1>2. CASE WalkPacket \/ WalkPart \/ WalkInvalid
  BY <1>2, WalkKInv
<1>3. ASSUME NEW b \in SUBSET Numbers, NEW n \in SUBSET Numbers, Augment(b, n)
      PROVE  KInv'
  <2>1. UNCHANGED <<sent, reads, seen, pushed, channel, cursor, archive, report>>
    BY <1>3 DEF Augment
  <2>2. SentOK /\ HistoryOK /\ ReportOK
    BY DEF IInv, KInv
  <2>3. Merging'
    BY <1>3, <2>2, AugmentMerging
  <2>4. HistoryOK'
    BY <2>1, <2>2, QuietHistory
  <2> QED  BY <2>1, <2>2, <2>3, <2>4, QuietRows DEF KInv, ReportOK
<1>4. CASE UNCHANGED vars
  <2>1. UNCHANGED <<sent, queue, mode, reads, seen, pushed, channel, cursor, archive, report>>
    BY <1>4 DEF vars
  <2>2. HistoryOK /\ ReportOK /\ Merging
    BY DEF KInv
  <2>3. HistoryOK'
    BY <2>1, <2>2, QuietHistory
  <2>4. Merging'
    <3>1. \A h : Counter(h)' = Counter(h)
      BY <2>1 DEF Counter
    <3> QED  BY <2>1, <2>2, <3>1 DEF Merging, SpanRefused, InOrder
  <2> QED  BY <2>1, <2>2, <2>3, <2>4, QuietRows DEF KInv, ReportOK
<1> QED  BY <1>1, <1>2, <1>3, <1>4 DEF Next
-----------------------------------------------------------------------------
(* What the archive has *)

\* Neighbours that were merged are neighbours in the order of their counters.
LEMMA MergedInARow ==
    ASSUME IInv, KInv, NEW a \in Starts, Readable(a), Merged(a)
    PROVE  PushedInARow(a)
<1> DEFINE F == FrameOf(a)
           L == LastOf(a)
<1>1. /\ F \in Nat /\ L \in Nat /\ F <= L /\ Spans(a) = F..L
      /\ F..L \subseteq seen /\ seen \subseteq Numbers
      /\ \A f \in F..L : sent.frame[f] = "packets"
  BY SpansAre DEF Merged, Readable, KInv, HistoryOK, IInv
<1> HIDE DEF F, L
<1>2. \A f \in F..L : \E i \in DOMAIN pushed : pushed[i] = f
  BY <1>1 DEF KInv, HistoryOK
<1>3. DOMAIN pushed = 1..Len(pushed) /\ Len(pushed) \in Nat
      /\ \A i \in DOMAIN pushed : pushed[i] \in Numbers
  BY LenProperties DEF KInv, HistoryOK
<1>4. /\ \A f, g \in seen : ~(2 * (Counter(g) - Counter(f)) >= Period)
      /\ \A i, j \in DOMAIN pushed : i < j => Counter(pushed[i]) < Counter(pushed[j])
  BY DEF KInv, Merging, Merged, SpanRefused, InOrder
<1>5. \A f \in F..L : f - 1 \in F..L => Counter(f) = Counter(f - 1) + 1
  <2> TAKE f \in F..L
  <2> SUFFICES ASSUME f - 1 \in F..L PROVE Counter(f) = Counter(f - 1) + 1
    OBVIOUS
  <2>1. f \in Numbers /\ f - 1 \in Numbers
    BY <1>1
  <2>2. ~(2 * (Counter(f - 1) - Counter(f)) >= Period)
    BY <1>1, <1>4
  <2>3. sent.first \in 0..(Period - 1)
    BY DEF IInv, SentOK
  <2> QED  BY <2>1, <2>2, <2>3, PacketAssumption DEF Counter, Numbers
<1>6. PICK i \in DOMAIN pushed : pushed[i] = F
  BY <1>1, <1>2
<1> DEFINE Spot(f) == i + f - F
           T == {f \in F..L : ~(Spot(f) \in DOMAIN pushed /\ pushed[Spot(f)] = f)}
<1>7. T = {}
  <2> SUFFICES ASSUME T # {} PROVE FALSE
    OBVIOUS
  <2>1. T \in SUBSET Nat
    BY <1>1
  <2>2. PICK x \in T : \A y \in T : x <= y
    BY <2>1, LeastOne
  <2>3. x \in F..L /\ x \in Nat /\ i \in Nat
    BY <1>1, <1>3, <2>2
  <2>4. x # F
    BY <1>6, <2>2, <2>3
  <2>5. x - 1 \in F..L /\ x - 1 \notin T
    BY <1>1, <2>2, <2>3, <2>4
  <2> DEFINE k == Spot(x - 1)
  <2>6. k \in DOMAIN pushed /\ pushed[k] = x - 1
    BY <2>5
  <2>7. k \in Nat /\ Spot(x) = k + 1
    <3>1. k \in Nat
      BY <1>3, <2>6
    <3>2. i + x - F = i + (x - 1) - F + 1
      BY <1>1, <2>3
    <3> QED  BY <3>1, <3>2
  <2> HIDE DEF k
  <2>8. PICK j \in DOMAIN pushed : pushed[j] = x
    BY <1>2, <2>3
  <2>9. Counter(x) = Counter(x - 1) + 1 /\ Counter(x) \in Nat /\ Counter(x - 1) \in Nat
    BY <1>1, <1>5, <2>3, <2>5, CounterIsNumber DEF IInv
  <2>10. j \in Nat /\ ~(j < k) /\ j # k
    BY <1>3, <1>4, <2>6, <2>8, <2>9, <2>3
  <2>11. ~(j > k + 1)
    <3> SUFFICES ASSUME j > k + 1 PROVE FALSE
      OBVIOUS
    <3>1. k + 1 \in DOMAIN pushed /\ k < k + 1 /\ k + 1 < j
      BY <1>3, <2>7, <2>8, <2>10
    <3>2. Counter(pushed[k + 1]) \in Nat
      BY <1>3, <3>1, CounterIsNumber DEF IInv
    <3>3. Counter(x - 1) < Counter(pushed[k + 1]) /\ Counter(pushed[k + 1]) < Counter(x)
      BY <1>4, <2>6, <2>8, <3>1
    <3> QED  BY <2>9, <3>2, <3>3
  <2>12. j = Spot(x)
    BY <2>7, <2>10, <2>11
  <2> QED  BY <2>2, <2>8, <2>12
<1>8. \A f \in F..L : i + f - F \in DOMAIN pushed /\ pushed[i + f - F] = f
  BY <1>7
<1> QED  BY <1>1, <1>6, <1>8 DEF PushedInARow, F

LEMMA InARowIsArchived ==
    ASSUME IInv, KInv, ~Walking, NEW a \in Starts, Readable(a), PushedInARow(a)
    PROVE  Archived(a)
<1> DEFINE F == FrameOf(a)
           L == LastOf(a)
           g == cursor.frame
<1>1. F \in Nat /\ L \in Nat /\ F <= L /\ Spans(a) = F..L
  BY SpansAre DEF IInv
<1>2. PICK i \in DOMAIN pushed : \A f \in Spans(a) :
          i + f - F \in DOMAIN pushed /\ pushed[i + f - F] = f
  BY DEF PushedInARow
<1>3. DOMAIN pushed = 1..Len(pushed) /\ Len(pushed) \in Nat
  BY LenProperties DEF KInv, HistoryOK
<1>4. pushed[i] = F
  <2>1. F \in Spans(a) /\ i + F - F = i
    <3> HIDE DEF F
    <3> QED  BY <1>1, <1>3
  <2> QED  BY <1>2, <2>1
<1>5. RowSoFar(a, i)
  BY <1>2, <1>4 DEF RowSoFar
<1>6. Archived(a) \/ (Underway(a) /\ i + g - F = Len(pushed))
  BY <1>5 DEF KInv, RowsKept, Ahead
<1>7. CASE Underway(a) /\ i + g - F = Len(pushed)
  <2>1. g \in F..(L - 1)
    BY <1>7 DEF Underway
  <2> HIDE DEF F, L, g
  <2>2. g + 1 \in Spans(a) /\ i + (g + 1) - F = Len(pushed) + 1
    BY <1>1, <1>3, <1>7, <2>1
  <2> QED  BY <1>2, <1>3, <2>2 DEF F
<1> QED  BY <1>6, <1>7

LEMMA CleanIsComplete == IInv /\ KInv => CleanReportIsComplete
<1> SUFFICES ASSUME IInv, KInv, ~Walking, Clean, NEW a \in Starts,
                    sent.kind[a] = "data", Spans(a) \subseteq seen,
                    \A f \in Spans(a) : sent.frame[f] # "idle"
             PROVE  Archived(a)
  BY DEF CleanReportIsComplete, Clean
<1>1. /\ FrameOf(a) \in Nat /\ LastOf(a) \in Nat /\ FrameOf(a) <= LastOf(a)
      /\ Spans(a) = FrameOf(a)..LastOf(a)
  BY SpansAre DEF IInv
<1>2. FrameOf(a) \in Spans(a) /\ LastOf(a) \in Spans(a)
  BY <1>1
<1>3. Archived(a) \/ Underway(a)
  BY <1>2 DEF KInv, CleanKept, Ahead
<1>4. LastOf(a) <= cursor.frame
  BY <1>2 DEF KInv, CleanKept
<1>5. ~Underway(a)
  BY <1>1, <1>4 DEF Underway
<1> QED  BY <1>3, <1>5

\* Whatever the sizes of frames, headers and packets, whatever is lost, repeated or out
\* of order: a packet whose frames arrive one after the other is written, and so is one
\* whose frames two receivers got between them.
THEOREM PacketsKept == Spec => []PacketsAreKept
<1>1. IInv /\ KInv => PacketsAreKept
  BY MergedInARow, InARowIsArchived DEF PacketsAreKept
<1> QED  BY InitIInv, NextIInv, InitKInv, NextKInv, <1>1, PTL DEF Spec

\* A report that counts no gap, abort, invalid header or rejected frame is true: every
\* data packet whose frames were read is in the archive, whatever the sizes and whatever
\* came.
THEOREM CleanReports == Spec => []CleanReportIsComplete
BY InitIInv, NextIInv, InitKInv, NextKInv, CleanIsComplete, PTL DEF Spec
-----------------------------------------------------------------------------
(* Levels to bits: flipping bits and decoding from both first levels give the same,
   for every sequence of levels and all taps. *)

\* Without the scrambler, the first level reaches the first bit.
LEMMA OtherLevel ==
    ASSUME NEW levels \in Seq(H!Bits)
    PROVE  H!FlipInitial(H!Nrzi(levels, 0), FALSE) = H!Nrzi(levels, 1)
BY DEF H!FlipInitial, H!Reached, H!Nrzi, H!Bits

\* With it, also the two bits that the taps carry it to.
LEMMA OtherLevelDescrambled ==
    ASSUME H!HdlcAssumption, NEW levels \in Seq(H!Bits)
    PROVE  H!FlipInitial(H!Descramble(H!Nrzi(levels, 0)), TRUE) = H!Descramble(H!Nrzi(levels, 1))
<1> DEFINE zero == H!Nrzi(levels, 0)
           one == H!Nrzi(levels, 1)
<1>1. /\ DOMAIN zero = 1..Len(levels) /\ DOMAIN one = 1..Len(levels)
      /\ Len(levels) \in Nat
      BY DEF H!Nrzi
<1>2. \A i \in 1..Len(levels) : /\ zero[i] \in H!Bits
                                /\ one[i] = IF i = 1 THEN 1 - zero[i] ELSE zero[i]
      BY DEF H!Nrzi, H!Bits
<1> HIDE DEF zero, one
<1>3. ASSUME NEW i \in 1..Len(levels)
      PROVE  H!FlipInitial(H!Descramble(zero), TRUE)[i] = H!Descramble(one)[i]
  <2>1. i \in Int /\ TapA \in Int /\ TapB \in Int /\ 0 < TapA /\ TapA < TapB
        BY DEF H!HdlcAssumption
  <2>2. ASSUME NEW n \in {TapA, TapB}
        PROVE  /\ H!Delayed(zero, i, n) \in H!Bits
               /\ H!Delayed(one, i, n) = IF i = n + 1 THEN 1 - H!Delayed(zero, i, n)
                                                    ELSE H!Delayed(zero, i, n)
        BY <1>1, <1>2, <2>1 DEF H!Delayed, H!Bits
  <2> DEFINE a == zero[i]
             b == H!Delayed(zero, i, TapA)
             c == H!Delayed(zero, i, TapB)
  <2>3. a \in H!Bits /\ b \in H!Bits /\ c \in H!Bits
        BY <1>2, <2>2
  <2>4. /\ H!Delayed(one, i, TapA) = IF i = TapA + 1 THEN 1 - b ELSE b
        /\ H!Delayed(one, i, TapB) = IF i = TapB + 1 THEN 1 - c ELSE c
        /\ one[i] = IF i = 1 THEN 1 - a ELSE a
        BY <1>2, <2>2
  <2>5. /\ H!Descramble(zero)[i] = H!Xor(a, H!Xor(b, c))
        /\ H!Descramble(one)[i] = H!Xor(one[i], H!Xor(H!Delayed(one, i, TapA), H!Delayed(one, i, TapB)))
        BY <1>1 DEF H!Descramble
  <2>6. H!FlipInitial(H!Descramble(zero), TRUE)[i] =
            IF i \in {1, TapA + 1, TapB + 1} THEN 1 - H!Xor(a, H!Xor(b, c)) ELSE H!Xor(a, H!Xor(b, c))
        BY <1>1, <2>5 DEF H!FlipInitial, H!Descramble, H!Reached
  <2> HIDE DEF a, b, c
  <2>7. /\ H!Xor(1 - a, H!Xor(b, c)) = 1 - H!Xor(a, H!Xor(b, c))
        /\ H!Xor(a, H!Xor(1 - b, c)) = 1 - H!Xor(a, H!Xor(b, c))
        /\ H!Xor(a, H!Xor(b, 1 - c)) = 1 - H!Xor(a, H!Xor(b, c))
        BY <2>3 DEF H!Xor, H!Bits
  <2>8. CASE i = 1
    <3>1. i # TapA + 1 /\ i # TapB + 1
          BY <2>1, <2>8
    <3>2. H!Descramble(one)[i] = H!Xor(1 - a, H!Xor(b, c))
          BY <3>1, <2>4, <2>5, <2>8
    <3>3. H!FlipInitial(H!Descramble(zero), TRUE)[i] = 1 - H!Xor(a, H!Xor(b, c))
          BY <2>6, <2>8
    <3> QED
        BY <3>2, <3>3, <2>7
  <2>9. CASE i = TapA + 1
    <3>1. i # 1 /\ i # TapB + 1
          BY <2>1, <2>9
    <3>2. H!Descramble(one)[i] = H!Xor(a, H!Xor(1 - b, c))
          BY <3>1, <2>4, <2>5, <2>9
    <3>3. H!FlipInitial(H!Descramble(zero), TRUE)[i] = 1 - H!Xor(a, H!Xor(b, c))
          BY <2>6, <2>9
    <3> QED
        BY <3>2, <3>3, <2>7
  <2>10. CASE i = TapB + 1
    <3>1. i # 1 /\ i # TapA + 1
          BY <2>1, <2>10
    <3>2. H!Descramble(one)[i] = H!Xor(a, H!Xor(b, 1 - c))
          BY <3>1, <2>4, <2>5, <2>10
    <3>3. H!FlipInitial(H!Descramble(zero), TRUE)[i] = 1 - H!Xor(a, H!Xor(b, c))
          BY <2>6, <2>10
    <3> QED
        BY <3>2, <3>3, <2>7
  <2>11. CASE i \notin {1, TapA + 1, TapB + 1}
        BY <2>4, <2>5, <2>6, <2>11
  <2> QED
      BY <2>8, <2>9, <2>10, <2>11
<1>4. /\ H!FlipInitial(H!Descramble(zero), TRUE) = [i \in 1..Len(levels) |-> H!FlipInitial(H!Descramble(zero), TRUE)[i]]
      /\ H!Descramble(one) = [i \in 1..Len(levels) |-> H!Descramble(one)[i]]
      BY <1>1 DEF H!FlipInitial, H!Descramble
<1> QED
    BY <1>3, <1>4 DEF zero, one

\* Both ways of decoding from an unknown first level read the same bits.
LEMMA SameStreams ==
    ASSUME H!HdlcAssumption, NEW levels \in Seq(H!Bits), NEW g3ruh \in BOOLEAN
    PROVE  H!FlippedStreams(H!Nrzi(levels, 0), g3ruh) = H!DecodedStreams(levels, g3ruh)
BY OtherLevel, OtherLevelDescrambled DEF H!FlippedStreams, H!DecodedStreams, H!Bits

\* frames_from_bits, which flips the bits the first level reaches, finds the frames that
\* validated_spans finds by decoding from both levels, whatever the levels are.
THEOREM DecodersAlwaysAgree ==
    ASSUME H!HdlcAssumption, NEW levels \in Seq(H!Bits), NEW g3ruh \in BOOLEAN
    PROVE  H!DecodersAgree(levels, g3ruh)
BY SameStreams DEF H!DecodersAgree, H!DecodeAx25, H!ValidatedSpans
-----------------------------------------------------------------------------
(* Bits to levels and back *)

LEMMA NextLevelIs ==
    ASSUME NEW levels \in Seq(H!Bits), Len(levels) > 0, NEW bit,
           NEW next, next = H!NextLevel(levels, bit)
    PROVE  /\ next \in Seq(H!Bits) /\ Len(next) = Len(levels) + 1
           /\ \A i \in 1..Len(levels) : next[i] = levels[i]
           /\ next[Len(next)] = IF bit = 1 THEN levels[Len(levels)] ELSE 1 - levels[Len(levels)]
<1> DEFINE new == IF bit = 1 THEN H!Last(levels) ELSE 1 - H!Last(levels)
<1>1. H!Last(levels) = levels[Len(levels)] /\ H!Last(levels) \in H!Bits
  BY DEF H!Last
<1>2. new \in H!Bits
  BY <1>1 DEF H!Bits
<1>3. next = Append(levels, new)
  BY DEF H!NextLevel
<1> QED  BY <1>1, <1>2, <1>3, AppendProperties

LEMMA ToLevelsUnfolds ==
    ASSUME NEW bits, NEW initial
    PROVE  H!ToLevels(bits, initial) =
               Tail((CHOOSE f : f = [i \in 0..Len(bits) |->
                   IF i = 0 THEN <<initial>> ELSE H!NextLevel(f[i - 1], bits[i])])[Len(bits)])
BY DEF H!ToLevels, H!Fold

LEMMA ToLevelsIs ==
    ASSUME NEW bits \in Seq(H!Bits), NEW initial \in H!Bits
    PROVE  LET levels == H!ToLevels(bits, initial) IN
           /\ levels \in Seq(H!Bits) /\ Len(levels) = Len(bits)
           /\ \A i \in 1..Len(bits) :
                 levels[i] = LET last == IF i = 1 THEN initial ELSE levels[i - 1]
                             IN IF bits[i] = 1 THEN last ELSE 1 - last
<1> DEFINE n == Len(bits)
           T == {s \in Seq(H!Bits) : Len(s) > 0}
           base == <<initial>>
           step == [i \in 1..n |-> [s \in T |-> H!NextLevel(s, bits[i])]]
           Eq(h) == h = [i \in 0..n |-> IF i = 0 THEN base ELSE H!NextLevel(h[i - 1], bits[i])]
           g == CHOOSE h : Eq(h)
<1>1. n \in Nat
  OBVIOUS
<1>0. base \in T /\ Len(base) = 1 /\ base[1] = initial
  OBVIOUS
<1>2. step \in [1..n -> [T -> T]]
  <2>1. \A i \in 1..n, s \in T : H!NextLevel(s, bits[i]) \in T
    BY NextLevelIs
  <2> QED  BY <2>1
<1>3. H!ToLevels(bits, initial) = Tail(g[n])
  BY ToLevelsUnfolds, Zenon
<1> HIDE DEF n, base, step
<1>4. PICK f \in [0..n -> T] : Loop(f, n, base, step)
  <2> HIDE DEF T
  <2> QED  BY <1>0, <1>1, <1>2, Rounds, Zenon
<1>5. Eq(f)
  <2>1. \A i \in 1..n : i \in 0..n /\ i - 1 \in 0..n
    BY <1>1
  <2>2. \A i \in 1..n : f[i] = H!NextLevel(f[i - 1], bits[i])
    BY <1>4, <2>1 DEF Loop, step
  <2>3. \A i \in 0..n : i # 0 => i \in 1..n
    BY <1>1
  <2> QED  BY <1>4, <2>2, <2>3 DEF Loop
<1>6. Eq(g)
  <2> HIDE DEF Eq
  <2> QED  BY <1>5
<1> HIDE DEF g
<1>7. g[0] = base /\ \A i \in 1..n : g[i] = H!NextLevel(g[i - 1], bits[i])
  BY <1>1, <1>6
<1> DEFINE Good(s, k) ==
               /\ s \in Seq(H!Bits) /\ Len(s) = k + 1 /\ s[1] = initial
               /\ \A i \in 1..k : s[i + 1] = IF bits[i] = 1 THEN s[i] ELSE 1 - s[i]
           S == {k \in 0..n : Good(g[k], k)}
<1>8. 0 \in S
  <2>1. Good(base, 0)
    BY <1>0
  <2> HIDE DEF Good
  <2> QED  BY <1>1, <1>7, <2>1
<1>9. ASSUME NEW k \in 1..n, k - 1 \in S
      PROVE  k \in S
  <2> DEFINE s == g[k - 1]
             u == g[k]
  <2>1. /\ s \in Seq(H!Bits) /\ Len(s) = k /\ s[1] = initial
        /\ \A i \in 1..(k - 1) : s[i + 1] = IF bits[i] = 1 THEN s[i] ELSE 1 - s[i]
    BY <1>1, <1>9
  <2>2. u = H!NextLevel(s, bits[k])
    BY <1>7
  <2> HIDE DEF s, u
  <2>6. k \in Nat /\ k > 0
    BY <1>1
  <2>3. /\ u \in Seq(H!Bits) /\ Len(u) = k + 1
        /\ \A i \in 1..k : u[i] = s[i]
        /\ u[k + 1] = IF bits[k] = 1 THEN s[k] ELSE 1 - s[k]
    <3>1. Len(s) > 0
      BY <2>1, <2>6
    <3>2. u \in Seq(H!Bits)
      BY <2>1, <2>2, <3>1, NextLevelIs, Zenon
    <3>3. Len(u) = Len(s) + 1
      BY <2>1, <2>2, <3>1, NextLevelIs, Zenon
    <3>4. \A i \in 1..Len(s) : u[i] = s[i]
      BY <2>1, <2>2, <3>1, NextLevelIs
    <3>5. u[Len(u)] = IF bits[k] = 1 THEN s[Len(s)] ELSE 1 - s[Len(s)]
      BY <2>1, <2>2, <3>1, NextLevelIs
    <3> QED  BY <2>1, <3>2, <3>3, <3>4, <3>5
  <2>4. ASSUME NEW i \in 1..k
        PROVE  u[i + 1] = IF bits[i] = 1 THEN u[i] ELSE 1 - u[i]
    BY <1>1, <2>1, <2>3
  <2>5. u[1] = initial
    BY <1>1, <2>1, <2>3
  <2> QED  BY <1>1, <2>3, <2>4, <2>5 DEF u
<1>10. Good(g[n], n)
  <2>1. \A k \in 1..n : k - 1 \in S => k \in S
    BY <1>9
  <2> HIDE DEF S
  <2>2. \A i \in 0..n : i \in S
    BY <1>1, <1>8, <2>1, UpTo, Zenon
  <2> HIDE DEF Good
  <2> QED  BY <1>1, <2>2 DEF S
<1> DEFINE s == g[n]
           levels == H!ToLevels(bits, initial)
<1>11. /\ levels = Tail(s) /\ s \in Seq(H!Bits) /\ Len(s) = n + 1 /\ s[1] = initial
       /\ \A i \in 1..n : s[i + 1] = IF bits[i] = 1 THEN s[i] ELSE 1 - s[i]
  BY <1>3, <1>10
<1> HIDE DEF s, levels
<1>12. levels \in Seq(H!Bits) /\ Len(levels) = n /\ \A i \in 1..n : levels[i] = s[i + 1]
  BY <1>1, <1>11
<1>13. ASSUME NEW i \in 1..n
       PROVE  s[i] = IF i = 1 THEN initial ELSE levels[i - 1]
  BY <1>1, <1>11, <1>12
<1>14. \A i \in 1..n : levels[i] = LET last == IF i = 1 THEN initial ELSE levels[i - 1]
                                   IN IF bits[i] = 1 THEN last ELSE 1 - last
  BY <1>11, <1>12, <1>13
<1> QED  BY <1>12, <1>14 DEF n, levels

\* Decoding from the level that the sender began with undoes NRZI.
LEMMA NrziUndoes ==
    ASSUME NEW bits \in Seq(H!Bits), NEW initial \in H!Bits
    PROVE  H!Nrzi(H!ToLevels(bits, initial), initial) = bits
<1> DEFINE levels == H!ToLevels(bits, initial)
           n == Len(bits)
<1>1. /\ levels \in Seq(H!Bits) /\ Len(levels) = n
      /\ \A i \in 1..n : levels[i] = LET last == IF i = 1 THEN initial ELSE levels[i - 1]
                                     IN IF bits[i] = 1 THEN last ELSE 1 - last
  BY ToLevelsIs
<1> HIDE DEF levels
<1>2. n \in Nat /\ \A i \in 1..n : bits[i] \in {0, 1}
  BY DEF H!Bits
<1>3. ASSUME NEW i \in 1..n
      PROVE  H!Nrzi(levels, initial)[i] = bits[i]
  <2> DEFINE last == IF i = 1 THEN initial ELSE levels[i - 1]
  <2>1. last \in {0, 1}
    BY <1>1, <1>2 DEF H!Bits
  <2>2. levels[i] = IF bits[i] = 1 THEN last ELSE 1 - last
    BY <1>1
  <2>3. H!Nrzi(levels, initial)[i] = IF levels[i] = last THEN 1 ELSE 0
    BY <1>1 DEF H!Nrzi
  <2> HIDE DEF last
  <2> QED  BY <1>2, <2>1, <2>2, <2>3
<1>4. H!Nrzi(levels, initial) = [i \in 1..n |-> H!Nrzi(levels, initial)[i]]
  BY <1>1 DEF H!Nrzi
<1>5. bits = [i \in 1..n |-> bits[i]]
  OBVIOUS
<1> QED  BY <1>3, <1>4, <1>5 DEF levels

LEMMA Taps ==
    /\ TapA \in Nat /\ TapB \in Nat /\ 0 < TapA /\ TapA < TapB
    /\ Ones \in Nat /\ Ones > 0
    /\ \A a, b \in H!Bits : H!Xor(a, b) \in H!Bits /\ H!Xor(H!Xor(a, b), b) = a
    /\ \A a \in H!Bits : H!Xor(a, 0) = a
BY ReceiversAssumption DEF H!HdlcAssumption, H!Bits, H!Xor

LEMMA ScrambleBitIs ==
    ASSUME NEW line \in Seq(H!Bits), Len(line) >= TapB, NEW bit \in H!Bits,
           NEW next, next = H!ScrambleBit(line, bit)
    PROVE  /\ next \in Seq(H!Bits)
           /\ Len(next) = Len(line) + 1
           /\ \A i \in 1..Len(line) : next[i] = line[i]
           /\ next[Len(line) + 1] =
                  H!Xor(bit, H!Xor(line[Len(line) + 1 - TapA], line[Len(line) + 1 - TapB]))
<1> DEFINE a == line[Len(line) + 1 - TapA]
           b == line[Len(line) + 1 - TapB]
           new == H!Xor(bit, H!Xor(a, b))
<1>1. next = Append(line, new)
  BY DEF H!ScrambleBit
<1>2. a \in H!Bits /\ b \in H!Bits
  BY Taps
<1>3. new \in H!Bits
  BY <1>2, Taps
<1> HIDE DEF a, b, new
<1>4. /\ next \in Seq(H!Bits) /\ Len(next) = Len(line) + 1
      /\ \A i \in 1..Len(line) : next[i] = line[i]
      /\ next[Len(line) + 1] = new
  BY <1>1, <1>3, AppendProperties
<1> QED  BY <1>4 DEF a, b, new

LEMMA ScrambleUnfolds ==
    ASSUME NEW bits, NEW history
    PROVE  H!Scramble(bits, history) =
               SubSeq((CHOOSE f : f = [i \in 0..Len(bits) |->
                          IF i = 0 THEN history ELSE H!ScrambleBit(f[i - 1], bits[i])])[Len(bits)],
                      TapB + 1, TapB + Len(bits))
BY DEF H!Scramble, H!Fold

\* What the line carried: the history and what was sent after it.
LEMMA ScrambleIs ==
    ASSUME NEW bits \in Seq(H!Bits), NEW history \in [1..TapB -> H!Bits]
    PROVE  \E line \in Seq(H!Bits) :
               /\ Len(line) = TapB + Len(bits)
               /\ \A j \in 1..TapB : line[j] = history[j]
               /\ \A i \in 1..Len(bits) : line[TapB + i] =
                      H!Xor(bits[i], H!Xor(line[TapB + i - TapA], line[i]))
               /\ H!Scramble(bits, history) = SubSeq(line, TapB + 1, TapB + Len(bits))
<1> DEFINE n == Len(bits)
           T == {s \in Seq(H!Bits) : Len(s) >= TapB}
           step == [i \in 1..n |-> [s \in T |-> H!ScrambleBit(s, bits[i])]]
           Eq(h) == h = [i \in 0..n |-> IF i = 0 THEN history
                                                 ELSE H!ScrambleBit(h[i - 1], bits[i])]
           g == CHOOSE h : Eq(h)
<1>1. n \in Nat /\ \A i \in 1..n : bits[i] \in H!Bits
  OBVIOUS
<1>2. history \in Seq(H!Bits) /\ Len(history) = TapB
  BY Taps, BitsAreSeq
<1>3. step \in [1..n -> [T -> T]]
  <2>1. ASSUME NEW i \in 1..n, NEW s \in T
        PROVE  H!ScrambleBit(s, bits[i]) \in T
    <3>1. s \in Seq(H!Bits) /\ Len(s) \in Nat /\ Len(s) >= TapB /\ bits[i] \in H!Bits
      BY <1>1
    <3>2. /\ H!ScrambleBit(s, bits[i]) \in Seq(H!Bits)
          /\ Len(H!ScrambleBit(s, bits[i])) = Len(s) + 1
      BY <3>1, ScrambleBitIs
    <3> QED  BY <3>1, <3>2, Taps
  <2> QED  BY <2>1
<1>4. H!Scramble(bits, history) = SubSeq(g[n], TapB + 1, TapB + n)
  BY ScrambleUnfolds, Zenon
<1> HIDE DEF n
<1>5. PICK f \in [0..n -> T] : Loop(f, n, history, step)
  <2>1. history \in T
    BY <1>2, Taps
  <2> HIDE DEF T, step
  <2> QED  BY <1>1, <1>3, <2>1, Rounds, Zenon
<1>6. Eq(f)
  <2>1. \A i \in 1..n : i \in 0..n /\ i - 1 \in 0..n
    BY <1>1
  <2>2. \A i \in 1..n : f[i] = H!ScrambleBit(f[i - 1], bits[i])
    BY <1>5, <2>1 DEF Loop
  <2>3. \A i \in 0..n : i # 0 => i \in 1..n
    BY <1>1
  <2> QED  BY <1>5, <2>2, <2>3 DEF Loop
<1>7. Eq(g)
  <2> HIDE DEF Eq
  <2> QED  BY <1>6
<1> HIDE DEF g, step
<1>8. g[0] = history /\ \A i \in 1..n : g[i] = H!ScrambleBit(g[i - 1], bits[i])
  BY <1>1, <1>7
<1> DEFINE Good(s, k) ==
               /\ s \in Seq(H!Bits) /\ Len(s) = TapB + k
               /\ \A j \in 1..TapB : s[j] = history[j]
               /\ \A i \in 1..k : s[TapB + i] = H!Xor(bits[i], H!Xor(s[TapB + i - TapA], s[i]))
           S == {k \in 0..n : Good(g[k], k)}
<1>9. 0 \in S
  BY <1>1, <1>2, <1>8, Taps
<1>10. ASSUME NEW k \in 1..n, k - 1 \in S
       PROVE  k \in S
  <2> DEFINE s == g[k - 1]
             u == g[k]
  <2>1. /\ s \in Seq(H!Bits) /\ Len(s) = TapB + k - 1
        /\ \A j \in 1..TapB : s[j] = history[j]
        /\ \A i \in 1..(k - 1) : s[TapB + i] = H!Xor(bits[i], H!Xor(s[TapB + i - TapA], s[i]))
    BY <1>1, <1>10, Taps
  <2>2. u = H!ScrambleBit(s, bits[k]) /\ bits[k] \in H!Bits
    BY <1>1, <1>8
  <2> HIDE DEF s, u
  <2>3. k \in Nat /\ k > 0 /\ Len(s) >= TapB
    BY <1>1, <2>1, Taps
  <2>4. u \in Seq(H!Bits)
    BY <2>1, <2>2, <2>3, ScrambleBitIs
  <2>5. Len(u) = Len(s) + 1
    BY <2>1, <2>2, <2>3, ScrambleBitIs
  <2>6. \A i \in 1..Len(s) : u[i] = s[i]
    BY <2>1, <2>2, <2>3, ScrambleBitIs
  <2>7. u[Len(s) + 1] =
            H!Xor(bits[k], H!Xor(s[Len(s) + 1 - TapA], s[Len(s) + 1 - TapB]))
    BY <2>1, <2>2, <2>3, ScrambleBitIs
  <2>8. Len(u) = TapB + k
    BY <2>1, <2>3, <2>5, Taps
  <2>9. \A j \in 1..TapB : u[j] = history[j]
    BY <2>1, <2>3, <2>6, Taps
  <2>10. ASSUME NEW i \in 1..k
         PROVE  u[TapB + i] = H!Xor(bits[i], H!Xor(u[TapB + i - TapA], u[i]))
    <3>1. u[TapB + i - TapA] = s[TapB + i - TapA] /\ u[i] = s[i]
      BY <2>1, <2>3, <2>6, Taps
    <3>2. CASE i < k
      <4>1. u[TapB + i] = s[TapB + i] /\ i \in 1..(k - 1)
        BY <2>1, <2>3, <2>6, <3>2, Taps
      <4> QED  BY <2>1, <3>1, <4>1
    <3>3. CASE i = k
      <4>1. /\ Len(s) + 1 = TapB + i /\ Len(s) + 1 - TapB = i
            /\ Len(s) + 1 - TapA = TapB + i - TapA
        BY <2>1, <2>3, <3>3, Taps
      <4> QED  BY <2>7, <3>1, <3>3, <4>1
    <3> QED  BY <2>3, <3>2, <3>3
  <2>11. Good(u, k)
    BY <2>4, <2>8, <2>9, <2>10
  <2> HIDE DEF Good
  <2> QED  BY <1>1, <2>11 DEF u
<1>11. Good(g[n], n)
  <2>1. \A k \in 1..n : k - 1 \in S => k \in S
    BY <1>10
  <2> HIDE DEF S
  <2>2. \A i \in 0..n : i \in S
    BY <1>1, <1>9, <2>1, UpTo, Zenon
  <2> HIDE DEF Good
  <2> QED  BY <1>1, <2>2 DEF S
<1> QED  BY <1>4, <1>11 DEF n

\* The receiver undoes the scrambler from the first bit that its taps cover, and before
\* it if the scrambler's history was silence.
LEMMA DescrambleUndoes ==
    ASSUME NEW bits \in Seq(H!Bits), NEW history \in [1..TapB -> H!Bits]
    PROVE  LET received == H!Scramble(bits, history) IN
           /\ received \in Seq(H!Bits) /\ Len(received) = Len(bits)
           /\ \A i \in 1..Len(bits) :
                 i > TapB \/ (\A j \in 1..TapB : history[j] = 0)
                 => H!Descramble(received)[i] = bits[i]
<1> DEFINE n == Len(bits)
           received == H!Scramble(bits, history)
<1>1. n \in Nat /\ \A i \in 1..n : bits[i] \in H!Bits
  OBVIOUS
<1>2. PICK line \in Seq(H!Bits) :
               /\ Len(line) = TapB + n
               /\ \A j \in 1..TapB : line[j] = history[j]
               /\ \A i \in 1..n : line[TapB + i] =
                      H!Xor(bits[i], H!Xor(line[TapB + i - TapA], line[i]))
               /\ received = SubSeq(line, TapB + 1, TapB + n)
  BY ScrambleIs
<1> HIDE DEF received, n
<1>3. /\ received \in Seq(H!Bits) /\ Len(received) = n
      /\ \A i \in 1..n : received[i] = line[TapB + i]
  BY <1>1, <1>2, Taps
<1>4. ASSUME NEW i \in 1..n, i > TapB \/ (\A j \in 1..TapB : history[j] = 0)
      PROVE  H!Descramble(received)[i] = bits[i]
  <2>1. ASSUME NEW m \in {TapA, TapB}
        PROVE  H!Delayed(received, i, m) = line[TapB + i - m]
    <3>1. CASE i > m
      <4>1. i - m \in 1..n /\ TapB + (i - m) = TapB + i - m
        BY <1>1, <3>1, Taps
      <4> QED  BY <1>3, <3>1, <4>1 DEF H!Delayed
    <3>2. CASE ~(i > m)
      <4>1. TapB + i - m \in 1..TapB /\ ~(i > TapB)
        BY <1>1, <3>2, Taps
      <4> QED  BY <1>2, <1>4, <3>2, <4>1 DEF H!Delayed
    <3> QED  BY <3>1, <3>2
  <2> DEFINE a == line[TapB + i - TapA]
             b == line[i]
  <2>2. a \in H!Bits /\ b \in H!Bits
    BY <1>1, <1>2, Taps
  <2>3. TapB + i - TapB = i
    BY Taps
  <2>4. H!Delayed(received, i, TapA) = a /\ H!Delayed(received, i, TapB) = b
    BY <2>1, <2>3
  <2>5. received[i] = H!Xor(bits[i], H!Xor(a, b))
    BY <1>2, <1>3
  <2> HIDE DEF a, b
  <2>6. H!Descramble(received)[i] = H!Xor(received[i], H!Xor(a, b))
    BY <1>3, <2>4 DEF H!Descramble
  <2> QED  BY <1>1, <2>2, <2>5, <2>6, Taps
<1> QED  BY <1>3, <1>4 DEF n, received
-----------------------------------------------------------------------------
(* Stuffing and back *)

LEMMA StuffBitIs ==
    ASSUME NEW s \in Stuffing, s.ones < Ones, NEW bit \in H!Bits
    PROVE  /\ H!StuffBit(s, bit) \in Stuffing
           /\ bit = 1 /\ s.ones + 1 = Ones =>
                 H!StuffBit(s, bit) = [ones |-> 0, out |-> s.out \o <<1, 0>>]
           /\ bit = 1 /\ s.ones + 1 # Ones =>
                 H!StuffBit(s, bit) = [ones |-> s.ones + 1, out |-> Append(s.out, 1)]
           /\ bit = 0 => H!StuffBit(s, bit) = [ones |-> 0, out |-> Append(s.out, 0)]
<1>1. s.ones \in Nat /\ s.out \in Seq(H!Bits) /\ bit \in {0, 1} /\ 0 # Ones
  BY Taps DEF Stuffing, H!Bits
<1> DEFINE ones == IF bit = 1 THEN s.ones + 1 ELSE 0
<1>6. H!StuffBit(s, bit) = IF ones = Ones THEN [ones |-> 0, out |-> s.out \o <<1, 0>>]
                                          ELSE [ones |-> ones, out |-> Append(s.out, bit)]
  BY DEF H!StuffBit
<1>7. /\ bit = 1 => ones = s.ones + 1
      /\ bit = 0 => ones = 0 /\ ones # Ones
  BY <1>1
<1> HIDE DEF ones
<1>2. /\ bit = 1 /\ s.ones + 1 = Ones =>
            H!StuffBit(s, bit) = [ones |-> 0, out |-> s.out \o <<1, 0>>]
      /\ bit = 1 /\ s.ones + 1 # Ones =>
            H!StuffBit(s, bit) = [ones |-> s.ones + 1, out |-> Append(s.out, 1)]
      /\ bit = 0 => H!StuffBit(s, bit) = [ones |-> 0, out |-> Append(s.out, 0)]
  BY <1>6, <1>7
<1>3. /\ <<1, 0>> \in Seq(H!Bits) /\ 1 \in H!Bits /\ 0 \in H!Bits
  BY DEF H!Bits
<1>4. /\ s.out \o <<1, 0>> \in Seq(H!Bits)
      /\ Append(s.out, 1) \in Seq(H!Bits) /\ Append(s.out, 0) \in Seq(H!Bits)
  BY <1>1, <1>3, ConcatProperties, AppendProperties
<1>5. H!StuffBit(s, bit) \in Stuffing
  <2>1. \A m \in Nat, x \in Seq(H!Bits) : [ones |-> m, out |-> x] \in Stuffing
    BY DEF Stuffing
  <2>2. s.ones + 1 \in Nat
    BY <1>1
  <2> QED  BY <1>1, <1>2, <1>4, <2>1, <2>2
<1> QED  BY <1>2, <1>5

LEMMA UnstuffBitIs ==
    ASSUME NEW s \in Unstuffing, NEW bit \in H!Bits
    PROVE  /\ H!UnstuffBit(s, bit) \in Unstuffing
           /\ bit = 1 /\ s.ok /\ s.ones < Ones =>
                 H!UnstuffBit(s, bit)
                     = [ones |-> s.ones + 1, out |-> Append(s.out, 1), ok |-> TRUE]
           /\ bit = 0 /\ s.ones = Ones =>
                 H!UnstuffBit(s, bit) = [ones |-> 0, out |-> s.out, ok |-> s.ok]
           /\ bit = 0 /\ s.ones # Ones =>
                 H!UnstuffBit(s, bit) = [ones |-> 0, out |-> Append(s.out, 0), ok |-> s.ok]
<1>1. /\ s.ones \in Nat /\ s.out \in Seq(H!Bits) /\ s.ok \in BOOLEAN
      /\ s = [ones |-> s.ones, out |-> s.out, ok |-> s.ok]
      /\ bit = 0 \/ bit = 1
  BY DEF Unstuffing, H!Bits
<1>2. ASSUME bit = 1
      PROVE  H!UnstuffBit(s, bit) =
          [ones |-> s.ones + 1, out |-> Append(s.out, 1), ok |-> s.ok /\ s.ones < Ones]
  BY <1>2 DEF H!UnstuffBit
<1>3. bit = 0 /\ s.ones = Ones =>
          H!UnstuffBit(s, bit) = [ones |-> 0, out |-> s.out, ok |-> s.ok]
  BY <1>1 DEF H!UnstuffBit
<1>4. bit = 0 /\ s.ones # Ones =>
          H!UnstuffBit(s, bit) = [ones |-> 0, out |-> Append(s.out, 0), ok |-> s.ok]
  BY <1>1 DEF H!UnstuffBit
<1>5. Append(s.out, 1) \in Seq(H!Bits) /\ Append(s.out, 0) \in Seq(H!Bits)
  BY <1>1, AppendProperties DEF H!Bits
<1>6. H!UnstuffBit(s, bit) \in Unstuffing
  <2>1. CASE bit = 1
    <3>1. s.ones + 1 \in Nat /\ (s.ok /\ s.ones < Ones) \in BOOLEAN
      BY <1>1
    <3>2. \A m \in Nat, x \in Seq(H!Bits), b \in BOOLEAN :
              [ones |-> m, out |-> x, ok |-> b] \in Unstuffing
      BY DEF Unstuffing
    <3> QED  BY <1>2, <1>5, <2>1, <3>1, <3>2, Zenon
  <2>2. CASE bit = 0 /\ s.ones = Ones
    BY <1>1, <1>3, <2>2 DEF Unstuffing
  <2>3. CASE bit = 0 /\ s.ones # Ones
    BY <1>1, <1>4, <1>5, <2>3 DEF Unstuffing
  <2> QED  BY <1>1, <2>1, <2>2, <2>3
<1>7. bit = 1 /\ s.ok /\ s.ones < Ones =>
          H!UnstuffBit(s, bit) = [ones |-> s.ones + 1, out |-> Append(s.out, 1), ok |-> TRUE]
  BY <1>2
<1> QED  BY <1>3, <1>4, <1>6, <1>7

LEMMA StuffUnfolds ==
    ASSUME NEW bits
    PROVE  H!Stuff(bits) =
               ((CHOOSE f : f = [i \in 0..Len(bits) |->
                    IF i = 0 THEN [ones |-> 0, out |-> <<>>]
                    ELSE H!StuffBit(f[i - 1], bits[i])])[Len(bits)]).out
BY DEF H!Stuff, H!Fold

LEMMA StuffSteps ==
    ASSUME NEW bits \in Seq(H!Bits)
    PROVE  \E f \in [0..Len(bits) -> {s \in Stuffing : s.ones < Ones}] :
               /\ f[0] = [ones |-> 0, out |-> <<>>]
               /\ \A i \in 1..Len(bits) : f[i] = H!StuffBit(f[i - 1], bits[i])
               /\ H!Stuff(bits) = f[Len(bits)].out
<1> DEFINE n == Len(bits)
           T == {s \in Stuffing : s.ones < Ones}
           base == [ones |-> 0, out |-> <<>>]
           step == [i \in 1..n |-> [s \in T |-> H!StuffBit(s, bits[i])]]
           Eq(h) == h = [i \in 0..n |-> IF i = 0 THEN base ELSE H!StuffBit(h[i - 1], bits[i])]
           g == CHOOSE h : Eq(h)
<1>1. n \in Nat /\ \A i \in 1..n : bits[i] \in H!Bits
  OBVIOUS
<1>2. base \in T
  BY Taps DEF Stuffing
<1>3. ASSUME NEW s \in T, NEW bit \in H!Bits
      PROVE  H!StuffBit(s, bit) \in T
  <2>1. s.ones \in Nat /\ s.ones < Ones /\ s \in Stuffing /\ bit \in {0, 1}
    BY DEF Stuffing, H!Bits
  <2>2. H!StuffBit(s, bit) \in Stuffing
    BY <2>1, StuffBitIs
  <2>3. H!StuffBit(s, bit).ones \in {0, s.ones + 1} /\ H!StuffBit(s, bit).ones # Ones
    BY <2>1, StuffBitIs, Taps
  <2> QED  BY <2>1, <2>2, <2>3, Taps
<1>4. step \in [1..n -> [T -> T]]
  BY <1>1, <1>3
<1>5. H!Stuff(bits) = g[n].out
  BY StuffUnfolds, Zenon
<1> HIDE DEF n, base, T
<1>6. PICK f \in [0..n -> T] : Loop(f, n, base, step)
  <2> HIDE DEF step
  <2> QED  BY <1>1, <1>2, <1>4, Rounds, Zenon
<1>7. Eq(f)
  <2>1. \A i \in 1..n : i \in 0..n /\ i - 1 \in 0..n
    BY <1>1
  <2>2. \A i \in 1..n : f[i] = H!StuffBit(f[i - 1], bits[i])
    BY <1>6, <2>1 DEF Loop
  <2>3. \A i \in 0..n : i # 0 => i \in 1..n
    BY <1>1
  <2> QED  BY <1>6, <2>2, <2>3 DEF Loop
<1>8. Eq(g)
  <2> HIDE DEF Eq
  <2> QED  BY <1>7
<1> HIDE DEF g, step
<1>9. g[0] = base /\ \A i \in 1..n : g[i] = H!StuffBit(g[i - 1], bits[i])
  BY <1>1, <1>8
<1>10. \A i \in 0..n : g[i] \in T
  <2> DEFINE S == {i \in 0..n : g[i] \in T}
  <2>1. 0 \in S
    BY <1>1, <1>2, <1>9
  <2>2. ASSUME NEW i \in 1..n, i - 1 \in S
        PROVE  i \in S
    <3>1. g[i - 1] \in T /\ bits[i] \in H!Bits /\ i \in 0..n
      BY <1>1, <2>2
    <3> QED  BY <1>3, <1>9, <3>1
  <2>3. \A i \in 1..n : i - 1 \in S => i \in S
    BY <2>2
  <2> HIDE DEF S
  <2>4. \A i \in 0..n : i \in S
    BY <1>1, <2>1, <2>3, UpTo, Zenon
  <2> QED  BY <2>4 DEF S
<1>11. g \in [0..n -> T]
  BY <1>8, <1>10
<1> QED  BY <1>5, <1>9, <1>11 DEF n, base, T

LEMMA UnstuffUnfolds ==
    ASSUME NEW bits
    PROVE  H!Unstuff(bits) =
               (CHOOSE f : f = [i \in 0..Len(bits) |->
                    IF i = 0 THEN [ones |-> 0, out |-> <<>>, ok |-> TRUE]
                    ELSE H!UnstuffBit(f[i - 1], bits[i])])[Len(bits)]
BY DEF H!Unstuff, H!Fold

LEMMA UnstuffSteps ==
    ASSUME NEW bits \in Seq(H!Bits)
    PROVE  \E f \in [0..Len(bits) -> Unstuffing] :
               /\ f[0] = [ones |-> 0, out |-> <<>>, ok |-> TRUE]
               /\ \A i \in 1..Len(bits) : f[i] = H!UnstuffBit(f[i - 1], bits[i])
               /\ H!Unstuff(bits) = f[Len(bits)]
<1> DEFINE n == Len(bits)
           base == [ones |-> 0, out |-> <<>>, ok |-> TRUE]
           step == [i \in 1..n |-> [s \in Unstuffing |-> H!UnstuffBit(s, bits[i])]]
           Eq(h) == h = [i \in 0..n |-> IF i = 0 THEN base
                                                 ELSE H!UnstuffBit(h[i - 1], bits[i])]
           g == CHOOSE h : Eq(h)
<1>1. n \in Nat /\ \A i \in 1..n : bits[i] \in H!Bits
  OBVIOUS
<1>2. base \in Unstuffing
  BY DEF Unstuffing
<1>3. step \in [1..n -> [Unstuffing -> Unstuffing]]
  BY <1>1, UnstuffBitIs
<1>4. H!Unstuff(bits) = g[n]
  BY UnstuffUnfolds, Zenon
<1> HIDE DEF n, base
<1>5. PICK f \in [0..n -> Unstuffing] : Loop(f, n, base, step)
  <2> HIDE DEF step
  <2> QED  BY <1>1, <1>2, <1>3, Rounds, Zenon
<1>6. Eq(f)
  <2>1. \A i \in 1..n : i \in 0..n /\ i - 1 \in 0..n
    BY <1>1
  <2>2. \A i \in 1..n : f[i] = H!UnstuffBit(f[i - 1], bits[i])
    BY <1>5, <2>1 DEF Loop
  <2>3. \A i \in 0..n : i # 0 => i \in 1..n
    BY <1>1
  <2> QED  BY <1>5, <2>2, <2>3 DEF Loop
<1>7. Eq(g)
  <2> HIDE DEF Eq
  <2> QED  BY <1>6
<1> HIDE DEF g, step
<1>8. g[0] = base /\ \A i \in 1..n : g[i] = H!UnstuffBit(g[i - 1], bits[i])
  BY <1>1, <1>7
<1>9. \A i \in 0..n : g[i] \in Unstuffing
  <2> DEFINE S == {i \in 0..n : g[i] \in Unstuffing}
  <2>1. 0 \in S
    BY <1>1, <1>2, <1>8
  <2>2. ASSUME NEW i \in 1..n, i - 1 \in S
        PROVE  i \in S
    <3>1. g[i - 1] \in Unstuffing /\ bits[i] \in H!Bits /\ i \in 0..n
      BY <1>1, <2>2
    <3> QED  BY <1>8, <3>1, UnstuffBitIs
  <2>3. \A i \in 1..n : i - 1 \in S => i \in S
    BY <2>2
  <2> HIDE DEF S
  <2>4. \A i \in 0..n : i \in S
    BY <1>1, <2>1, <2>3, UpTo, Zenon
  <2> QED  BY <2>4 DEF S
<1>10. g \in [0..n -> Unstuffing]
  BY <1>7, <1>9
<1> QED  BY <1>4, <1>8, <1>10 DEF n, base

\* What one more bit does to what was stuffed before it.
LEMMA StuffedGrows ==
    ASSUME NEW s \in Stuffing, s.ones < Ones, NEW bit \in H!Bits
    PROVE  \/ /\ bit = 1 /\ s.ones + 1 = Ones
              /\ H!StuffBit(s, bit).ones = 0
              /\ H!StuffBit(s, bit).out \in Seq(H!Bits)
              /\ Len(H!StuffBit(s, bit).out) = Len(s.out) + 2
              /\ Begins(H!StuffBit(s, bit).out, s.out)
              /\ H!StuffBit(s, bit).out[Len(s.out) + 1] = 1
              /\ H!StuffBit(s, bit).out[Len(s.out) + 2] = 0
           \/ /\ (bit = 1 /\ s.ones + 1 # Ones) \/ bit = 0
              /\ H!StuffBit(s, bit).ones = IF bit = 1 THEN s.ones + 1 ELSE 0
              /\ H!StuffBit(s, bit).out \in Seq(H!Bits)
              /\ Len(H!StuffBit(s, bit).out) = Len(s.out) + 1
              /\ Begins(H!StuffBit(s, bit).out, s.out)
              /\ H!StuffBit(s, bit).out[Len(s.out) + 1] = bit
<1> DEFINE x == s.out
<1>1. x \in Seq(H!Bits) /\ s.ones \in Nat /\ (bit = 0 \/ bit = 1)
  BY DEF Stuffing, H!Bits
<1> HIDE DEF x
<1>2. ASSUME NEW b \in H!Bits
      PROVE  /\ Append(x, b) \in Seq(H!Bits)
             /\ Len(Append(x, b)) = Len(x) + 1
             /\ Begins(Append(x, b), x)
             /\ Append(x, b)[Len(x) + 1] = b
  BY <1>1, AppendProperties DEF Begins
<1>3. /\ x \o <<1, 0>> \in Seq(H!Bits)
      /\ Len(x \o <<1, 0>>) = Len(x) + 2
      /\ Begins(x \o <<1, 0>>, x)
      /\ (x \o <<1, 0>>)[Len(x) + 1] = 1
      /\ (x \o <<1, 0>>)[Len(x) + 2] = 0
  <2>1. <<1, 0>> \in Seq(H!Bits) /\ Len(<<1, 0>>) = 2
    BY DEF H!Bits
  <2> QED  BY <1>1, <2>1, ConcatProperties DEF Begins
<1>4. CASE bit = 1 /\ s.ones + 1 = Ones
  <2>1. H!StuffBit(s, bit) = [ones |-> 0, out |-> x \o <<1, 0>>]
    BY <1>4, StuffBitIs DEF x
  <2>2. H!StuffBit(s, bit).ones = 0 /\ H!StuffBit(s, bit).out = x \o <<1, 0>>
    BY <2>1
  <2> QED  BY <1>3, <1>4, <2>2 DEF x
<1>5. CASE bit = 1 /\ s.ones + 1 # Ones
  <2>1. H!StuffBit(s, bit) = [ones |-> s.ones + 1, out |-> Append(x, 1)]
    BY <1>5, StuffBitIs DEF x
  <2>2. H!StuffBit(s, bit).ones = s.ones + 1 /\ H!StuffBit(s, bit).out = Append(x, bit)
    BY <1>5, <2>1
  <2> QED  BY <1>2, <1>5, <2>2 DEF x
<1>6. CASE bit = 0
  <2>1. H!StuffBit(s, bit) = [ones |-> 0, out |-> Append(x, 0)]
    BY <1>6, StuffBitIs DEF x
  <2>2. H!StuffBit(s, bit).ones = 0 /\ H!StuffBit(s, bit).out = Append(x, bit)
    BY <1>6, <2>1
  <2>3. bit # 1
    BY <1>6
  <2> QED  BY <1>2, <1>6, <2>2, <2>3 DEF x
<1> QED  BY <1>1, <1>4, <1>5, <1>6

LEMMA StuffedHasNoRun ==
    ASSUME NEW s \in Stuffing, s.ones < Ones, NEW bit \in H!Bits,
           Counted(s), NoRun(s.out)
    PROVE  Counted(H!StuffBit(s, bit)) /\ NoRun(H!StuffBit(s, bit).out)
<1> DEFINE x == s.out
           y == H!StuffBit(s, bit).out
           m == Len(x)
           c == s.ones
           d == H!StuffBit(s, bit).ones
<1>1. /\ x \in Seq(H!Bits) /\ m \in Nat /\ c \in Nat /\ c < Ones
      /\ c <= m /\ (c < m => x[m - c] = 0)
      /\ \A j \in 1..(m - Ones) : \E i \in j..(j + Ones) : x[i] = 0
  BY DEF Stuffing, Counted, NoRun
<1>2. /\ Begins(y, x)
      /\ \/ d = 0 /\ c + 1 = Ones /\ Len(y) = m + 2 /\ y[m + 1] = 1 /\ y[m + 2] = 0
         \/ d = c + 1 /\ d # Ones /\ Len(y) = m + 1 /\ y[m + 1] = 1
         \/ d = 0 /\ Len(y) = m + 1 /\ y[m + 1] = 0
  BY StuffedGrows
<1> HIDE DEF x, y, c, d
<1>3. /\ Ones \in Nat /\ Ones > 0 /\ m \in Nat
      /\ \A i \in 1..m : y[i] = x[i]
  BY <1>1, <1>2, Taps DEF Begins
<1> HIDE DEF m
<1>4. d <= Len(y) /\ (d < Len(y) => y[Len(y) - d] = 0)
  <2>1. CASE d = 0 /\ c + 1 = Ones /\ Len(y) = m + 2 /\ y[m + 1] = 1 /\ y[m + 2] = 0
    BY <1>1, <1>3, <2>1
  <2>2. CASE d = c + 1 /\ d # Ones /\ Len(y) = m + 1 /\ y[m + 1] = 1
    <3>1. d <= Len(y) /\ Len(y) - d = m - c
      BY <1>1, <1>3, <2>2
    <3>2. d < Len(y) => m - c \in 1..m /\ c < m
      BY <1>1, <1>3, <2>2
    <3> QED  BY <1>1, <1>3, <3>1, <3>2
  <2>3. CASE d = 0 /\ Len(y) = m + 1 /\ y[m + 1] = 0
    BY <1>1, <1>3, <2>3
  <2> QED  BY <1>2, <2>1, <2>2, <2>3
<1>5. ASSUME NEW j \in 1..(Len(y) - Ones)
      PROVE  \E i \in j..(j + Ones) : y[i] = 0
  <2>1. Len(y) \in Nat /\ j \in Nat /\ j >= 1 /\ j + Ones <= Len(y)
    BY <1>2, <1>3
  <2>2. CASE j + Ones <= m
    <3>3. j \in 1..(m - Ones)
      BY <1>3, <2>1, <2>2
    <3>1. PICK i \in j..(j + Ones) : x[i] = 0
      BY <1>1, <3>3
    <3>2. i \in 1..m
      BY <1>3, <2>1, <2>2
    <3> QED  BY <1>3, <3>1, <3>2
  <2>3. CASE j + Ones = m + 1
    <3>1. m - c \in j..(j + Ones) /\ m - c \in 1..m /\ c < m
      BY <1>1, <1>3, <2>1, <2>3
    <3>2. y[m - c] = 0
      BY <1>1, <1>3, <3>1
    <3> QED  BY <3>1, <3>2
  <2>4. CASE j + Ones = m + 2
    <3>1. m + 2 \in j..(j + Ones) /\ Len(y) = m + 2
      BY <1>2, <1>3, <2>1, <2>4
    <3>2. y[m + 2] = 0
      BY <1>2, <1>3, <3>1
    <3> QED  BY <3>1, <3>2
  <2> QED  BY <1>2, <1>3, <2>1, <2>2, <2>3, <2>4
<1> QED  BY <1>4, <1>5 DEF Counted, NoRun, y, d

\* The zeros that were stuffed: one per Ones ones.
LEMMA StuffedZeros ==
    ASSUME NEW s \in Stuffing, s.ones < Ones, NEW bit \in H!Bits, NEW k \in Nat,
           \E z \in Nat : Len(s.out) = k + z /\ z * Ones + s.ones <= k
    PROVE  \E z \in Nat : /\ Len(H!StuffBit(s, bit).out) = k + 1 + z
                          /\ z * Ones + H!StuffBit(s, bit).ones <= k + 1
<1>1. PICK z \in Nat : Len(s.out) = k + z /\ z * Ones + s.ones <= k
  OBVIOUS
<1> DEFINE p == z * Ones
           m == Len(s.out)
           c == s.ones
           d == H!StuffBit(s, bit).ones
           l == Len(H!StuffBit(s, bit).out)
<1>2. p \in Nat /\ c \in Nat /\ m = k + z /\ p + c <= k
  BY <1>1, Taps DEF Stuffing
<1>3. (z + 1) * Ones = p + Ones
  BY Taps
<1>4. \/ d = 0 /\ c + 1 = Ones /\ l = m + 2
      \/ d = c + 1 /\ l = m + 1
      \/ d = 0 /\ l = m + 1
  BY StuffedGrows
<1> HIDE DEF m, c, d, l, p
<1>5. CASE d = 0 /\ c + 1 = Ones /\ l = m + 2
  <2>1. z + 1 \in Nat /\ l = k + 1 + (z + 1) /\ p + Ones + d <= k + 1
    BY <1>2, <1>5
  <2> QED  BY <1>3, <2>1 DEF d, l
<1>6. CASE d \in {0, c + 1} /\ l = m + 1
  <2>1. l = k + 1 + z /\ p + d <= k + 1
    BY <1>2, <1>6
  <2> QED  BY <2>1 DEF d, l, p
<1> QED  BY <1>4, <1>5, <1>6

LEMMA BeginsJoins ==
    ASSUME NEW a \in Seq(H!Bits), NEW b \in Seq(H!Bits), NEW c \in Seq(H!Bits),
           Begins(a, b), Begins(b, c)
    PROVE  Begins(a, c)
BY DEF Begins

\* One more bit, stuffed and unstuffed again.
LEMMA StuffedBitReturns ==
    ASSUME NEW s \in Stuffing, s.ones < Ones, NEW bit \in H!Bits,
           NEW line \in Seq(H!Bits), Begins(line, H!StuffBit(s, bit).out),
           NEW head \in Seq(H!Bits), NEW u \in [0..Len(line) -> Unstuffing],
           \A i \in 1..Len(line) : u[i] = H!UnstuffBit(u[i - 1], line[i]),
           u[Len(s.out)] = [ones |-> s.ones, out |-> head, ok |-> TRUE]
    PROVE  u[Len(H!StuffBit(s, bit).out)]
               = [ones |-> H!StuffBit(s, bit).ones, out |-> Append(head, bit), ok |-> TRUE]
<1> DEFINE x == s.out
           y == H!StuffBit(s, bit).out
           m == Len(x)
           c == s.ones
           d == H!StuffBit(s, bit).ones
           old == u[m]
<1>1. x \in Seq(H!Bits) /\ m \in Nat /\ c \in Nat /\ c < Ones /\ (bit = 0 \/ bit = 1)
  BY DEF Stuffing, H!Bits
<1>2. \/ /\ bit = 1 /\ c + 1 = Ones /\ d = 0
         /\ y \in Seq(H!Bits) /\ Len(y) = m + 2 /\ y[m + 1] = 1 /\ y[m + 2] = 0
      \/ /\ bit = 1 \/ bit = 0
         /\ d = IF bit = 1 THEN c + 1 ELSE 0
         /\ y \in Seq(H!Bits) /\ Len(y) = m + 1 /\ y[m + 1] = bit
  BY <1>1, StuffedGrows
<1>3. \A i \in 1..Len(y) : i \in 1..Len(line) /\ line[i] = y[i]
  BY <1>2 DEF Begins
<1>4. old = [ones |-> c, out |-> head, ok |-> TRUE] /\ old \in Unstuffing
  BY <1>1 DEF Unstuffing
<1> HIDE DEF x, y, c, d, m, old
<1>5. old.ones = c /\ old.out = head /\ old.ok
  BY <1>4
<1>6. m + 1 \in 1..Len(y) /\ (m + 1) - 1 = m
  BY <1>1, <1>2
<1>7. u[m + 1] = H!UnstuffBit(old, y[m + 1])
  BY <1>3, <1>6 DEF old
<1>8. CASE bit = 1
  <2>1. y[m + 1] = 1 /\ 1 \in H!Bits
    BY <1>2, <1>8 DEF H!Bits
  <2>5. H!UnstuffBit(old, 1)
            = [ones |-> old.ones + 1, out |-> Append(old.out, 1), ok |-> TRUE]
    BY <1>1, <1>4, <1>5, <2>1, UnstuffBitIs
  <2>2. u[m + 1] = [ones |-> c + 1, out |-> Append(head, 1), ok |-> TRUE]
    BY <1>5, <1>7, <2>1, <2>5
  <2>3. CASE c + 1 = Ones /\ d = 0 /\ Len(y) = m + 2 /\ y[m + 2] = 0
    <3> DEFINE next == u[m + 1]
    <3>1. next.ones = Ones /\ next.out = Append(head, 1) /\ next.ok = TRUE
      BY <2>2, <2>3
    <3>2. m + 2 \in 1..Len(y) /\ (m + 2) - 1 = m + 1 /\ m + 1 \in 0..Len(line)
      BY <1>1, <1>3, <1>6, <2>3
    <3>3. next \in Unstuffing
      BY <3>2
    <3>4. u[m + 2] = H!UnstuffBit(next, 0) /\ 0 \in H!Bits
      BY <1>3, <2>3, <3>2 DEF H!Bits
    <3> HIDE DEF next
    <3>5. u[m + 2] = [ones |-> 0, out |-> Append(head, 1), ok |-> TRUE]
      BY <3>1, <3>3, <3>4, UnstuffBitIs
    <3> QED  BY <1>8, <2>3, <3>5 DEF y, d
  <2>4. CASE d = c + 1 /\ Len(y) = m + 1
    BY <1>8, <2>2, <2>4 DEF y, d
  <2> QED  BY <1>2, <1>8, <2>3, <2>4
<1>9. CASE bit = 0
  <2>1. y[m + 1] = 0 /\ 0 \in H!Bits /\ c # Ones /\ d = 0 /\ Len(y) = m + 1
    BY <1>1, <1>2, <1>9, Taps DEF H!Bits
  <2>3. H!UnstuffBit(old, 0) = [ones |-> 0, out |-> Append(old.out, 0), ok |-> old.ok]
    BY <1>4, <1>5, <2>1, UnstuffBitIs
  <2>4. old.ok = TRUE
    BY <1>4
  <2>2. u[m + 1] = [ones |-> 0, out |-> Append(head, 0), ok |-> TRUE]
    BY <1>5, <1>7, <2>1, <2>3, <2>4
  <2> QED  BY <1>9, <2>1, <2>2 DEF y, d
<1> QED  BY <1>1, <1>8, <1>9

\* What is stuffed comes back, is longer by one zero per Ones bits at most, and holds
\* no ones in a row that a flag could be taken for.
LEMMA StuffedIs ==
    ASSUME NEW bits \in Seq(H!Bits)
    PROVE  /\ H!Stuff(bits) \in Seq(H!Bits)
           /\ NoRun(H!Stuff(bits))
           /\ \E z \in Nat : Len(H!Stuff(bits)) = Len(bits) + z /\ z * Ones <= Len(bits)
           /\ H!Unstuff(H!Stuff(bits)).ok
           /\ H!Unstuff(H!Stuff(bits)).out = bits
<1> DEFINE n == Len(bits)
           T == {s \in Stuffing : s.ones < Ones}
           line == H!Stuff(bits)
<1>1. n \in Nat /\ \A i \in 1..n : bits[i] \in H!Bits
  OBVIOUS
<1>2. PICK f \in [0..n -> T] :
          /\ f[0] = [ones |-> 0, out |-> <<>>]
          /\ \A i \in 1..n : f[i] = H!StuffBit(f[i - 1], bits[i])
          /\ line = f[n].out
  BY StuffSteps
<1> HIDE DEF n, line
<1>3. \A i \in 1..n : i \in 0..n /\ i - 1 \in 0..n
  BY <1>1
<1>4. \A i \in 0..n : f[i] \in Stuffing /\ f[i].ones < Ones /\ f[i].out \in Seq(H!Bits)
  BY <1>2 DEF Stuffing
<1> HIDE DEF T
<1>5. line \in Seq(H!Bits)
  BY <1>1, <1>2, <1>4
<1> DEFINE Good(s, k) == /\ Counted(s) /\ NoRun(s.out)
                         /\ \E z \in Nat : Len(s.out) = k + z /\ z * Ones + s.ones <= k
<1>6. Good(f[n], n)
  <2> DEFINE S == {k \in 0..n : Good(f[k], k)}
  <2>1. 0 \in S
    <3>1. Len(f[0].out) = 0 /\ f[0].ones = 0
      BY <1>2
    <3>2. Counted(f[0]) /\ NoRun(f[0].out)
      BY <3>1, Taps DEF Counted, NoRun
    <3>3. Len(f[0].out) = 0 + 0 /\ 0 * Ones + f[0].ones <= 0
      BY <3>1, Taps
    <3> QED  BY <1>1, <3>2, <3>3
  <2>2. ASSUME NEW k \in 1..n, k - 1 \in S
        PROVE  k \in S
    <3> DEFINE s == f[k - 1]
    <3>1. /\ s \in Stuffing /\ s.ones < Ones /\ bits[k] \in H!Bits
          /\ f[k] = H!StuffBit(s, bits[k])
      BY <1>1, <1>2, <1>3, <1>4
    <3>2. Good(s, k - 1)
      BY <2>2
    <3>3. k - 1 \in Nat /\ k - 1 + 1 = k
      BY <1>1
    <3> HIDE DEF s
    <3>4. Counted(f[k]) /\ NoRun(f[k].out)
      BY <3>1, <3>2, StuffedHasNoRun
    <3>5. \E z \in Nat : /\ Len(H!StuffBit(s, bits[k]).out) = k - 1 + 1 + z
                         /\ z * Ones + H!StuffBit(s, bits[k]).ones <= k - 1 + 1
      BY <3>1, <3>2, <3>3, StuffedZeros
    <3>6. Good(f[k], k)
      BY <3>1, <3>3, <3>4, <3>5
    <3> HIDE DEF Good
    <3> QED  BY <1>3, <3>6
  <2>3. \A k \in 1..n : k - 1 \in S => k \in S
    BY <2>2
  <2> HIDE DEF S
  <2>4. \A k \in 0..n : k \in S
    BY <1>1, <2>1, <2>3, UpTo, Zenon
  <2> HIDE DEF Good
  <2> QED  BY <1>1, <2>4 DEF S
<1>7. \A k \in 0..n : Begins(line, f[n - k].out)
  <2> DEFINE S == {k \in 0..n : Begins(line, f[n - k].out)}
  <2>1. 0 \in S
    <3>1. Begins(line, line)
      BY <1>5 DEF Begins
    <3> QED  BY <1>1, <1>2, <3>1
  <2>2. ASSUME NEW k \in 1..n, k - 1 \in S
        PROVE  k \in S
    <3> DEFINE j == n - (k - 1)
    <3>1. j \in 1..n /\ n - k = j - 1 /\ k \in 0..n
      BY <1>1
    <3>2. Begins(line, f[j].out)
      BY <2>2
    <3> HIDE DEF j
    <3>3. /\ f[j - 1] \in Stuffing /\ f[j - 1].ones < Ones /\ bits[j] \in H!Bits
          /\ f[j] = H!StuffBit(f[j - 1], bits[j])
          /\ f[j - 1].out \in Seq(H!Bits) /\ f[j].out \in Seq(H!Bits)
      BY <1>1, <1>2, <1>3, <1>4, <3>1
    <3>4. Begins(f[j].out, f[j - 1].out)
      BY <3>3, StuffedGrows
    <3>5. Begins(line, f[j - 1].out)
      BY <1>5, <3>2, <3>3, <3>4, BeginsJoins
    <3> QED  BY <3>1, <3>5
  <2>3. \A k \in 1..n : k - 1 \in S => k \in S
    BY <2>2
  <2> HIDE DEF S
  <2>4. \A k \in 0..n : k \in S
    BY <1>1, <2>1, <2>3, UpTo, Zenon
  <2> QED  BY <2>4 DEF S
<1>8. ASSUME NEW k \in 0..n
      PROVE  Begins(line, f[k].out)
  <2>1. n - k \in 0..n /\ n - (n - k) = k
    BY <1>1
  <2> QED  BY <1>7, <2>1
<1>9. PICK u \in [0..Len(line) -> Unstuffing] :
          /\ u[0] = [ones |-> 0, out |-> <<>>, ok |-> TRUE]
          /\ \A i \in 1..Len(line) : u[i] = H!UnstuffBit(u[i - 1], line[i])
          /\ H!Unstuff(line) = u[Len(line)]
  BY <1>5, UnstuffSteps
<1> DEFINE Back(k) == u[Len(f[k].out)]
                          = [ones |-> f[k].ones, out |-> SubSeq(bits, 1, k), ok |-> TRUE]
<1>10. Back(n)
  <2> DEFINE S == {k \in 0..n : Back(k)}
  <2>1. 0 \in S
    <3>1. Len(f[0].out) = 0 /\ f[0].ones = 0
      BY <1>2
    <3>2. SubSeq(bits, 1, 0) = <<>>
      OBVIOUS
    <3>3. Back(0)
      BY <1>9, <3>1, <3>2
    <3> HIDE DEF Back
    <3> QED  BY <1>1, <3>3
  <2>2. ASSUME NEW k \in 1..n, k - 1 \in S
        PROVE  k \in S
    <3> DEFINE s == f[k - 1]
               before == SubSeq(bits, 1, k - 1)
    <3>1. /\ s \in Stuffing /\ s.ones < Ones /\ bits[k] \in H!Bits
          /\ f[k] = H!StuffBit(s, bits[k])
          /\ Begins(line, f[k].out)
      BY <1>1, <1>2, <1>3, <1>4, <1>8
    <3>2. u[Len(s.out)] = [ones |-> s.ones, out |-> before, ok |-> TRUE]
      BY <2>2
    <3>3. before \in Seq(H!Bits) /\ SubSeq(bits, 1, k) = Append(before, bits[k])
      BY <1>1 DEF n
    <3> HIDE DEF s, before
    <3>4. Begins(line, H!StuffBit(s, bits[k]).out)
      BY <3>1
    <3>5. u[Len(H!StuffBit(s, bits[k]).out)] =
              [ones |-> H!StuffBit(s, bits[k]).ones, out |-> Append(before, bits[k]),
               ok |-> TRUE]
      BY <1>5, <1>9, <3>1, <3>2, <3>3, <3>4, StuffedBitReturns
    <3>6. Back(k)
      BY <3>1, <3>3, <3>5
    <3> HIDE DEF Back
    <3> QED  BY <1>3, <3>6
  <2>3. \A k \in 1..n : k - 1 \in S => k \in S
    BY <2>2
  <2> HIDE DEF S
  <2>4. \A k \in 0..n : k \in S
    BY <1>1, <2>1, <2>3, UpTo, Zenon
  <2> HIDE DEF Back
  <2> QED  BY <1>1, <2>4 DEF S
<1>11. H!Unstuff(line) = [ones |-> f[n].ones, out |-> bits, ok |-> TRUE]
  <2>1. SubSeq(bits, 1, n) = bits
    BY DEF n
  <2> QED  BY <1>2, <1>9, <1>10, <2>1
<1>12. \E z \in Nat : Len(line) = n + z /\ z * Ones <= n
  <2>1. PICK z \in Nat : Len(line) = n + z /\ z * Ones + f[n].ones <= n
    BY <1>2, <1>6
  <2>2. z * Ones \in Nat /\ f[n].ones \in Nat
    BY <1>1, <1>4, Taps DEF Stuffing
  <2>3. z * Ones <= n
    BY <1>1, <2>1, <2>2
  <2> QED  BY <2>1, <2>3
<1>13. H!Unstuff(line).ok /\ H!Unstuff(line).out = bits
  BY <1>11
<1>14. NoRun(line)
  BY <1>2, <1>6
<1> QED  BY <1>5, <1>12, <1>13, <1>14 DEF line, n
-----------------------------------------------------------------------------
(* A frame between two flags *)

LEMMA FlagIs ==
    /\ H!FlagLength = Ones + 3 /\ H!FlagLength \in Nat
    /\ H!Flag \in Seq(H!Bits) /\ Len(H!Flag) = H!FlagLength
    /\ H!Flag = [i \in 1..H!FlagLength |-> H!Flag[i]]
    /\ H!Flag[1] = 0 /\ H!Flag[H!FlagLength] = 0
    /\ \A i \in 2..(H!FlagLength - 1) : H!Flag[i] = 1
<1>1. H!FlagLength = Ones + 3 /\ H!FlagLength \in Nat /\ H!FlagLength > 1
  BY Taps DEF H!FlagLength
<1>2. H!Flag \in [1..H!FlagLength -> H!Bits]
  BY DEF H!Flag, H!Bits
<1>3. H!Flag[1] = 0 /\ H!Flag[H!FlagLength] = 0
  BY <1>1 DEF H!Flag
<1>4. \A i \in 2..(H!FlagLength - 1) : H!Flag[i] = 1
  BY <1>1 DEF H!Flag
<1>5. H!Flag \in Seq(H!Bits) /\ Len(H!Flag) = H!FlagLength
  BY <1>1, <1>2, BitsAreSeq
<1> QED  BY <1>1, <1>2, <1>3, <1>4, <1>5

\* A part of a sequence is what stands there.
LEMMA PartIs ==
    ASSUME NEW b \in Seq(H!Bits), NEW s \in Seq(H!Bits), NEW i \in Nat, i >= 1,
           i + Len(s) - 1 <= Len(b)
    PROVE  SubSeq(b, i, i + Len(s) - 1) = s <=> \A j \in 1..Len(s) : b[i - 1 + j] = s[j]
<1> DEFINE m == Len(s)
           part == SubSeq(b, i, i + m - 1)
<1>1. m \in Nat /\ s = [j \in 1..m |-> s[j]]
  OBVIOUS
<1>2. part \in Seq(H!Bits) /\ Len(part) = m /\ \A j \in 1..m : part[j] = b[i - 1 + j]
  BY <1>1
<1>3. part = [j \in 1..m |-> part[j]]
  BY <1>2
<1> HIDE DEF part, m
<1>4. part = s <=> \A j \in 1..m : part[j] = s[j]
  BY <1>1, <1>3
<1> QED  BY <1>2, <1>4 DEF part, m

LEMMA FlagStands ==
    ASSUME NEW b \in Seq(H!Bits), NEW i \in Int
    PROVE  i \in H!FlagsIn(b) <=> i >= 1 /\ At(b, i - 1, H!Flag)
<1>1. H!Flag \in Seq(H!Bits) /\ Len(H!Flag) = H!FlagLength /\ H!FlagLength \in Nat
  BY FlagIs
<1>2. i \in H!FlagsIn(b) <=>
          /\ i >= 1 /\ i - 1 + H!FlagLength <= Len(b)
          /\ SubSeq(b, i, i + H!FlagLength - 1) = H!Flag
  BY <1>1 DEF H!FlagsIn
<1>3. ASSUME i >= 1, i - 1 + H!FlagLength <= Len(b)
      PROVE  SubSeq(b, i, i + H!FlagLength - 1) = H!Flag
                <=> \A j \in 1..H!FlagLength : b[i - 1 + j] = H!Flag[j]
  <2>1. i \in Nat /\ i + Len(H!Flag) - 1 <= Len(b)
    BY <1>1, <1>3
  <2> QED  BY <1>1, <1>3, <2>1, PartIs
<1> QED  BY <1>1, <1>2, <1>3 DEF At

\* No flag begins between two flags with stuffed bits between them.
LEMMA NoFlagBetween ==
    ASSUME NEW b \in Seq(H!Bits), NEW p \in Nat, NEW s \in Seq(H!Bits), NoRun(s),
           p >= H!FlagLength, At(b, p - H!FlagLength, H!Flag),
           At(b, p, s), At(b, p + Len(s), H!Flag),
           NEW f \in H!FlagsIn(b)
    PROVE  f <= p - H!FlagLength + 1 \/ f >= p + Len(s) + 1
<1> DEFINE first == p - H!FlagLength + 1
           next == p + Len(s) + 1
<1>1. /\ H!FlagLength = Ones + 3 /\ Ones \in Nat /\ Ones > 0 /\ Len(s) \in Nat
      /\ Len(H!Flag) = H!FlagLength
      /\ H!Flag[1] = 0 /\ H!Flag[H!FlagLength] = 0
      /\ \A i \in 2..(H!FlagLength - 1) : H!Flag[i] = 1
  <2>1. Ones \in Nat /\ Ones > 0
    BY Taps
  <2>2. Len(s) \in Nat
    OBVIOUS
  <2> QED  BY <2>1, <2>2, FlagIs
<1>2. f \in Int /\ At(b, f - 1, H!Flag)
  BY FlagStands DEF H!FlagsIn
<1>3. b[p] = 0
  BY <1>1 DEF At
<1>4. b[next] = 0
  BY <1>1 DEF At
<1>5. \A i \in (f + 1)..(f + Ones + 1) : b[i] = 1
  <2>1. ASSUME NEW i \in (f + 1)..(f + Ones + 1)
        PROVE  b[i] = 1
    <3>1. i - f + 1 \in 2..(H!FlagLength - 1) /\ i - f + 1 \in 1..Len(H!Flag)
      BY <1>1, <1>2
    <3>2. (f - 1) + (i - f + 1) = i
      BY <1>2
    <3>3. b[(f - 1) + (i - f + 1)] = H!Flag[i - f + 1]
      BY <1>2, <3>1 DEF At
    <3> QED  BY <1>1, <3>1, <3>2, <3>3
  <2> QED  BY <2>1
<1>6. SUFFICES ASSUME f > first, f < next
               PROVE  FALSE
  BY <1>1, <1>2
<1>7. ~(p \in (f + 1)..(f + Ones + 1)) /\ ~(next \in (f + 1)..(f + Ones + 1))
  BY <1>3, <1>4, <1>5
<1>8. f >= p /\ f + Ones + 1 <= p + Len(s)
  BY <1>1, <1>2, <1>6, <1>7
<1> DEFINE j == f - p + 1
<1>9. j \in 1..(Len(s) - Ones)
  BY <1>1, <1>2, <1>8
<1>10. PICK i \in j..(j + Ones) : s[i] = 0
  BY <1>9 DEF NoRun
<1>11. i \in 1..Len(s) /\ p + i \in (f + 1)..(f + Ones + 1)
  BY <1>1, <1>2, <1>8, <1>9
<1>12. b[p + i] = 0
  BY <1>10, <1>11 DEF At
<1> QED  BY <1>5, <1>11, <1>12

\* Stuffed, a frame is not too long.
LEMMA StuffedFits ==
    ASSUME NEW f, Sendable(f)
    PROVE  Len(H!Stuff(f)) >= 1 /\ Len(H!Stuff(f)) <= H!MaxStuffed
<1> DEFINE n == Len(f)
           most == MaxBytes * ByteBits
           zeros == (most + Ones - 1) \div Ones
<1>1. /\ Ones \in Nat /\ Ones > 0 /\ ByteBits \in Nat /\ ByteBits > 0
      /\ MinBytes \in Nat /\ MinBytes > 0 /\ MaxBytes \in Nat
  BY ReceiversAssumption DEF H!HdlcAssumption
<1>2. n \in Nat /\ n % ByteBits = 0 /\ n \div ByteBits \in MinBytes..MaxBytes
  BY DEF Sendable
<1> HIDE DEF n
<1>3. n <= most /\ n >= 1 /\ most \in Nat
  <2> DEFINE q == n \div ByteBits
  <2>1. n = ByteBits * q /\ q \in Nat /\ q >= 1 /\ q <= MaxBytes
    BY <1>1, <1>2
  <2> HIDE DEF q
  <2>2. ByteBits * q >= 1
    BY <1>1, <2>1
  <2>3. MaxBytes - q \in Nat
    BY <1>1, <2>1
  <2>4. (MaxBytes - q) * ByteBits \in Nat
    BY <1>1, <2>3
  <2>5. (MaxBytes - q) * ByteBits = MaxBytes * ByteBits - ByteBits * q
    BY <1>1, <2>1
  <2>6. MaxBytes * ByteBits \in Nat /\ ByteBits * q \in Nat
    BY <1>1, <2>1
  <2> QED  BY <2>1, <2>2, <2>4, <2>5, <2>6
<1> HIDE DEF most
<1>4. PICK z \in Nat : Len(H!Stuff(f)) = n + z /\ z * Ones <= n
  BY StuffedIs DEF Sendable, n
<1>5. zeros \in Nat /\ zeros * Ones >= most
  <2> DEFINE x == most + Ones - 1
             r == x % Ones
  <2>1. x \in Nat /\ zeros = x \div Ones
    BY <1>1, <1>3
  <2> HIDE DEF x, zeros
  <2>2. zeros \in Nat /\ r \in Nat /\ r <= Ones - 1 /\ x = Ones * zeros + r
    BY <1>1, <2>1
  <2> HIDE DEF r
  <2>3. Ones * zeros = zeros * Ones /\ zeros * Ones \in Nat
    BY <1>1, <2>2
  <2> QED  BY <1>1, <1>3, <2>2, <2>3 DEF x
<1> HIDE DEF zeros
<1>6. z <= zeros
  <2>1. SUFFICES ASSUME z >= zeros + 1
                 PROVE  FALSE
    BY <1>5
  <2>2. z - zeros - 1 \in Nat
    BY <1>5, <2>1
  <2>3. (z - zeros - 1) * Ones \in Nat /\ (z - zeros - 1) * Ones = z * Ones - zeros * Ones - Ones
    BY <1>1, <1>5, <2>2
  <2>4. z * Ones \in Nat /\ zeros * Ones \in Nat
    BY <1>1, <1>5
  <2> QED  BY <1>1, <1>2, <1>3, <1>4, <1>5, <2>3, <2>4
<1>7. H!MaxStuffed = most + zeros
  BY DEF H!MaxStuffed, most, zeros
<1> QED  BY <1>2, <1>3, <1>4, <1>5, <1>6, <1>7

\* A stuffed frame between two flags is found, and at its place.
LEMMA FoundBetweenFlags ==
    ASSUME NEW b \in Seq(H!Bits), NEW p \in Nat, NEW f, Sendable(f),
           p >= H!FlagLength, At(b, p - H!FlagLength, H!Flag),
           At(b, p, H!Stuff(f)), At(b, p + Len(H!Stuff(f)), H!Flag)
    PROVE  [start |-> p + 1, end |-> p + Len(H!Stuff(f)) + 1, frame |-> f] \in H!Spans(b)
<1> DEFINE s == H!Stuff(f)
           first == p - H!FlagLength + 1
           next == p + Len(s) + 1
           region(q) == SubSeq(b, q[1] + H!FlagLength, q[2] - 1)
           pair == <<first, next>>
<1>1. /\ s \in Seq(H!Bits) /\ NoRun(s) /\ Len(s) >= 1 /\ Len(s) <= H!MaxStuffed
      /\ H!Unstuff(s).ok /\ H!Unstuff(s).out = f
  BY StuffedIs, StuffedFits DEF Sendable
<1>2. H!FlagLength \in Nat /\ H!FlagLength >= 3
  BY FlagIs, Taps
<1>3. At(b, p - H!FlagLength, H!Flag) /\ At(b, p, s) /\ At(b, p + Len(s), H!Flag)
  OBVIOUS
<1> HIDE DEF s
<1>4. first \in H!FlagsIn(b) /\ next \in H!FlagsIn(b)
  <2>1. first \in Int /\ first >= 1 /\ first - 1 = p - H!FlagLength
    BY <1>2
  <2>2. next \in Int /\ next >= 1 /\ next - 1 = p + Len(s)
    BY <1>1
  <2> HIDE DEF first, next
  <2> QED  BY <1>3, <2>1, <2>2, FlagStands
<1>5. first + H!FlagLength < next /\ first + H!FlagLength = p + 1 /\ next - 1 = p + Len(s)
  BY <1>1, <1>2
<1>6. \A g \in H!FlagsIn(b) : g <= first \/ g >= next
  BY <1>1, <1>3, NoFlagBetween
<1>7. region(pair) = s
  <2>1. p + 1 \in Nat /\ p + 1 >= 1 /\ p + 1 + Len(s) - 1 <= Len(b) /\ p + 1 + Len(s) - 1 = p + Len(s)
    BY <1>1, <1>3 DEF At
  <2>2. \A j \in 1..Len(s) : b[p + 1 - 1 + j] = s[j]
    BY <1>3 DEF At
  <2>3. SubSeq(b, p + 1, p + 1 + Len(s) - 1) = s
    BY <1>1, <2>1, <2>2, PartIs
  <2> QED  BY <1>5, <2>1, <2>3
<1>11. pair[1] = first /\ pair[2] = next
  OBVIOUS
<1> HIDE DEF first, next
<1>8. pair \in H!Neighbours(H!FlagsIn(b))
  BY <1>4, <1>5, <1>6 DEF H!Neighbours
<1>9. H!IsFrame(s)
  BY <1>1 DEF H!IsFrame, Sendable
<1>10. [start |-> first + H!FlagLength, end |-> next, frame |-> H!Unstuff(region(pair)).out]
           \in H!Spans(b)
  <2>1. H!Spans(b) =
            {[start |-> q[1] + H!FlagLength, end |-> q[2], frame |-> H!Unstuff(region(q)).out] :
                q \in {q \in H!Neighbours(H!FlagsIn(b)) : H!IsFrame(region(q))}}
    BY DEF H!Spans
  <2> HIDE DEF region, pair
  <2>2. pair \in {q \in H!Neighbours(H!FlagsIn(b)) : H!IsFrame(region(q))}
    BY <1>7, <1>8, <1>9
  <2> QED  BY <1>11, <2>1, <2>2
<1> QED  BY <1>1, <1>5, <1>7, <1>10 DEF s, next
-----------------------------------------------------------------------------
(* The stream of a trial *)

LEMMA AtJoins ==
    ASSUME NEW a \in Seq(H!Bits), NEW b \in Seq(H!Bits), NEW c \in Seq(H!Bits),
           NEW i \in Nat, NEW j \in Nat, At(a, i, b), At(b, j, c)
    PROVE  At(a, i + j, c)
<1>1. Len(a) \in Nat /\ Len(b) \in Nat /\ Len(c) \in Nat
  OBVIOUS
<1>2. /\ i + Len(b) <= Len(a) /\ \A k \in 1..Len(b) : a[i + k] = b[k]
      /\ j + Len(c) <= Len(b) /\ \A k \in 1..Len(c) : b[j + k] = c[k]
  BY DEF At
<1>3. i + j + Len(c) <= Len(a)
  BY <1>1, <1>2
<1>4. ASSUME NEW k \in 1..Len(c)
      PROVE  a[i + j + k] = c[k]
  <2>1. j + k \in 1..Len(b) /\ i + (j + k) = i + j + k
    BY <1>1, <1>2
  <2>2. a[i + (j + k)] = b[j + k]
    BY <1>2, <2>1
  <2> QED  BY <1>2, <2>1, <2>2
<1> QED  BY <1>3, <1>4 DEF At

LEMMA JoinedStand ==
    ASSUME NEW a \in Seq(H!Bits), NEW b \in Seq(H!Bits)
    PROVE  /\ a \o b \in Seq(H!Bits) /\ Len(a \o b) = Len(a) + Len(b)
           /\ At(a \o b, 0, a) /\ At(a \o b, Len(a), b)
BY ConcatProperties DEF At

LEMMA JoinedAgain ==
    ASSUME NEW a \in Seq(H!Bits), NEW b \in Seq(H!Bits), NEW c \in Seq(H!Bits)
    PROVE  a \o (b \o c) = a \o b \o c
BY ConcatAssociative

LEMMA BeforeUnfolds ==
    ASSUME NEW t, NEW k, NEW heads, heads = SubSeq(t.frames, 1, k - 1)
    PROVE  H!Before(t, k) = t.noise \o H!Flag \o Laid(t, heads)
BY DEF H!Before, H!Fold, Laid

\* The same bits are sent before a frame however many come after it.
LEMMA SentSoFar ==
    ASSUME NEW t, Sending(t), NEW m \in 0..Len(t.frames),
           NEW f \in [0..Len(t.frames) -> Seq(H!Bits)], f[0] = <<>>,
           \A i \in 1..Len(t.frames) : f[i] = Sequel(f[i - 1], t.frames[i], t.gap)
    PROVE  H!Before(t, m + 1) = t.noise \o H!Flag \o f[m]
<1> DEFINE heads == SubSeq(t.frames, 1, m)
           Eq(h) == h = [i \in 0..Len(heads) |->
                           IF i = 0 THEN <<>> ELSE h[i - 1] \o H!Stuff(heads[i]) \o t.gap]
           g == CHOOSE h : Eq(h)
<1>1. m \in Nat /\ m + 1 - 1 = m /\ Len(t.frames) \in Nat /\ m <= Len(t.frames)
  BY DEF Sending
<1>2. Len(heads) = m /\ \A i \in 1..m : heads[i] = t.frames[i]
  BY <1>1 DEF Sending
<1>3. H!Before(t, m + 1) = t.noise \o H!Flag \o g[Len(heads)]
  <2>1. g[Len(heads)] = Laid(t, heads)
    BY Zenon DEF Laid
  <2>2. H!Before(t, m + 1) = t.noise \o H!Flag \o Laid(t, heads)
    <3> DEFINE k == m + 1
    <3>1. heads = SubSeq(t.frames, 1, k - 1)
      BY <1>1
    <3> HIDE DEF heads, k
    <3>2. H!Before(t, k) = t.noise \o H!Flag \o Laid(t, heads)
      BY <3>1, BeforeUnfolds, Zenon
    <3> QED  BY <3>2 DEF k
  <2> HIDE DEF g, heads
  <2> QED  BY <1>1, <2>1, <2>2
<1> HIDE DEF heads
<1> DEFINE h == [i \in 0..m |-> f[i]]
<1>4. \A i \in 1..m : i \in 1..Len(t.frames) /\ i \in 0..m /\ i - 1 \in 0..m
  BY <1>1
<1>5. \A i \in 1..m : h[i] = h[i - 1] \o H!Stuff(heads[i]) \o t.gap
  BY <1>2, <1>4 DEF Sequel
<1>6. Eq(h)
  <2>1. \A i \in 0..m : i # 0 => i \in 1..m
    BY <1>1
  <2>2. h[0] = <<>> /\ h = [i \in 0..m |-> h[i]]
    BY <1>1
  <2> HIDE DEF h
  <2> QED  BY <1>2, <1>5, <2>1, <2>2
<1>7. Eq(g)
  <2> HIDE DEF Eq, h
  <2> QED  BY <1>6
<1> HIDE DEF g
<1>8. g[0] = <<>> /\ \A i \in 1..m : g[i] = g[i - 1] \o H!Stuff(heads[i]) \o t.gap
  <2>1. \A i \in 1..m : i # 0
    BY <1>1
  <2>2. g = [i \in 0..m |-> IF i = 0 THEN <<>> ELSE g[i - 1] \o H!Stuff(heads[i]) \o t.gap]
    BY <1>2, <1>7
  <2>3. g[0] = <<>>
    BY <1>1, <2>2
  <2>4. ASSUME NEW i \in 1..m
        PROVE  g[i] = g[i - 1] \o H!Stuff(heads[i]) \o t.gap
    BY <1>4, <2>1, <2>2
  <2> QED  BY <2>3, <2>4
<1>9. h[0] = <<>>
  BY <1>1
<1> HIDE DEF h
<1> DEFINE S == {i \in 0..m : g[i] = h[i]}
<1>10. 0 \in S
  BY <1>1, <1>8, <1>9
<1>11. ASSUME NEW i \in 1..m, i - 1 \in S
       PROVE  i \in S
  BY <1>4, <1>5, <1>8, <1>11
<1>12. m \in S
  <2>1. \A i \in 1..m : i - 1 \in S => i \in S
    BY <1>11
  <2> HIDE DEF S
  <2>2. \A i \in 0..m : i \in S
    BY <1>1, <1>10, <2>1, UpTo, Zenon
  <2> QED  BY <1>1, <2>2
<1>13. g[m] = f[m]
  BY <1>1, <1>12 DEF h
<1> QED  BY <1>2, <1>3, <1>13

\* What was sent before each frame.
LEMMA BeforeIs ==
    ASSUME NEW t, Sending(t)
    PROVE  /\ H!Before(t, 1) = t.noise \o H!Flag
           /\ \A k \in 1..Len(t.frames) :
                 /\ H!Before(t, k) \in Seq(H!Bits)
                 /\ k + 1 \in 1..Len(t.frames) =>
                       H!Before(t, k + 1) = Sequel(H!Before(t, k), t.frames[k], t.gap)
<1> DEFINE n == Len(t.frames)
           T == Seq(H!Bits)
           start == t.noise \o H!Flag
           step == [i \in 1..n |-> [b \in T |-> Sequel(b, t.frames[i], t.gap)]]
<1>1. /\ n \in Nat /\ t.gap \in T /\ t.noise \in T /\ H!Flag \in T
      /\ \A i \in 1..n : H!Stuff(t.frames[i]) \in T
  <2>1. n \in Nat /\ t.gap \in T /\ t.noise \in T
    BY DEF Sending
  <2>2. \A i \in 1..n : t.frames[i] \in T
    BY DEF Sending, Sendable
  <2>3. \A i \in 1..n : H!Stuff(t.frames[i]) \in T
    BY <2>2, StuffedIs
  <2>4. H!Flag \in T
    BY FlagIs
  <2> QED  BY <2>1, <2>3, <2>4
<1>2. \A b \in T, i \in 1..n : Sequel(b, t.frames[i], t.gap) \in T
  BY <1>1, ConcatProperties DEF Sequel
<1>3. step \in [1..n -> [T -> T]]
  BY <1>2
<1>4. start \in T /\ <<>> \in T
  BY <1>1, ConcatProperties
<1> HIDE DEF start
<1>5. PICK f \in [0..n -> T] : Loop(f, n, <<>>, step)
  <2> HIDE DEF step, T, n
  <2> QED  BY <1>1, <1>3, <1>4, Rounds, Zenon
<1>6. f[0] = <<>> /\ \A i \in 1..n : f[i] = Sequel(f[i - 1], t.frames[i], t.gap)
  <2>1. \A i \in 1..n : i - 1 \in 0..n
    BY <1>1
  <2>2. \A i \in 1..n : f[i - 1] \in T
    BY <1>5, <2>1
  <2> HIDE DEF n, T
  <2> QED  BY <1>5, <2>2 DEF Loop
<1>7. \A m \in 0..n : f[m] \in T /\ H!Before(t, m + 1) = start \o f[m]
  <2>1. \A m \in 0..n : H!Before(t, m + 1) = t.noise \o H!Flag \o f[m]
    BY <1>6, SentSoFar
  <2> QED  BY <1>5, <2>1 DEF start
<1> HIDE DEF n, T
<1>8. H!Before(t, 1) = start
  <2>1. 0 \in 0..n /\ 0 + 1 = 1
    BY <1>1
  <2>2. start \o <<>> = start
    BY <1>4, ConcatEmptySeq DEF T
  <2> QED  BY <1>6, <1>7, <2>1, <2>2
<1>9. ASSUME NEW k \in 1..n
      PROVE  /\ H!Before(t, k) = start \o f[k - 1]
             /\ H!Before(t, k) \in T
  <2>1. k - 1 \in 0..n /\ k - 1 + 1 = k
    BY <1>1
  <2>2. f[k - 1] \in T /\ H!Before(t, k) = start \o f[k - 1]
    BY <1>7, <2>1
  <2> QED  BY <1>4, <2>2, ConcatProperties DEF T
<1>10. ASSUME NEW k \in 1..n, k + 1 \in 1..n
       PROVE  H!Before(t, k + 1) = Sequel(H!Before(t, k), t.frames[k], t.gap)
  <2> DEFINE old == f[k - 1]
             s == H!Stuff(t.frames[k])
  <2>1. k - 1 \in 0..n /\ k + 1 - 1 = k
    BY <1>1
  <2>2. old \in T /\ s \in T
    BY <1>1, <1>7, <2>1
  <2>7. H!Before(t, k + 1) = start \o f[k]
    <3>1. H!Before(t, k + 1) = start \o f[k + 1 - 1]
      BY <1>9, <1>10
    <3> QED  BY <2>1, <3>1
  <2>3. f[k] = old \o s \o t.gap
    BY <1>6 DEF Sequel
  <2>4. H!Before(t, k) = start \o old
    BY <1>9
  <2> HIDE DEF old, s
  <2>5. start \o (old \o s) = start \o old \o s
    <3>1. start \in Seq(H!Bits) /\ old \in Seq(H!Bits) /\ s \in Seq(H!Bits)
      BY <1>4, <2>2 DEF T
    <3> QED  BY <3>1, JoinedAgain
  <2>8. old \o s \in T
    BY <2>2, ConcatProperties DEF T
  <2>6. start \o (old \o s \o t.gap) = start \o (old \o s) \o t.gap
    <3> DEFINE both == old \o s
    <3>1. both \in T /\ start \in T /\ t.gap \in T
      BY <1>1, <1>4, <2>8
    <3> HIDE DEF both
    <3> QED  BY <3>1, JoinedAgain DEF T, both
  <2> QED  BY <2>3, <2>4, <2>5, <2>6, <2>7 DEF Sequel, s
<1> QED  BY <1>8, <1>9, <1>10 DEF n, T, start

LEMMA BeginsWith ==
    ASSUME NEW a \in Seq(H!Bits), NEW b \in Seq(H!Bits), NEW c \in Seq(H!Bits),
           NEW j \in Nat, At(a, 0, b), At(b, j, c)
    PROVE  At(a, j, c)
<1>1. At(a, 0 + j, c) /\ 0 + j = j
  BY AtJoins
<1> QED  BY <1>1

\* What is joined to a sequence stands after what stood in it.
LEMMA ThreeStand ==
    ASSUME NEW a \in Seq(H!Bits), NEW b \in Seq(H!Bits), NEW c \in Seq(H!Bits)
    PROVE  LET all == a \o b \o c IN
           /\ all \in Seq(H!Bits) /\ Len(all) = Len(a) + Len(b) + Len(c)
           /\ At(all, 0, a) /\ At(all, Len(a), b) /\ At(all, Len(a) + Len(b), c)
<1> DEFINE ab == a \o b
           all == ab \o c
<1>1. /\ ab \in Seq(H!Bits) /\ Len(ab) = Len(a) + Len(b)
      /\ At(ab, 0, a) /\ At(ab, Len(a), b)
  BY JoinedStand
<1>2. Len(a) \in Nat /\ Len(b) \in Nat /\ Len(c) \in Nat
  OBVIOUS
<1> HIDE DEF ab
<1>3. /\ all \in Seq(H!Bits) /\ Len(all) = Len(ab) + Len(c)
      /\ At(all, 0, ab) /\ At(all, Len(ab), c)
  BY <1>1, JoinedStand
<1> HIDE DEF all
<1>4. At(all, 0, a) /\ At(all, Len(a), b)
  BY <1>1, <1>2, <1>3, BeginsWith
<1> QED  BY <1>1, <1>2, <1>3, <1>4 DEF all, ab

\* In a stream of frames each stands between two flags.
LEMMA FramesStand ==
    ASSUME NEW n \in Nat, n > 0,
           NEW begin \in [1..n -> Seq(H!Bits)], NEW s \in [1..n -> Seq(H!Bits)],
           NEW noise \in Seq(H!Bits), NEW gap \in Seq(H!Bits),
           At(gap, 0, H!Flag), At(gap, Len(gap) - H!FlagLength, H!Flag),
           begin[1] = noise \o H!Flag,
           \A k \in 1..n : k + 1 \in 1..n => begin[k + 1] = begin[k] \o s[k] \o gap
    PROVE  LET stream == begin[n] \o s[n] \o H!Flag IN
           /\ stream \in Seq(H!Bits)
           /\ \A k \in 1..n :
                 /\ Len(begin[k]) >= Len(noise) + H!FlagLength
                 /\ At(stream, Len(begin[k]) - H!FlagLength, H!Flag)
                 /\ At(stream, Len(begin[k]), s[k])
                 /\ At(stream, Len(begin[k]) + Len(s[k]), H!Flag)
<1> DEFINE stream == begin[n] \o s[n] \o H!Flag
           size == H!FlagLength
<1>1. /\ H!Flag \in Seq(H!Bits) /\ Len(H!Flag) = size /\ size \in Nat
      /\ Len(noise) \in Nat /\ Len(gap) \in Nat
  BY FlagIs
<1>2. \A k \in 1..n : /\ begin[k] \in Seq(H!Bits) /\ s[k] \in Seq(H!Bits)
                      /\ Len(begin[k]) \in Nat /\ Len(s[k]) \in Nat
  OBVIOUS
<1> HIDE DEF size
<1>3. Len(gap) >= size
  BY <1>1 DEF At, size
<1>4. ASSUME NEW k \in 1..n, k + 1 \in 1..n
      PROVE  /\ At(begin[k + 1], 0, begin[k]) /\ At(begin[k + 1], Len(begin[k]), s[k])
             /\ At(begin[k + 1], Len(begin[k]) + Len(s[k]), gap)
             /\ Len(begin[k + 1]) = Len(begin[k]) + Len(s[k]) + Len(gap)
  <2> DEFINE new == begin[k + 1]
             old == begin[k]
             put == s[k]
  <2>1. new = old \o put \o gap /\ old \in Seq(H!Bits) /\ put \in Seq(H!Bits)
    BY <1>2, <1>4
  <2> HIDE DEF new, old, put
  <2>2. /\ At(new, 0, old) /\ At(new, Len(old), put)
        /\ At(new, Len(old) + Len(put), gap)
        /\ Len(new) = Len(old) + Len(put) + Len(gap)
    BY <2>1, ThreeStand
  <2> QED  BY <2>2 DEF new, old, put
\* Every beginning ends with a flag.
<1> DEFINE Ends(k) == Len(begin[k]) >= Len(noise) + size /\ At(begin[k], Len(begin[k]) - size, H!Flag)
           E == {i \in 0..(n - 1) : Ends(i + 1)}
<1>5. Ends(1)
  <2>1. /\ Len(noise \o H!Flag) = Len(noise) + size
        /\ At(noise \o H!Flag, Len(noise), H!Flag)
    BY <1>1, JoinedStand
  <2>2. Len(noise) + size - size = Len(noise)
    BY <1>1
  <2> QED  BY <1>1, <2>1, <2>2
<1>6. ASSUME NEW k \in 1..n, k + 1 \in 1..n, Ends(k)
      PROVE  Ends(k + 1)
  <2> DEFINE new == begin[k + 1]
             i == Len(begin[k]) + Len(s[k])
             j == Len(gap) - size
  <2>1. /\ new \in Seq(H!Bits) /\ At(new, i, gap) /\ Len(new) = i + Len(gap)
        /\ i \in Nat /\ i >= Len(begin[k])
    <3>1. new \in Seq(H!Bits)
      BY <1>6
    <3>2. Len(begin[k]) \in Nat /\ Len(s[k]) \in Nat
      <4>1. begin[k] \in Seq(H!Bits) /\ s[k] \in Seq(H!Bits)
        OBVIOUS
      <4> QED  BY <4>1
    <3>3. At(new, i, gap) /\ Len(new) = i + Len(gap)
      BY <1>4, <1>6
    <3> QED  BY <3>1, <3>2, <3>3
  <2>2. j \in Nat /\ At(gap, j, H!Flag)
    BY <1>1, <1>3 DEF size
  <2> HIDE DEF new, i, j
  <2>3. At(new, i + j, H!Flag)
    BY <1>1, <2>1, <2>2, AtJoins
  <2>4. Len(new) - size = i + j
    BY <1>1, <2>1 DEF j
  <2>5. Len(new) >= Len(noise) + size
    BY <1>1, <1>2, <1>3, <1>6, <2>1
  <2>6. At(new, Len(new) - size, H!Flag)
    BY <2>3, <2>4
  <2> QED  BY <2>5, <2>6 DEF new
<1> HIDE DEF Ends
<1>7. \A k \in 1..n : Ends(k)
  <2>1. 0 \in E
    BY <1>5
  <2>2. \A i \in 1..(n - 1) : i - 1 \in E => i \in E
    <3>1. \A i \in 1..(n - 1) : i \in 1..n /\ i + 1 \in 1..n /\ i - 1 + 1 = i /\ i \in 0..(n - 1)
      OBVIOUS
    <3> QED  BY <1>6, <3>1
  <2>3. n - 1 \in Nat
    OBVIOUS
  <2>4. \A i \in 0..(n - 1) : i \in E
    <3> HIDE DEF E
    <3> DEFINE m == n - 1
    <3>1. m \in Nat /\ \A i \in 1..m : i - 1 \in E => i \in E
      BY <2>2, <2>3
    <3> HIDE DEF m
    <3>2. \A i \in 0..m : i \in E
      BY <2>1, <3>1, UpTo, Zenon
    <3> QED  BY <3>2 DEF m
  <2>5. \A k \in 1..n : k - 1 \in 0..(n - 1) /\ k - 1 + 1 = k
    OBVIOUS
  <2> QED  BY <2>4, <2>5
\* A beginning stands at the beginning of every later one.
<1> DEFINE Opens(k) == \A i \in 1..k : At(begin[k], 0, begin[i])
           F == {i \in 0..(n - 1) : Opens(i + 1)}
<1>8. \A k \in 1..n : At(begin[k], 0, begin[k])
  BY <1>2 DEF At
<1>9. ASSUME NEW k \in 1..n, k + 1 \in 1..n, Opens(k)
      PROVE  Opens(k + 1)
  <2>1. ASSUME NEW i \in 1..k
        PROVE  At(begin[k + 1], 0, begin[i])
    <3>1. i \in 1..n
      OBVIOUS
    <3> QED  BY <1>2, <1>4, <1>9, <3>1, BeginsWith
  <2>2. \A i \in 1..(k + 1) : i \in 1..k \/ i = k + 1
    OBVIOUS
  <2> QED  BY <1>8, <1>9, <2>1, <2>2
<1>10. \A k \in 1..n : Opens(k)
  <2>1. 0 \in F
    <3>1. \A i \in 1..1 : i = 1
      OBVIOUS
    <3> QED  BY <1>8, <3>1
  <2> HIDE DEF Opens
  <2>2. \A i \in 1..(n - 1) : i - 1 \in F => i \in F
    <3>1. \A i \in 1..(n - 1) : i \in 1..n /\ i + 1 \in 1..n /\ i - 1 + 1 = i /\ i \in 0..(n - 1)
      OBVIOUS
    <3> QED  BY <1>9, <3>1
  <2>3. n - 1 \in Nat
    OBVIOUS
  <2>4. \A i \in 0..(n - 1) : i \in F
    <3> HIDE DEF F
    <3> DEFINE m == n - 1
    <3>1. m \in Nat /\ \A i \in 1..m : i - 1 \in F => i \in F
      BY <2>2, <2>3
    <3> HIDE DEF m
    <3>2. \A i \in 0..m : i \in F
      BY <2>1, <3>1, UpTo, Zenon
    <3> QED  BY <3>2 DEF m
  <2>5. \A k \in 1..n : k - 1 \in 0..(n - 1) /\ k - 1 + 1 = k
    OBVIOUS
  <2> QED  BY <2>4, <2>5
<1>11. n \in 1..n
  OBVIOUS
<1>12. /\ stream \in Seq(H!Bits)
       /\ At(stream, 0, begin[n]) /\ At(stream, Len(begin[n]), s[n])
       /\ At(stream, Len(begin[n]) + Len(s[n]), H!Flag)
  BY <1>1, <1>2, <1>11, ThreeStand
<1> HIDE DEF stream
<1>13. ASSUME NEW k \in 1..n
       PROVE  At(stream, 0, begin[k])
  <2>1. At(begin[n], 0, begin[k])
    BY <1>10, <1>11
  <2> QED  BY <1>2, <1>11, <1>12, <2>1, BeginsWith
<1>14. ASSUME NEW k \in 1..n
       PROVE  /\ Len(begin[k]) >= Len(noise) + size
              /\ At(stream, Len(begin[k]) - size, H!Flag)
  <2> DEFINE old == begin[k]
             i == Len(begin[k]) - size
  <2>1. old \in Seq(H!Bits) /\ At(stream, 0, old)
    BY <1>2, <1>13
  <2>2. Len(old) >= Len(noise) + size /\ At(old, i, H!Flag) /\ i \in Nat
    BY <1>1, <1>2, <1>7 DEF Ends
  <2> HIDE DEF old, i
  <2>4. At(stream, i, H!Flag)
    BY <1>1, <1>12, <2>1, <2>2, BeginsWith
  <2> QED  BY <2>2, <2>4 DEF old, i
<1>15. ASSUME NEW k \in 1..n
       PROVE  /\ At(stream, Len(begin[k]), s[k])
              /\ At(stream, Len(begin[k]) + Len(s[k]), H!Flag)
  <2>1. CASE k = n
    BY <1>12, <2>1
  <2>2. CASE k + 1 \in 1..n
    <3> DEFINE new == begin[k + 1]
               i == Len(begin[k])
               put == s[k]
    <3>1. /\ At(new, i, put) /\ At(new, i + Len(put), gap)
          /\ i \in Nat /\ put \in Seq(H!Bits) /\ new \in Seq(H!Bits)
      BY <1>2, <1>4, <2>2
    <3>2. At(stream, 0, new)
      BY <1>13, <2>2
    <3> HIDE DEF new, i, put
    <3>6. Len(put) \in Nat
      BY <3>1
    <3> DEFINE j == i + Len(put)
    <3>3. j \in Nat /\ j + 0 = j
      BY <3>1, <3>6
    <3>4. At(new, j, gap)
      BY <3>1
    <3> HIDE DEF j
    <3>5. At(gap, 0, H!Flag)
      OBVIOUS
    <3>7. At(new, j, H!Flag)
      BY <1>1, <3>1, <3>3, <3>4, <3>5, AtJoins
    <3>8. At(stream, i, put) /\ At(stream, j, H!Flag)
      BY <1>1, <1>12, <3>1, <3>2, <3>3, <3>7, BeginsWith
    <3> QED  BY <3>8 DEF i, j, put
  <2>3. k = n \/ k + 1 \in 1..n
    OBVIOUS
  <2> QED  BY <2>1, <2>2, <2>3
<1> QED  BY <1>12, <1>14, <1>15 DEF stream, size

\* In the stream of a trial each frame stands between two flags.
LEMMA StreamHolds ==
    ASSUME NEW t, Sending(t)
    PROVE  /\ H!Stream(t) \in Seq(H!Bits)
           /\ \A k \in 1..Len(t.frames) :
                 LET p == Len(H!Before(t, k))
                     s == H!Stuff(t.frames[k])
                 IN /\ p \in Nat /\ p >= Len(t.noise) + H!FlagLength
                    /\ At(H!Stream(t), p - H!FlagLength, H!Flag)
                    /\ At(H!Stream(t), p, s)
                    /\ At(H!Stream(t), p + Len(s), H!Flag)
<1> DEFINE n == Len(t.frames)
           begin == [k \in 1..n |-> H!Before(t, k)]
           s == [k \in 1..n |-> H!Stuff(t.frames[k])]
           stream == H!Stream(t)
           noise == t.noise
           gap == t.gap
<1>1. /\ n \in Nat /\ n > 0 /\ noise \in Seq(H!Bits) /\ gap \in Seq(H!Bits)
      /\ At(gap, 0, H!Flag) /\ At(gap, Len(gap) - H!FlagLength, H!Flag)
      /\ n \in 1..n /\ 1 \in 1..n
  BY DEF Sending
<1>2. begin \in [1..n -> Seq(H!Bits)]
  BY BeforeIs
<1>3. s \in [1..n -> Seq(H!Bits)]
  <2>1. \A k \in 1..n : t.frames[k] \in Seq(H!Bits)
    BY DEF Sending
  <2> QED  BY <2>1, StuffedIs
<1>4. begin[1] = noise \o H!Flag
  BY <1>1, BeforeIs
<1>5. \A k \in 1..n : k + 1 \in 1..n => begin[k + 1] = begin[k] \o s[k] \o gap
  BY BeforeIs DEF Sequel
<1>6. stream = begin[n] \o s[n] \o H!Flag
  <2>1. H!Last(t.frames) = t.frames[n]
    BY DEF H!Last
  <2> QED  BY <1>1, <2>1 DEF H!Stream
<1>7. /\ \A k \in 1..n : begin[k] = H!Before(t, k)
      /\ \A k \in 1..n : s[k] = H!Stuff(t.frames[k])
  OBVIOUS
<1> HIDE DEF begin, s, stream, noise, gap, n
<1>8. /\ stream \in Seq(H!Bits)
      /\ \A k \in 1..n :
            /\ Len(begin[k]) >= Len(noise) + H!FlagLength
            /\ At(stream, Len(begin[k]) - H!FlagLength, H!Flag)
            /\ At(stream, Len(begin[k]), s[k])
            /\ At(stream, Len(begin[k]) + Len(s[k]), H!Flag)
  BY <1>1, <1>2, <1>3, <1>4, <1>5, <1>6, FramesStand
<1>9. \A k \in 1..n : Len(begin[k]) \in Nat
  BY <1>2
<1> QED  BY <1>7, <1>8, <1>9 DEF n, stream, noise

\* What a receiver that is synchronised reads after the noise is what was sent.
LEMMA StreamIsRead ==
    ASSUME NEW stream \in Seq(H!Bits), NEW initial \in H!Bits,
           NEW history \in [1..TapB -> H!Bits], NEW g3ruh \in BOOLEAN, NEW first \in Nat,
           InTune(g3ruh, history, first),
           NEW line, line = IF g3ruh THEN H!Scramble(stream, history) ELSE stream,
           NEW levels, levels = H!ToLevels(line, initial)
    PROVE  /\ levels \in Seq(H!Bits)
           /\ \E b \in H!DecodedStreams(levels, g3ruh) : ReadFrom(b, first, stream)
<1> DEFINE b == IF g3ruh THEN H!Descramble(line) ELSE line
<1>1. line \in Seq(H!Bits) /\ Len(line) = Len(stream)
  BY DescrambleUndoes
<1>2. b \in Seq(H!Bits) /\ Len(b) = Len(stream)
  <2>1. \A i \in 1..Len(line) : H!Descramble(line)[i] \in H!Bits
    <3>1. \A i \in DOMAIN line : H!Descramble(line)[i] =
              H!Xor(line[i], H!Xor(H!Delayed(line, i, TapA), H!Delayed(line, i, TapB)))
      BY DEF H!Descramble
    <3>2. \A x, y : H!Xor(x, y) \in H!Bits
      BY DEF H!Xor, H!Bits
    <3> QED  BY <1>1, <3>1, <3>2
  <2>2. DOMAIN H!Descramble(line) = 1..Len(line)
    BY <1>1 DEF H!Descramble
  <2>3. H!Descramble(line) = [i \in 1..Len(line) |-> H!Descramble(line)[i]]
    BY <1>1 DEF H!Descramble
  <2> DEFINE d == H!Descramble(line)
  <2>4. Len(line) \in Nat /\ d \in [1..Len(line) -> H!Bits]
    BY <1>1, <2>1, <2>2, <2>3
  <2> HIDE DEF d
  <2>5. d \in Seq(H!Bits) /\ Len(d) = Len(line)
    BY <2>4, BitsAreSeq
  <2> QED  BY <1>1, <2>5 DEF d
<1>3. \A i \in 1..Len(stream) : i > first => b[i] = stream[i]
  <2>1. CASE ~g3ruh
    BY <2>1
  <2>2. CASE g3ruh
    <3>1. \A i \in 1..Len(stream) :
              i > TapB \/ (\A j \in 1..TapB : history[j] = 0)
              => H!Descramble(line)[i] = stream[i]
      BY <2>2, DescrambleUndoes
    <3>2. TapB \in Nat
      BY Taps
    <3> QED  BY <2>2, <3>1, <3>2 DEF InTune
  <2> QED  BY <2>1, <2>2
<1>4. levels \in Seq(H!Bits)
  BY <1>1, ToLevelsIs
<1>5. H!Nrzi(levels, initial) = line
  BY <1>1, NrziUndoes
<1>6. b \in H!DecodedStreams(levels, g3ruh)
  BY <1>5 DEF H!DecodedStreams
<1> HIDE DEF b
<1> QED  BY <1>2, <1>3, <1>4, <1>6 DEF ReadFrom

\* What stands in a stream after the noise stands in what is read.
LEMMA StandsAlike ==
    ASSUME NEW a \in Seq(H!Bits), NEW b \in Seq(H!Bits), NEW s \in Seq(H!Bits),
           NEW first \in Nat, NEW p \in Nat, p >= first, ReadFrom(b, first, a), At(a, p, s)
    PROVE  At(b, p, s)
<1>1. Len(a) \in Nat /\ Len(s) \in Nat
  OBVIOUS
<1>2. p + Len(s) <= Len(b) /\ \A j \in 1..Len(s) : a[p + j] = s[j]
  BY DEF At, ReadFrom
<1>3. ASSUME NEW j \in 1..Len(s)
      PROVE  b[p + j] = s[j]
  <2>1. p + j \in 1..Len(a) /\ p + j > first
    BY <1>1, <1>2 DEF ReadFrom
  <2> QED  BY <1>2, <2>1 DEF ReadFrom
<1> QED  BY <1>2, <1>3 DEF At

\* Both decoders find every intact frame that is sent between flags, and validated_spans
\* at its place: whatever was heard before the first flag, whatever level the line had,
\* whatever the other frames and whatever stands between the flag after one frame and the
\* flag before the next. A descrambler must have heard TapB bits before, or the scrambler
\* must have begun with zeros.
THEOREM FramesAlwaysFound ==
    ASSUME NEW t, Sending(t), t.initial \in H!Bits, t.history \in [1..TapB -> H!Bits],
           t.g3ruh \in BOOLEAN, t.g3ruh \in t.modes
    PROVE  H!FramesAreFound(t)
<1> DEFINE stream == H!Stream(t)
           first == Len(t.noise)
           levels == H!Sent(t)
<1>1. SUFFICES ASSUME H!Synchronised(t), NEW k \in 1..Len(t.frames)
               PROVE  LET start == Len(H!Before(t, k)) + 1
                          place == [start |-> start, end |-> start + Len(H!Stuff(t.frames[k])),
                                    frame |-> t.frames[k]]
                          written == H!Written(H!Sent(t))
                      IN /\ t.frames[k] \in H!DecodeAx25(written, t.modes)
                         /\ place \in H!ValidatedSpans(written, t.g3ruh)
  <2>1. DOMAIN t.frames = 1..Len(t.frames)
    BY DEF Sending
  <2> QED  BY <2>1 DEF H!FramesAreFound
<1> DEFINE f == t.frames[k]
           s == H!Stuff(f)
           p == Len(H!Before(t, k))
           place == [start |-> p + 1, end |-> p + 1 + Len(s), frame |-> f]
<1>2. /\ stream \in Seq(H!Bits) /\ first \in Nat /\ p \in Nat /\ p >= first + H!FlagLength
      /\ At(stream, p - H!FlagLength, H!Flag)
      /\ At(stream, p, s) /\ At(stream, p + Len(s), H!Flag)
  <2>1. first \in Nat
    BY DEF Sending
  <2> QED  BY <2>1, StreamHolds
<1>3. Sendable(f) /\ s \in Seq(H!Bits) /\ Len(s) \in Nat
  <2>1. Sendable(f)
    BY DEF Sending
  <2> QED  BY <2>1, StuffedIs DEF Sendable
<1>4. /\ levels \in Seq(H!Bits)
      /\ \E b \in H!DecodedStreams(levels, t.g3ruh) : ReadFrom(b, first, stream)
  <2> DEFINE history == t.history
             g3ruh == t.g3ruh
             initial == t.initial
             line == IF g3ruh THEN H!Scramble(stream, history) ELSE stream
  <2>1. levels = H!ToLevels(line, initial)
    BY DEF H!Sent
  <2>2. InTune(g3ruh, history, first)
    <3>1. DOMAIN history = 1..TapB
      OBVIOUS
    <3> QED  BY <1>1, <3>1 DEF H!Synchronised, InTune
  <2>3. initial \in H!Bits /\ history \in [1..TapB -> H!Bits] /\ g3ruh \in BOOLEAN
    OBVIOUS
  <2>4. line = IF g3ruh THEN H!Scramble(stream, history) ELSE stream
    OBVIOUS
  <2> HIDE DEF stream, first, levels, history, g3ruh, initial, line
  <2>5. /\ levels \in Seq(H!Bits)
        /\ \E b \in H!DecodedStreams(levels, g3ruh) : ReadFrom(b, first, stream)
    BY <1>2, <2>1, <2>2, <2>3, <2>4, StreamIsRead, Zenon
  <2> QED  BY <2>5 DEF g3ruh
<1> HIDE DEF stream, first, levels, s, p
<1>5. PICK b \in H!DecodedStreams(levels, t.g3ruh) : ReadFrom(b, first, stream)
  BY <1>4
<1>11. b \in Seq(H!Bits)
  BY <1>5 DEF ReadFrom
<1>6. /\ p >= H!FlagLength
      /\ At(b, p - H!FlagLength, H!Flag) /\ At(b, p, s) /\ At(b, p + Len(s), H!Flag)
  <2>1. H!Flag \in Seq(H!Bits) /\ H!FlagLength \in Nat
    BY FlagIs
  <2>2. /\ p - H!FlagLength \in Nat /\ p - H!FlagLength >= first
        /\ p >= first /\ p + Len(s) \in Nat /\ p + Len(s) >= first
    BY <1>2, <1>3, <2>1
  <2>3. At(b, p - H!FlagLength, H!Flag)
    BY <1>2, <1>5, <1>11, <2>1, <2>2, StandsAlike
  <2>4. At(b, p, s)
    BY <1>2, <1>3, <1>5, <1>11, <2>2, StandsAlike
  <2>5. At(b, p + Len(s), H!Flag)
    BY <1>2, <1>5, <1>11, <2>1, <2>2, StandsAlike
  <2> QED  BY <1>2, <2>1, <2>2, <2>3, <2>4, <2>5
<1>7. place \in H!Spans(b)
  <2>1. [start |-> p + 1, end |-> p + Len(H!Stuff(f)) + 1, frame |-> f] \in H!Spans(b)
    <3> HIDE DEF f
    <3> QED  BY <1>2, <1>3, <1>6, <1>11, FoundBetweenFlags DEF s
  <2>2. p + Len(s) + 1 = p + 1 + Len(s)
    BY <1>2, <1>3
  <2> QED  BY <2>1, <2>2 DEF s
<1>8. H!Written(b) = b /\ H!Written(levels) = levels
  BY <1>4, <1>11, ConcatEmptySeq DEF H!Written
<1>9. place \in H!ValidatedSpans(levels, t.g3ruh)
  <2> HIDE DEF place
  <2> QED  BY <1>5, <1>7, <1>8 DEF H!ValidatedSpans, H!SpansIn
<1>10. f \in H!DecodeAx25(levels, t.modes)
  <2>1. b \in H!FlippedStreams(H!Nrzi(levels, 0), t.g3ruh)
    BY <1>4, <1>5, SameStreams, ReceiversAssumption
  <2>2. place \in H!SpansIn(H!FlippedStreams(H!Nrzi(levels, 0), t.g3ruh)) /\ place.frame = f
    <3>1. place.frame = f
      OBVIOUS
    <3> HIDE DEF place
    <3> QED  BY <1>7, <1>8, <2>1, <3>1 DEF H!SpansIn
  <2> HIDE DEF place
  <2> QED  BY <2>2 DEF H!DecodeAx25
<1> QED  BY <1>8, <1>9, <1>10 DEF levels, p, s
-----------------------------------------------------------------------------
(* Soft decisions to bits *)

LEMMA StateFacts ==
    ASSUME NEW s \in V!States, NEW b \in {0, 1}
    PROVE  /\ High \in Nat /\ High > 0
           /\ V!Previous(s, b) \in V!States
           /\ V!Register(s, b) \in 0..(4 * High - 1)
BY ReceiversAssumption DEF V!ViterbiAssumption, V!States, V!Previous, V!Register

LEMMA AgreementIsInt ==
    ASSUME NEW t, NEW pair \in Int \X Int
    PROVE  V!Agreement(t, pair) \in Int
<1>1. \A g : V!Sign(t, g) \in Int
  BY DEF V!Sign
<1> QED  BY <1>1 DEF V!Agreement

LEMMA PathIsInt ==
    ASSUME NEW metric \in Metrics, NEW pair \in Int \X Int, NEW s \in V!States, NEW b \in {0, 1}
    PROVE  V!Path(metric, pair, s, b) \in Int
<1>1. metric[V!Previous(s, b)] \in Int
  BY StateFacts DEF Metrics
<1>2. V!Agreement(V!Register(s, b), pair) \in Int
  BY AgreementIsInt
<1> QED  BY <1>1, <1>2 DEF V!Path

\* No path into a state is better than the chosen one.
LEMMA ExtendedIsBest ==
    ASSUME NEW metric \in Metrics, NEW pair \in Int \X Int
    PROVE  /\ Extended(metric, pair) \in Metrics
           /\ \A s \in V!States : V!Choice(metric, pair, s) \in {0, 1}
           /\ \A s \in V!States, b \in {0, 1} :
                  V!Path(metric, pair, s, b) <= Extended(metric, pair)[s]
<1>1. \A s \in V!States : V!Choice(metric, pair, s) \in {0, 1}
  BY DEF V!Choice
<1>2. \A s \in V!States : Extended(metric, pair)[s] = V!Path(metric, pair, s, V!Choice(metric, pair, s))
  BY DEF Extended
<1>3. Extended(metric, pair) \in Metrics
  BY <1>1, PathIsInt DEF Extended, Metrics
<1>4. ASSUME NEW s \in V!States, NEW b \in {0, 1}
      PROVE  V!Path(metric, pair, s, b) <= V!Path(metric, pair, s, V!Choice(metric, pair, s))
  BY PathIsInt DEF V!Choice
<1> QED  BY <1>1, <1>2, <1>3, <1>4

LEMMA MetricUnfolds ==
    ASSUME NEW soft
    PROVE  V!Metric(soft) =
               (CHOOSE f : f = [i \in 0..Len(soft) |->
                   IF i = 0 THEN [state \in V!States |-> 0]
                   ELSE [state \in V!States |->
                            V!Path(f[i - 1], soft[i], state,
                                   V!Choice(f[i - 1], soft[i], state))]])[Len(soft)]
BY DEF V!Metric, V!Fold, V!Evaluated

LEMMA MetricIsLast ==
    ASSUME NEW soft \in Pairs, NEW f \in [0..Len(soft) -> Metrics],
           f[0] = [s \in V!States |-> 0],
           \A i \in 1..Len(soft) : f[i] = Extended(f[i - 1], soft[i])
    PROVE  V!Metric(soft) = f[Len(soft)]
<1> DEFINE n == Len(soft)
           zeros == [state \in V!States |-> 0]
           Eq(h) == h = [i \in 0..n |-> IF i = 0 THEN zeros ELSE Extended(h[i - 1], soft[i])]
           g == CHOOSE h : Eq(h)
<1>1. V!Metric(soft) = g[n]
  BY MetricUnfolds, Zenon DEF Extended
<1>2. n \in Nat
  BY DEF Pairs
<1>3. Eq(f)
  BY <1>2
<1>4. Eq(g)
  <2> HIDE DEF Eq
  <2> QED  BY <1>3
<1> HIDE DEF g
<1>5. g[0] = f[0]
  BY <1>2, <1>4
<1>6. ASSUME NEW i \in 1..n, g[i - 1] = f[i - 1]
      PROVE  g[i] = f[i]
  <2>1. i \in 0..n /\ i # 0
    BY <1>2
  <2>2. g[i] = Extended(g[i - 1], soft[i])
    BY <1>4, <2>1
  <2> QED  BY <1>6, <2>2
<1> DEFINE S == {i \in 0..n : g[i] = f[i]}
<1>7. 0 \in S
  BY <1>2, <1>5
<1>8. \A i \in 1..n : i - 1 \in S => i \in S
  BY <1>6
<1> HIDE DEF S, n
<1>9. \A i \in 0..n : i \in S
  BY <1>2, <1>7, <1>8, UpTo, Zenon
<1>10. n \in S
  BY <1>2, <1>9
<1> QED  BY <1>1, <1>10 DEF S, n

\* The metrics after each pair.
LEMMA MetricSteps ==
    ASSUME NEW soft \in Pairs
    PROVE  /\ V!Metric(SubSeq(soft, 1, 0)) = [s \in V!States |-> 0]
           /\ \A k \in 1..Len(soft) :
                  V!Metric(SubSeq(soft, 1, k)) = Extended(V!Metric(SubSeq(soft, 1, k - 1)), soft[k])
           /\ \A k \in 0..Len(soft) : V!Metric(SubSeq(soft, 1, k)) \in Metrics
           /\ V!Metric(SubSeq(soft, 1, Len(soft))) = V!Metric(soft)
<1> DEFINE n == Len(soft)
           zeros == [s \in V!States |-> 0]
           step == [i \in 1..n |-> [m \in Metrics |-> Extended(m, soft[i])]]
<1>1. n \in Nat /\ zeros \in Metrics /\ \A i \in 1..n : soft[i] \in Int \X Int
  BY DEF Pairs, Metrics
<1>2. step \in [1..n -> [Metrics -> Metrics]]
  BY <1>1, ExtendedIsBest
<1>3. PICK f \in [0..n -> Metrics] : Loop(f, n, zeros, step)
  <2> HIDE DEF n, zeros, step
  <2> QED  BY <1>1, <1>2, Rounds, Zenon
<1>4. f[0] = zeros /\ \A i \in 1..n : f[i] = Extended(f[i - 1], soft[i])
  <2>1. f[0] = zeros
    BY <1>3 DEF Loop
  <2>2. ASSUME NEW i \in 1..n
        PROVE  f[i] = Extended(f[i - 1], soft[i])
    <3>1. i - 1 \in 0..n
      BY <1>1
    <3>3. f[i - 1] \in Metrics
      BY <1>3, <3>1
    <3>2. f[i] = step[i][f[i - 1]]
      BY <1>3 DEF Loop
    <3> QED  BY <3>2, <3>3
  <2> QED  BY <2>1, <2>2
<1>5. ASSUME NEW k \in 0..n
      PROVE  V!Metric(SubSeq(soft, 1, k)) = f[k]
  <2> DEFINE head == SubSeq(soft, 1, k)
             h == [i \in 0..k |-> f[i]]
  <2>1. head \in Pairs /\ Len(head) = k /\ \A i \in 1..k : head[i] = soft[i]
    BY <1>1 DEF Pairs
  <2>2. k \in Nat /\ h \in [0..k -> Metrics] /\ h[0] = f[0] /\ h[k] = f[k]
    BY <1>1
  <2>3. \A i \in 1..k : i \in 1..n /\ h[i] = f[i] /\ h[i - 1] = f[i - 1]
    BY <1>1
  <2> HIDE DEF head, h, n
  <2>4. \A i \in 1..k : h[i] = Extended(h[i - 1], head[i])
    BY <1>4, <2>1, <2>3
  <2>5. V!Metric(head) = h[k]
    BY <1>4, <2>1, <2>2, <2>4, MetricIsLast
  <2> QED  BY <2>2, <2>5 DEF head
<1>6. SubSeq(soft, 1, n) = soft
  BY DEF Pairs
<1>7. 0 \in 0..n /\ n \in 0..n /\ \A k \in 1..n : k \in 0..n /\ k - 1 \in 0..n
  BY <1>1
<1> HIDE DEF n, step
<1>8. /\ V!Metric(SubSeq(soft, 1, 0)) = zeros
      /\ \A k \in 1..n :
             V!Metric(SubSeq(soft, 1, k)) = Extended(V!Metric(SubSeq(soft, 1, k - 1)), soft[k])
      /\ \A k \in 0..n : V!Metric(SubSeq(soft, 1, k)) \in Metrics
  BY <1>3, <1>4, <1>5, <1>7
<1> QED  BY <1>6, <1>8 DEF n

LEMMA DivisionIs ==
    ASSUME NEW m \in Nat, m > 0, NEW x \in 0..(2 * m - 1)
    PROVE  /\ x % m = IF x < m THEN x ELSE x - m
           /\ x \div m = IF x < m THEN 0 ELSE 1
<1> DEFINE q == x \div m
           r == x % m
<1>1. q \in Int /\ r \in Int /\ x = m * q + r /\ 0 <= r /\ r < m
  OBVIOUS
<1> HIDE DEF q, r
<1>2. q >= 0
  <2>1. SUFFICES ASSUME q <= -1 PROVE FALSE
    BY <1>1
  <2>2. m * q <= -m
    BY <1>1, <2>1
  <2> QED  BY <1>1, <2>2
<1>3. q <= 1
  <2>1. SUFFICES ASSUME q >= 2 PROVE FALSE
    BY <1>1
  <2>2. m * q >= m * 2
    BY <1>1, <2>1
  <2> QED  BY <1>1, <2>2
<1>4. q = 0 \/ q = 1
  BY <1>1, <1>2, <1>3
<1>5. x = IF q = 0 THEN r ELSE m + r
  BY <1>1, <1>4
<1> QED  BY <1>1, <1>4, <1>5 DEF q, r

\* The register after one more bit, by the state it leaves and the bit that left it.
LEMMA RegisterIs ==
    ASSUME NEW r \in 0..(4 * High - 1), NEW bit \in {0, 1}
    PROVE  LET next == (r * 2 + bit) % (4 * High)
           IN \E old \in {0, 1} :
                 /\ next \in 0..(4 * High - 1)
                 /\ next % (2 * High) \in V!States
                 /\ next = V!Register(next % (2 * High), old)
                 /\ r % (2 * High) = V!Previous(next % (2 * High), old)
                 /\ r % (2 * High) \in V!States
<1> DEFINE n2 == 2 * High
           n4 == 4 * High
           x == r * 2 + bit
           next == x % n4
           state == next % n2
           before == r % n2
           old == IF next < n2 THEN 0 ELSE 1
<1>1. High \in Nat /\ High > 0
  BY ReceiversAssumption DEF V!ViterbiAssumption
<1>2. next = IF x < n4 THEN x ELSE x - n4
  BY <1>1, DivisionIs
<1>3. before = IF r < n2 THEN r ELSE r - n2
  BY <1>1, DivisionIs
<1> HIDE DEF next, before
<1>4. next \in 0..(n4 - 1)
  BY <1>1, <1>2
<1>5. state = IF next < n2 THEN next ELSE next - n2
  BY <1>1, <1>4, DivisionIs
<1> HIDE DEF state
<1>6. state \in V!States /\ before \in V!States
  BY <1>1, <1>3, <1>4, <1>5 DEF V!States
<1>7. next = V!Register(state, old)
  BY <1>1, <1>4, <1>5 DEF V!Register
<1>8. before = V!Previous(state, old)
  <2>1. CASE next < n2
    <3>1. old * High = 0
      BY <1>1, <2>1
    <3> QED  BY <1>1, <1>2, <1>3, <1>5, <2>1, <3>1 DEF V!Previous
  <2>2. CASE ~(next < n2)
    <3>1. old * High = High
      BY <1>1, <2>2
    <3> QED  BY <1>1, <1>2, <1>3, <1>5, <2>2, <3>1 DEF V!Previous
  <2> QED  BY <2>1, <2>2
<1>9. old \in {0, 1}
  OBVIOUS
<1> HIDE DEF old
<1> QED  BY <1>4, <1>6, <1>7, <1>8, <1>9 DEF next, state, before

\* The register that the next bit makes of a path's state and the one before it.
LEMMA RegisterOfPath ==
    ASSUME NEW r \in 0..(4 * High - 1), NEW s \in V!States, NEW old \in {0, 1},
           r % (2 * High) = V!Previous(s, old)
    PROVE  /\ (r * 2 + (s % 2)) % (4 * High) = V!Register(s, old)
           /\ V!Register(s, old) % (2 * High) = s
<1> DEFINE n2 == 2 * High
           n4 == 4 * High
           bit == s % 2
           x == r * 2 + bit
           before == r % n2
<1>1. High \in Nat /\ High > 0 /\ s \in 0..(n2 - 1)
  BY ReceiversAssumption DEF V!ViterbiAssumption, V!States
<1>2. bit \in {0, 1} /\ s \div 2 \in Nat /\ s = 2 * (s \div 2) + bit
  BY <1>1
<1>3. before = IF r < n2 THEN r ELSE r - n2
  BY <1>1, DivisionIs
<1> HIDE DEF bit, before
<1>4. x \in 0..(2 * n4 - 1)
  BY <1>1, <1>2
<1>5. x % n4 = IF x < n4 THEN x ELSE x - n4
  BY <1>1, <1>4, DivisionIs
<1>6. old * High = IF old = 0 THEN 0 ELSE High
  BY <1>1
<1>7. before = s \div 2 + old * High
  BY DEF before, V!Previous
<1>8. x % n4 = V!Register(s, old)
  BY <1>1, <1>2, <1>3, <1>5, <1>6, <1>7 DEF V!Register
<1>9. V!Register(s, old) \in 0..(2 * n2 - 1)
  BY StateFacts
<1>10. V!Register(s, old) % n2 = s
  BY <1>1, <1>9, DivisionIs DEF V!Register
<1> QED  BY <1>8, <1>10 DEF bit
-----------------------------------------------------------------------------
LEMMA FinalIsBest ==
    ASSUME NEW metric \in Metrics
    PROVE  /\ V!Final(metric) \in V!States
           /\ \A r \in V!States : metric[r] <= metric[V!Final(metric)]
<1> DEFINE n == 2 * High - 1
           Best(k, s) == \A r \in 0..k : metric[r] <= metric[s] /\ (r < s => metric[r] < metric[s])
           S == {k \in 0..n : \E s \in 0..k : Best(k, s)}
<1>1. n \in Nat /\ V!States = 0..n
  BY ReceiversAssumption DEF V!ViterbiAssumption, V!States
<1>2. \A r \in 0..n : metric[r] \in Int
  BY <1>1 DEF Metrics
<1> HIDE DEF n
<1>3. 0 \in S
  <2>1. Best(0, 0)
    BY <1>1, <1>2
  <2> HIDE DEF Best
  <2> QED  BY <1>1, <2>1
<1>4. ASSUME NEW k \in 1..n, k - 1 \in S
      PROVE  k \in S
  <2>1. PICK s \in 0..(k - 1) : Best(k - 1, s)
    BY <1>4
  <2>2. /\ metric[s] \in Int /\ metric[k] \in Int /\ s < k
        /\ \A r \in 0..k : r \in 0..(k - 1) \/ r = k
    BY <1>1, <1>2
  <2>3. CASE metric[k] > metric[s]
    <3>1. Best(k, k)
      BY <1>1, <1>2, <2>1, <2>2, <2>3
    <3> HIDE DEF Best
    <3> QED  BY <1>1, <3>1
  <2>4. CASE metric[k] <= metric[s]
    <3>1. Best(k, s)
      BY <1>1, <1>2, <2>1, <2>2, <2>4
    <3> HIDE DEF Best
    <3> QED  BY <1>1, <3>1
  <2> QED  BY <2>2, <2>3, <2>4
<1>5. n \in S
  <2> HIDE DEF S
  <2>1. \A k \in 1..n : k - 1 \in S => k \in S
    BY <1>4
  <2>2. \A k \in 0..n : k \in S
    BY <1>1, <1>3, <2>1, UpTo, Zenon
  <2> QED  BY <1>1, <2>2
<1>6. \E s \in V!States : \A r \in V!States : metric[r] <= metric[s] /\ (r < s => metric[r] < metric[s])
  BY <1>1, <1>5
<1> QED  BY <1>6 DEF V!Final

\* The way back from the best state.
LEMMA DecodeIs ==
    ASSUME NEW soft \in Pairs
    PROVE  \E state \in [0..Len(soft) -> V!States] :
               /\ state[Len(soft)] = V!Final(V!Metric(soft))
               /\ \A i \in 1..Len(soft) :
                     state[i - 1] = V!Previous(state[i], V!Decision(soft, i, state[i]))
               /\ V!Decode(soft) = [i \in 1..Len(soft) |-> state[i] % 2]
<1> DEFINE n == Len(soft)
           last == V!Final(V!Metric(soft))
           step == [j \in 1..n |-> [s \in V!States |->
                       V!Previous(s, V!Decision(soft, n - j + 1, s))]]
           Eq(h) == h = [i \in 0..n |->
                           IF i = n THEN last
                           ELSE V!Previous(h[i + 1], V!Decision(soft, i + 1, h[i + 1]))]
           state == CHOOSE h : Eq(h)
<1>1. n \in Nat /\ DOMAIN soft = 1..n
  BY DEF Pairs
<1>2. last \in V!States
  BY MetricSteps, FinalIsBest, <1>1
<1>3. \A i \in 1..n, s \in V!States : V!Decision(soft, i, s) \in {0, 1}
  BY DEF V!Decision, V!Choice
<1>4. \A i \in 1..n, s \in V!States : V!Previous(s, V!Decision(soft, i, s)) \in V!States
  BY <1>3, StateFacts
<1>5. step \in [1..n -> [V!States -> V!States]]
  BY <1>1, <1>4
<1>6. PICK f \in [0..n -> V!States] : Loop(f, n, last, step)
  <2> HIDE DEF n, last, step
  <2> QED  BY <1>1, <1>2, <1>5, Rounds, Zenon
<1>7. Eq([i \in 0..n |-> f[n - i]])
  <2>1. ASSUME NEW i \in 0..n
        PROVE  f[n - i] = IF i = n THEN last
                          ELSE V!Previous(f[n - (i + 1)], V!Decision(soft, i + 1, f[n - (i + 1)]))
    <3>1. CASE i = n
      BY <1>1, <1>6, <3>1 DEF Loop
    <3>2. CASE i # n
      <4> DEFINE j == n - i
      <4>1. j \in 1..n /\ n - (i + 1) = j - 1 /\ i + 1 = n - j + 1 /\ j - 1 \in 0..n
        <5> HIDE DEF n
        <5> QED  BY <1>1, <3>2
      <4>2. f[j] = step[j][f[j - 1]] /\ f[j - 1] \in V!States
        BY <1>6, <4>1 DEF Loop
      <4> QED  BY <3>2, <4>1, <4>2
    <3> QED  BY <3>1, <3>2
  <2> HIDE DEF n, last
  <2>2. \A i \in 0..n : i # n => i + 1 \in 0..n
    BY <1>1
  <2> QED  BY <2>1, <2>2
<1>8. Eq(state)
  <2> HIDE DEF Eq
  <2> QED  BY <1>7
<1>9. V!Decode(soft) = [i \in DOMAIN soft |-> state[i] % 2] \o <<>>
  BY DEF V!Decode, V!Written
<1> HIDE DEF n, state, last, step
<1>10. state[n] = last
  BY <1>1, <1>8
<1>11. ASSUME NEW i \in 1..n
       PROVE  state[i - 1] = V!Previous(state[i], V!Decision(soft, i, state[i]))
  <2>1. i - 1 \in 0..n /\ i - 1 # n /\ (i - 1) + 1 = i
    BY <1>1
  <2> QED  BY <1>8, <2>1
<1>12. \A k \in 0..n : state[n - k] \in V!States
  <2> DEFINE S == {k \in 0..n : state[n - k] \in V!States}
  <2>1. 0 \in S
    BY <1>1, <1>2, <1>10
  <2>2. ASSUME NEW k \in 1..n, k - 1 \in S
        PROVE  k \in S
    <3>1. n - (k - 1) \in 1..n /\ n - k = (n - (k - 1)) - 1 /\ k \in 0..n
      BY <1>1
    <3>2. state[n - (k - 1)] \in V!States
      BY <2>2
    <3> QED  BY <1>4, <1>11, <3>1, <3>2
  <2>3. \A k \in 1..n : k - 1 \in S => k \in S
    BY <2>2
  <2> HIDE DEF S
  <2>4. \A k \in 0..n : k \in S
    BY <1>1, <2>1, <2>3, UpTo, Zenon
  <2> QED  BY <2>4 DEF S
<1>13. state \in [0..n -> V!States]
  <2>1. ASSUME NEW i \in 0..n
        PROVE  state[i] \in V!States
    <3>1. n - i \in 0..n /\ n - (n - i) = i
      BY <1>1
    <3> QED  BY <1>12, <3>1
  <2> QED  BY <1>8, <2>1
<1>14. V!Decode(soft) = [i \in 1..n |-> state[i] % 2]
  <2> DEFINE bits == [i \in 1..n |-> state[i] % 2]
  <2>1. \A i \in 1..n : state[i] % 2 \in Int
    <3>1. \A s \in V!States : s \in Nat
      BY StateFacts DEF V!States
    <3> QED  BY <1>1, <1>13, <3>1
  <2>2. bits \in Seq(Int)
    BY <1>1, <2>1
  <2>3. V!Decode(soft) = bits \o <<>>
    BY <1>1, <1>9
  <2> HIDE DEF bits
  <2> QED  BY <2>2, <2>3 DEF bits
<1> QED  BY <1>10, <1>11, <1>13, <1>14 DEF last, n
-----------------------------------------------------------------------------
LEMMA RegistersAre ==
    ASSUME NEW n \in Nat, NEW bits \in [1..n -> {0, 1}], NEW state \in V!States
    PROVE  Shifted(V!Registers(bits, state), n, bits, state)
<1> DEFINE T == 0..(4 * High - 1)
           next(r, bit) == (r * 2 + bit) % (4 * High)
           step == [i \in 1..n |-> [r \in T |-> next(r, bits[i])]]
           Eq(h) == h = [i \in 0..n |-> IF i = 0 THEN state ELSE next(h[i - 1], bits[i])]
           register == CHOOSE h : Eq(h)
<1>1. V!Registers(bits, state) = register
  <2>1. Len(bits) = n
    BY BitsAreSeq
  <2> QED  BY <2>1, Zenon DEF V!Registers
<1>2. state \in T
  BY ReceiversAssumption DEF V!ViterbiAssumption, V!States
<1>3. \A r \in T, bit \in {0, 1} : next(r, bit) \in T
  BY RegisterIs
<1> HIDE DEF T, next
<1>4. step \in [1..n -> [T -> T]]
  BY <1>3
<1>5. PICK f \in [0..n -> T] : Loop(f, n, state, step)
  <2> HIDE DEF step
  <2> QED  BY <1>2, <1>4, Rounds, Zenon
<1>6. Eq(f)
  <2>1. \A i \in 0..n : i # 0 => i \in 1..n /\ i - 1 \in 0..n
    OBVIOUS
  <2> QED  BY <1>5, <2>1 DEF Loop
<1>7. Eq(register)
  <2> HIDE DEF Eq
  <2> QED  BY <1>6
<1> HIDE DEF register
<1>8. register[0] = state /\ \A i \in 1..n : register[i] = next(register[i - 1], bits[i])
  BY <1>7
<1>9. \A i \in 0..n : register[i] \in T
  <2> DEFINE S == {i \in 0..n : register[i] \in T}
  <2>1. 0 \in S
    BY <1>2, <1>8
  <2>2. \A i \in 1..n : i - 1 \in S => i \in S
    BY <1>3, <1>8
  <2> HIDE DEF S
  <2>3. \A i \in 0..n : i \in S
    BY <2>1, <2>2, UpTo, Zenon
  <2> QED  BY <2>3 DEF S
<1>10. register \in [0..n -> T]
  BY <1>7, <1>9
<1> QED  BY <1>1, <1>8, <1>10 DEF T, next, Shifted

LEMMA LikelihoodUnfolds ==
    ASSUME NEW bits, NEW state, NEW soft
    PROVE  LET index == [i \in DOMAIN soft |-> i]
           IN V!Likelihood(bits, state, soft) =
                  (CHOOSE f : f = [i \in 0..Len(index) |->
                      IF i = 0 THEN 0
                      ELSE f[i - 1] + V!Agreement(V!Registers(bits, state)[index[i]],
                                                  soft[index[i]])])[Len(index)]
BY DEF V!Likelihood, V!Fold

\* How well what was sent agrees so far.
LEMMA LikelihoodIs ==
    ASSUME NEW soft \in Pairs, NEW bits \in [1..Len(soft) -> {0, 1}], NEW state \in V!States
    PROVE  \E sum \in [0..Len(soft) -> Int] :
               /\ sum[0] = 0
               /\ \A i \in 1..Len(soft) :
                     sum[i] = sum[i - 1] + V!Agreement(V!Registers(bits, state)[i], soft[i])
               /\ V!Likelihood(bits, state, soft) = sum[Len(soft)]
<1> DEFINE n == Len(soft)
           index == [i \in DOMAIN soft |-> i]
           gain(i) == V!Agreement(V!Registers(bits, state)[i], soft[i])
           step == [i \in 1..n |-> [x \in Int |-> x + gain(i)]]
           Eq(h) == h = [i \in 0..n |-> IF i = 0 THEN 0 ELSE h[i - 1] + gain(index[i])]
           sum == CHOOSE h : Eq(h)
<1>1. n \in Nat /\ DOMAIN soft = 1..n /\ \A i \in 1..n : soft[i] \in Int \X Int
  BY DEF Pairs
<1>2. index \in [1..n -> Nat] /\ \A i \in 1..n : index[i] = i
  BY <1>1
<1>3. Len(index) = n
  <2> HIDE DEF n, index
  <2> QED  BY <1>1, <1>2, BitsAreSeq
<1>4. V!Likelihood(bits, state, soft) = sum[n]
  <2>1. V!Likelihood(bits, state, soft) =
            (CHOOSE f : f = [i \in 0..Len(index) |->
                   IF i = 0 THEN 0
                   ELSE f[i - 1] + V!Agreement(V!Registers(bits, state)[index[i]],
                                               soft[index[i]])])[Len(index)]
    BY LikelihoodUnfolds, Zenon
  <2> HIDE DEF index, n
  <2> QED  BY <1>3, <2>1, Zenon
<1> HIDE DEF index, n
<1>5. \A i \in 1..n : gain(i) \in Int
  BY <1>1, AgreementIsInt
<1> HIDE DEF gain
<1>6. step \in [1..n -> [Int -> Int]]
  BY <1>5
<1>7. PICK f \in [0..n -> Int] : Loop(f, n, 0, step)
  <2>1. 0 \in Int
    OBVIOUS
  <2> HIDE DEF step
  <2> QED  BY <1>1, <1>6, <2>1, Rounds, Zenon
<1>8. Eq(f)
  <2>1. \A i \in 0..n : i # 0 => i \in 1..n /\ i - 1 \in 0..n
    BY <1>1
  <2> QED  BY <1>2, <1>7, <2>1 DEF Loop
<1>9. Eq(sum)
  <2> HIDE DEF Eq
  <2> QED  BY <1>8
<1> HIDE DEF sum
<1>10. sum[0] = 0 /\ \A i \in 1..n : sum[i] = sum[i - 1] + gain(i)
  <2>1. 0 \in 0..n /\ \A i \in 1..n : i \in 0..n /\ i # 0
    BY <1>1
  <2> QED  BY <1>2, <1>9, <2>1
<1>11. \A i \in 0..n : sum[i] \in Int
  <2> DEFINE S == {i \in 0..n : sum[i] \in Int}
  <2>1. 0 \in S
    BY <1>1, <1>10
  <2>2. \A i \in 1..n : i \in 0..n
    BY <1>1
  <2>4. \A i \in 1..n : i - 1 \in S => i \in S
    BY <1>5, <1>10, <2>2
  <2> HIDE DEF S
  <2>3. \A i \in 0..n : i \in S
    BY <1>1, <2>1, <2>4, UpTo, Zenon
  <2> QED  BY <2>3 DEF S
<1>12. sum \in [0..n -> Int]
  BY <1>9, <1>11
<1> QED  BY <1>4, <1>10, <1>12 DEF n, gain
-----------------------------------------------------------------------------
\* No bits, begun in no state, agree better than the metric of the state they end in.
LEMMA MetricBounds ==
    ASSUME NEW soft \in Pairs, NEW bits \in [1..Len(soft) -> {0, 1}], NEW state \in V!States
    PROVE  \E s \in V!States : V!Likelihood(bits, state, soft) <= V!Metric(soft)[s]
<1> DEFINE n == Len(soft)
           register == V!Registers(bits, state)
           metric(k) == V!Metric(SubSeq(soft, 1, k))
           at(i) == register[i] % (2 * High)
<1>1. n \in Nat /\ \A i \in 1..n : soft[i] \in Int \X Int
  BY DEF Pairs
<1>2. /\ register \in [0..n -> 0..(4 * High - 1)] /\ register[0] = state
      /\ \A i \in 1..n : register[i] = (register[i - 1] * 2 + bits[i]) % (4 * High)
  <2>1. Shifted(register, n, bits, state)
    <3>1. bits \in [1..n -> {0, 1}]
      OBVIOUS
    <3> HIDE DEF n
    <3> QED  BY <1>1, <3>1, RegistersAre
  <2> HIDE DEF n, register
  <2> QED  BY <2>1 DEF Shifted
<1>3. PICK sum \in [0..n -> Int] :
          /\ sum[0] = 0
          /\ \A i \in 1..n : sum[i] = sum[i - 1] + V!Agreement(register[i], soft[i])
          /\ V!Likelihood(bits, state, soft) = sum[n]
  BY LikelihoodIs
<1>4. /\ metric(0) = [s \in V!States |-> 0]
      /\ \A k \in 1..n : metric(k) = Extended(metric(k - 1), soft[k])
      /\ \A k \in 0..n : metric(k) \in Metrics
      /\ metric(n) = V!Metric(soft)
  BY MetricSteps
<1>5. \A i \in 0..n : at(i) \in V!States
  <2>1. 2 * High \in Nat /\ 2 * High > 0
    BY ReceiversAssumption DEF V!ViterbiAssumption
  <2>2. \A r \in 0..(4 * High - 1) : r % (2 * High) \in 0..(2 * High - 1)
    BY <2>1
  <2> QED  BY <1>2, <2>2 DEF V!States
<1> HIDE DEF n, register, metric
<1> DEFINE S == {i \in 0..n : sum[i] <= metric(i)[at(i)]}
<1>6. 0 \in S
  <2>1. metric(0)[at(0)] = 0
    BY <1>1, <1>4, <1>5
  <2> QED  BY <1>1, <1>3, <2>1
<1>7. ASSUME NEW i \in 1..n, i - 1 \in S
      PROVE  i \in S
  <2>1. i - 1 \in 0..n /\ i \in 0..n /\ bits[i] \in {0, 1}
    BY <1>1 DEF n
  <2>2. register[i - 1] \in 0..(4 * High - 1)
    BY <1>2, <2>1
  <2>3. PICK old \in {0, 1} :
            /\ register[i] = V!Register(at(i), old)
            /\ at(i - 1) = V!Previous(at(i), old)
    BY <1>2, <2>1, <2>2, RegisterIs
  <2> HIDE DEF at
  <2>4. metric(i - 1) \in Metrics /\ metric(i) \in Metrics /\ at(i) \in V!States
    BY <1>4, <1>5, <2>1
  <2>5. V!Path(metric(i - 1), soft[i], at(i), old) <= metric(i)[at(i)]
    BY <1>1, <1>4, <2>4, ExtendedIsBest
  <2>6. V!Path(metric(i - 1), soft[i], at(i), old)
            = metric(i - 1)[at(i - 1)] + V!Agreement(register[i], soft[i])
    BY <2>3 DEF V!Path
  <2>7. /\ sum[i] = sum[i - 1] + V!Agreement(register[i], soft[i])
        /\ sum[i - 1] <= metric(i - 1)[at(i - 1)]
    BY <1>3, <1>7
  <2>8. /\ sum[i - 1] \in Int /\ V!Agreement(register[i], soft[i]) \in Int
        /\ metric(i - 1)[at(i - 1)] \in Int /\ metric(i)[at(i)] \in Int
    <3>1. at(i - 1) \in V!States
      BY <1>5, <2>1
    <3> QED  BY <1>1, <1>3, <2>1, <2>4, <3>1, AgreementIsInt DEF Metrics
  <2>9. sum[i] <= metric(i)[at(i)]
    BY <2>5, <2>6, <2>7, <2>8
  <2> QED  BY <2>1, <2>9
<1>8. sum[n] <= metric(n)[at(n)]
  <2>1. \A i \in 1..n : i - 1 \in S => i \in S
    BY <1>7
  <2> HIDE DEF S
  <2>2. \A i \in 0..n : i \in S
    BY <1>1, <1>6, <2>1, UpTo, Zenon
  <2>3. n \in S
    BY <1>1, <2>2
  <2> QED  BY <2>3 DEF S
<1>9. at(n) \in V!States
  BY <1>1, <1>5
<1> HIDE DEF at
<1> QED  BY <1>3, <1>4, <1>8, <1>9 DEF n

\* The decoded bits, begun where the way back ends, agree as well as the best metric.
LEMMA DecodedAttains ==
    ASSUME NEW soft \in Pairs
    PROVE  /\ V!Decode(soft) \in [1..Len(soft) -> {0, 1}]
           /\ \E start \in V!States :
                 V!Likelihood(V!Decode(soft), start, soft)
                     = V!Metric(soft)[V!Final(V!Metric(soft))]
<1> DEFINE n == Len(soft)
           bits == V!Decode(soft)
           metric(k) == V!Metric(SubSeq(soft, 1, k))
<1>1. n \in Nat /\ \A i \in 1..n : soft[i] \in Int \X Int
  BY DEF Pairs
<1>2. PICK state \in [0..n -> V!States] :
          /\ state[n] = V!Final(V!Metric(soft))
          /\ \A i \in 1..n : state[i - 1] = V!Previous(state[i], V!Decision(soft, i, state[i]))
          /\ bits = [i \in 1..n |-> state[i] % 2]
  BY DecodeIs
<1>3. /\ metric(0) = [s \in V!States |-> 0]
      /\ \A k \in 1..n : metric(k) = Extended(metric(k - 1), soft[k])
      /\ \A k \in 0..n : metric(k) \in Metrics
      /\ metric(n) = V!Metric(soft)
  BY MetricSteps
<1>4. \A i \in 1..n, s \in V!States :
          V!Decision(soft, i, s) = V!Choice(metric(i - 1), soft[i], s)
  BY DEF V!Decision
<1> HIDE DEF n, bits, metric
<1>5. bits \in [1..n -> {0, 1}]
  <2>1. \A s \in V!States : s \in Nat /\ s % 2 \in {0, 1}
    BY StateFacts DEF V!States
  <2>2. \A i \in 1..n : state[i] \in V!States
    BY <1>1
  <2> QED  BY <1>2, <2>1, <2>2
<1>6. state[0] \in V!States
  BY <1>1
<1> DEFINE register == V!Registers(bits, state[0])
<1>7. /\ register \in [0..n -> 0..(4 * High - 1)] /\ register[0] = state[0]
      /\ \A i \in 1..n : register[i] = (register[i - 1] * 2 + bits[i]) % (4 * High)
  <2>1. Shifted(register, n, bits, state[0])
    BY <1>1, <1>5, <1>6, RegistersAre
  <2> HIDE DEF register
  <2> QED  BY <2>1 DEF Shifted
<1>8. PICK sum \in [0..n -> Int] :
          /\ sum[0] = 0
          /\ \A i \in 1..n : sum[i] = sum[i - 1] + V!Agreement(register[i], soft[i])
          /\ V!Likelihood(bits, state[0], soft) = sum[n]
  BY <1>5, <1>6, LikelihoodIs DEF n
<1> HIDE DEF register
<1> DEFINE S == {i \in 0..n : /\ register[i] % (2 * High) = state[i]
                              /\ sum[i] = metric(i)[state[i]]}
<1>9. 0 \in S
  <2>1. state[0] % (2 * High) = state[0]
    <3>1. \A s \in V!States : s \in 0..(2 * (2 * High) - 1) /\ s < 2 * High
      BY ReceiversAssumption DEF V!ViterbiAssumption, V!States
    <3>2. 2 * High \in Nat /\ 2 * High > 0
      BY ReceiversAssumption DEF V!ViterbiAssumption
    <3> QED  BY <1>6, <3>1, <3>2, DivisionIs
  <2>2. metric(0)[state[0]] = 0
    BY <1>3, <1>6
  <2> QED  BY <1>1, <1>7, <1>8, <2>1, <2>2
<1>10. ASSUME NEW i \in 1..n, i - 1 \in S
       PROVE  i \in S
  <2> DEFINE s == state[i]
             old == V!Choice(metric(i - 1), soft[i], s)
  <2>1. i - 1 \in 0..n /\ i \in 0..n /\ s \in V!States
    BY <1>1
  <2>2. old \in {0, 1}
    BY DEF V!Choice
  <2>3. /\ state[i - 1] = V!Previous(s, old)
        /\ bits[i] = s % 2
    BY <1>2, <1>4, <2>1
  <2>4. /\ register[i - 1] \in 0..(4 * High - 1)
        /\ register[i - 1] % (2 * High) = V!Previous(s, old)
        /\ register[i] = (register[i - 1] * 2 + (s % 2)) % (4 * High)
    BY <1>7, <1>10, <2>1, <2>3
  <2>5. metric(i)[s] = V!Path(metric(i - 1), soft[i], s, old)
    BY <1>3, <2>1 DEF Extended
  <2> HIDE DEF s, old
  <2>6. register[i] = V!Register(s, old) /\ register[i] % (2 * High) = s
    BY <2>1, <2>2, <2>4, RegisterOfPath
  <2>7. sum[i] = metric(i - 1)[V!Previous(s, old)] + V!Agreement(V!Register(s, old), soft[i])
    BY <1>8, <1>10, <2>3, <2>6
  <2>8. sum[i] = metric(i)[s]
    BY <2>5, <2>7 DEF V!Path
  <2> QED  BY <2>1, <2>6, <2>8 DEF s
<1>11. sum[n] = metric(n)[state[n]]
  <2>1. \A i \in 1..n : i - 1 \in S => i \in S
    BY <1>10
  <2> HIDE DEF S
  <2>2. \A i \in 0..n : i \in S
    BY <1>1, <1>9, <2>1, UpTo, Zenon
  <2>3. n \in S
    BY <1>1, <2>2
  <2> QED  BY <2>3 DEF S
<1>12. V!Likelihood(bits, state[0], soft) = V!Metric(soft)[V!Final(V!Metric(soft))]
  BY <1>2, <1>3, <1>8, <1>11
<1> QED  BY <1>5, <1>6, <1>12 DEF n, bits

\* What viterbi_k7 decodes is as likely as any bits, from any state to any state, for
\* every length of the register, every pair of generators and all soft decisions.
THEOREM DecodedIsLikeliest ==
    ASSUME NEW soft \in Pairs
    PROVE  V!PathIsMostLikely(soft)
<1> DEFINE best == V!Metric(soft)[V!Final(V!Metric(soft))]
<1>1. V!Metric(soft) \in Metrics
  <2>1. Len(soft) \in 0..Len(soft)
    BY DEF Pairs
  <2> QED  BY <2>1, MetricSteps
<1>2. best \in Int /\ \A s \in V!States : V!Metric(soft)[s] \in Int /\ V!Metric(soft)[s] <= best
  BY <1>1, FinalIsBest DEF Metrics
<1>3. DOMAIN soft = 1..Len(soft)
  BY DEF Pairs
<1>4. best \in V!Begun(V!Decode(soft), soft)
  BY DecodedAttains DEF V!Begun
<1> HIDE DEF best
<1>5. ASSUME NEW bits \in [DOMAIN soft -> {0, 1}], NEW other \in V!Begun(bits, soft)
      PROVE  other <= best
  <2>1. PICK state \in V!States : other = V!Likelihood(bits, state, soft)
    BY <1>5 DEF V!Begun
  <2>2. PICK s \in V!States : other <= V!Metric(soft)[s]
    BY <1>3, <2>1, MetricBounds
  <2>3. other \in Int
    <3>1. PICK sum \in [0..Len(soft) -> Int] : other = sum[Len(soft)]
      BY <1>3, <2>1, LikelihoodIs
    <3>2. Len(soft) \in 0..Len(soft)
      BY DEF Pairs
    <3> QED  BY <3>1, <3>2
  <2> QED  BY <1>2, <2>2, <2>3
<1> QED  BY <1>4, <1>5 DEF V!PathIsMostLikely
-----------------------------------------------------------------------------
(* Blocks: what the decoder of a lane may return *)

LEMMA SameCardinality ==
    ASSUME NEW S
    PROVE  R!Cardinality(S) = Cardinality(S)
BY DEF R!Cardinality, Cardinality

LEMMA RadiusIs == R!Radius \in Nat /\ Parity \in Nat
BY ReceiversAssumption DEF R!CodeAssumption, R!Radius

LEMMA SyndromesAre ==
    ASSUME NEW word
    PROVE  R!Syndromes(word) = [j \in 0..(Parity - 1) |-> R!Value(word, R!Root(j))]
<1> DEFINE f == [j \in 0..(Parity - 1) |-> R!Value(word, R!Root(j))]
<1>1. R!Evaluated(f) = f
  <2> HIDE DEF f
  <2> QED  BY DEF R!Evaluated
<1> QED  BY <1>1 DEF R!Syndromes

LEMMA RepairedIs ==
    ASSUME NEW word \in Seq(R!Symbols), NEW S, NEW e \in [S -> R!Symbols]
    PROVE  /\ R!Repaired(word, e) \in Seq(R!Symbols)
           /\ Len(R!Repaired(word, e)) = Len(word)
           /\ Changed(word, R!Repaired(word, e)) \subseteq S
<1> DEFINE w == [i \in DOMAIN word |->
                    IF i \in DOMAIN e THEN R!Plus(word[i], e[i]) ELSE word[i]]
           n == Len(word)
<1>1. n \in Nat /\ DOMAIN word = 1..n /\ DOMAIN e = S
  OBVIOUS
<1>2. \A i \in 1..n : word[i] \in R!Symbols
  OBVIOUS
<1>3. \A a, b \in R!Symbols : R!Plus(a, b) \in R!Symbols
  BY DEF R!Plus, R!Symbols
<1>4. w \in [1..n -> R!Symbols]
  BY <1>1, <1>2, <1>3
<1>5. \A i \in 1..n : i \notin S => w[i] = word[i]
  BY <1>1
<1> HIDE DEF w, n
<1>6. w \in Seq(R!Symbols) /\ Len(w) = n
  BY <1>1, <1>4
<1>7. R!Repaired(word, e) = w
  BY <1>6, ConcatEmptySeq DEF R!Repaired, R!Written, w
<1> QED  BY <1>1, <1>5, <1>6, <1>7 DEF Changed, n

LEMMA CodeIs == R!CodewordSymbols \in Int /\ IsFiniteSet(R!Symbols)
<1>1. Degree \in Nat /\ Degree > 0 /\ Shortening \in Nat
  BY ReceiversAssumption DEF R!CodeAssumption
<1> DEFINE powers == 0..(Degree - 1)
<1>2. IsFiniteSet(powers) /\ Cardinality(powers) = Degree
  BY <1>1, FS_Interval
<1> HIDE DEF powers
<1>3. IsFiniteSet(SUBSET powers) /\ Cardinality(SUBSET powers) = 2^Cardinality(powers)
  BY <1>2, FS_SUBSET
<1>4. Cardinality(SUBSET powers) \in Nat
  BY <1>3, FS_CardinalityType
<1>5. 2^Degree \in Nat
  BY <1>2, <1>3, <1>4
<1>6. R!CodewordSymbols \in Int
  BY <1>1, <1>5 DEF R!CodewordSymbols, R!Order
<1> QED  BY <1>3, <1>6 DEF R!Symbols, powers

LEMMA PositionsAreFinite ==
    ASSUME NEW s
    PROVE  IsFiniteSet(R!Positions(s))
<1>1. R!Positions(s) \subseteq 1..R!CodewordSymbols
  BY DEF R!Positions
<1>2. IsFiniteSet(1..R!CodewordSymbols)
  BY CodeIs, FS_Interval
<1> QED  BY <1>1, <1>2, FS_Subset

LEMMA CorrectionsAre ==
    ASSUME NEW word
    PROVE  R!Corrections(word) =
               IF Flawless(word) THEN {word}
               ELSE IF /\ Suspected(word).degree \in 1..R!Radius
                       /\ Cardinality(Suspects(word)) = Suspected(word).degree
                       /\ Cardinality(Explained(word)) = 1
                    THEN {w \in Repairs(word) : R!Verified(w)} ELSE {}
<1> DEFINE syndrome == R!Syndromes(word)
           s == R!Located(syndrome)
           S == R!Positions(s)
           solutions == R!Solutions(syndrome, S)
           repaired == {R!Repaired(word, e) : e \in {x \in solutions : \A i \in S : x[i] # {}}}
           clean == \A j \in DOMAIN syndrome : syndrome[j] = {}
<1>1. R!Corrections(word) =
          IF clean THEN {word}
          ELSE IF s.degree \in 1..R!Radius 
                  /\ R!Cardinality(S) = s.degree /\ R!Cardinality(solutions) = 1
               THEN {w \in repaired : R!Verified(w)} ELSE {}
  BY DEF R!Corrections
<1>2. /\ s = Suspected(word) /\ S = Suspects(word)
      /\ solutions = Explained(word) /\ (clean <=> Flawless(word))
  BY DEF Flawless, Suspected, Suspects, Explained
<1>3. repaired = Repairs(word)
  BY DEF Repairs, Suspected, Suspects, Explained
<1>4. R!Cardinality(S) = Cardinality(S) /\ R!Cardinality(solutions) = Cardinality(solutions)
  BY SameCardinality
<1> HIDE DEF s, S, solutions, repaired, clean
<1> QED  BY <1>1, <1>2, <1>3, <1>4

\* Whatever `correct` returns is a codeword, and no more than Radius symbols from the
\* word that was received.
THEOREM CorrectionsAreNear ==
    ASSUME NEW word \in Seq(R!Symbols), NEW w \in R!Corrections(word)
    PROVE  /\ w \in Seq(R!Symbols) /\ Len(w) = Len(word)
           /\ R!IsCodeword(w)
           /\ Cardinality(Changed(word, w)) <= R!Radius
<1> DEFINE s == Suspected(word)
           S == Suspects(word)
           solutions == Explained(word)
           repaired == Repairs(word)
           clean == Flawless(word)
<1>0. R!Corrections(word) =
          IF clean THEN {word}
          ELSE IF s.degree \in 1..R!Radius /\ Cardinality(S) = s.degree /\ Cardinality(solutions) = 1
               THEN {x \in repaired : R!Verified(x)} ELSE {}
  BY CorrectionsAre
<1>1. CASE clean
  <2>1. w = word
    BY <1>0, <1>1
  <2>2. Changed(word, w) = {}
    BY <2>1 DEF Changed
  <2>3. R!IsCodeword(word)
    BY <1>1, SyndromesAre DEF R!IsCodeword, Flawless
  <2>4. Cardinality({}) = 0
    BY FS_EmptySet
  <2> QED  BY <2>1, <2>2, <2>3, <2>4, RadiusIs
<1>2. CASE ~clean
  <2>1. /\ s.degree \in 1..R!Radius /\ Cardinality(S) = s.degree
        /\ w \in {v \in repaired : R!Verified(v)}
    <3> HIDE DEF clean, s, S, solutions, repaired
    <3> QED  BY <1>0, <1>2
  <2>2. R!IsCodeword(w)
    BY <2>1 DEF R!Verified
  <2>3. PICK e \in solutions : w = R!Repaired(word, e)
    BY <2>1 DEF Repairs
  <2>4. e \in [S -> R!Symbols]
    BY <2>3 DEF R!Solutions, Explained
  <2>5. /\ w \in Seq(R!Symbols) /\ Len(w) = Len(word) /\ Changed(word, w) \subseteq S
    <3> HIDE DEF S, solutions
    <3> QED  BY <2>3, <2>4, RepairedIs
  <2>6. IsFiniteSet(S)
    BY PositionsAreFinite DEF Suspects
  <2>7. Cardinality(Changed(word, w)) <= Cardinality(S)
    <3> HIDE DEF S
    <3> QED  BY <2>5, <2>6, FS_Subset
  <2>8. Cardinality(Changed(word, w)) \in Nat /\ Cardinality(S) \in Nat
    <3> HIDE DEF S
    <3> QED  BY <2>5, <2>6, FS_Subset, FS_CardinalityType
  <2> QED  BY <2>1, <2>2, <2>5, <2>7, <2>8, RadiusIs
<1> QED  BY <1>1, <1>2
-----------------------------------------------------------------------------
(* Sums of symbols *)

\* What holds of the empty set, and of a set if of it without one element, holds of S.
LEMMA OneByOne ==
    ASSUME NEW S, IsFiniteSet(S), NEW Good, {} \in Good,
           \A T \in SUBSET S : \A x \in T : T \ {x} \in Good => T \in Good
    PROVE  S \in Good
<1> DEFINE Bad == {T \in SUBSET S : T \notin Good}
           sizes == {Cardinality(T) : T \in Bad}
<1>1. SUFFICES ASSUME S \notin Good
               PROVE  FALSE
  OBVIOUS
<1>2. \A T \in SUBSET S : IsFiniteSet(T) /\ Cardinality(T) \in Nat
  BY FS_Subset, FS_CardinalityType
<1>3. sizes \in SUBSET Nat /\ Cardinality(S) \in sizes
  BY <1>1, <1>2
<1>4. PICK n \in sizes : \A m \in sizes : n <= m
  <2> HIDE DEF sizes
  <2> QED  BY <1>3, LeastOne
<1>5. PICK T \in Bad : Cardinality(T) = n
  BY <1>4
<1>6. PICK x \in T : TRUE
  BY <1>5
<1>7. Cardinality(T \ {x}) = Cardinality(T) - 1
  BY <1>2, <1>5, <1>6, FS_RemoveElement
<1>8. T \ {x} \in Good
  <2>1. T \ {x} \in SUBSET S
    BY <1>5
  <2>2. ~(Cardinality(T) <= Cardinality(T \ {x}))
    BY <1>2, <1>5, <1>7
  <2> QED  BY <1>4, <1>5, <2>1, <2>2
<1> QED  BY <1>5, <1>6, <1>8

LEMMA OddIs ==
    ASSUME NEW S, NEW T, IsFiniteSet(S), IsFiniteSet(T)
    PROVE  /\ IsFiniteSet(R!Plus(S, T))
           /\ OddMany(R!Plus(S, T)) <=> ~(OddMany(S) <=> OddMany(T))
<1> DEFINE s == Cardinality(S)
           t == Cardinality(T)
           b == Cardinality(S \cap T)
<1>1. /\ IsFiniteSet(S \ T) /\ Cardinality(S \ T) = s - b
      /\ IsFiniteSet(T \ S) /\ Cardinality(T \ S) = t - b
  <2>1. T \cap S = S \cap T
    OBVIOUS
  <2> QED  BY <2>1, FS_Difference
<1>2. (S \ T) \cap (T \ S) = {}
  OBVIOUS
<1>3. /\ IsFiniteSet((S \ T) \cup (T \ S))
      /\ Cardinality((S \ T) \cup (T \ S)) = (s - b) + (t - b)
  <2>1. Cardinality((S \ T) \cup (T \ S))
            = Cardinality(S \ T) + Cardinality(T \ S) - Cardinality({})
    BY <1>1, <1>2, FS_Union
  <2>2. s - b \in Nat /\ t - b \in Nat
    BY <1>1, FS_CardinalityType
  <2>3. Cardinality({}) = 0
    BY FS_EmptySet
  <2> HIDE DEF s, t, b
  <2> QED  BY <1>1, <2>1, <2>2, <2>3, FS_Union
<1>4. s \in Nat /\ t \in Nat /\ b \in Nat
  BY FS_Intersection, FS_CardinalityType
<1>5. Cardinality(R!Plus(S, T)) = s + t - 2 * b
  BY <1>3, <1>4 DEF R!Plus
<1> HIDE DEF s, t, b
<1>6. (s + t - 2 * b) % 2 = (s + t) % 2
  BY <1>4
<1>7. (s + t) % 2 = 1 <=> ~(s % 2 = 1 <=> t % 2 = 1)
  BY <1>4
<1> QED  BY <1>3, <1>5, <1>6, <1>7 DEF OddMany, R!Plus, s, t

LEMMA OddSimple ==
    /\ ~OddMany({})
    /\ \A x : OddMany({x})
<1>1. Cardinality({}) = 0 /\ \A x : Cardinality({x}) = 1
  BY FS_EmptySet, FS_Singleton
<1>2. 0 % 2 = 0 /\ 1 % 2 = 1
  OBVIOUS
<1> QED  BY <1>1, <1>2 DEF OddMany

\* Addition.
LEMMA PlusIs ==
    ASSUME NEW a \in R!Symbols, NEW b \in R!Symbols, NEW c \in R!Symbols
    PROVE  /\ R!Plus(a, b) \in R!Symbols
           /\ R!Plus(a, b) = R!Plus(b, a)
           /\ R!Plus(R!Plus(a, b), c) = R!Plus(a, R!Plus(b, c))
           /\ R!Plus(a, {}) = a /\ R!Plus({}, a) = a
           /\ R!Plus(a, a) = {}
           /\ R!Plus(a, b) = {} => a = b
<1>1. R!Plus(a, b) \in R!Symbols
  BY DEF R!Plus, R!Symbols
<1>2. R!Plus(R!Plus(a, b), c) = R!Plus(a, R!Plus(b, c))
  BY Zenon DEF R!Plus
<1> QED  BY <1>1, <1>2 DEF R!Plus

LEMMA NothingIs == {} \in R!Symbols
BY DEF R!Symbols

LEMMA SumIs ==
    ASSUME NEW S, NEW g
    PROVE  SumOver(S, g) \in R!Symbols
BY DEF SumOver, R!Symbols

LEMMA SumSame ==
    ASSUME NEW S, NEW g, NEW h, \A i \in S : g[i] = h[i]
    PROVE  SumOver(S, g) = SumOver(S, h)
<1>1. \A p : {i \in S : p \in g[i]} = {i \in S : p \in h[i]}
  OBVIOUS
<1> QED  BY <1>1 DEF SumOver

LEMMA SumEmpty ==
    ASSUME NEW g
    PROVE  SumOver({}, g) = {}
<1>1. \A p : {i \in {} : p \in g[i]} = {}
  OBVIOUS
<1> QED  BY <1>1, OddSimple DEF SumOver

LEMMA SumOne ==
    ASSUME NEW x, NEW g, g[x] \in R!Symbols
    PROVE  SumOver({x}, g) = g[x]
<1>1. ASSUME NEW p \in 0..(Degree - 1)
      PROVE  OddMany({i \in {x} : p \in g[i]}) <=> p \in g[x]
  <2>1. CASE p \in g[x]
    <3>1. {i \in {x} : p \in g[i]} = {x}
      BY <2>1
    <3> QED  BY <2>1, <3>1, OddSimple
  <2>2. CASE p \notin g[x]
    <3>1. {i \in {x} : p \in g[i]} = {}
      BY <2>2
    <3> QED  BY <2>2, <3>1, OddSimple
  <2> QED  BY <2>1, <2>2
<1>2. g[x] \subseteq 0..(Degree - 1)
  BY DEF R!Symbols
<1> QED  BY <1>1, <1>2 DEF SumOver

\* What is nothing need not be added.
LEMMA SumFewer ==
    ASSUME NEW S, NEW T, T \subseteq S, NEW g, \A i \in S \ T : g[i] = {}
    PROVE  SumOver(S, g) = SumOver(T, g)
<1>1. \A p : {i \in S : p \in g[i]} = {i \in T : p \in g[i]}
  OBVIOUS
<1> QED  BY <1>1 DEF SumOver

LEMMA SumPlus ==
    ASSUME NEW S, IsFiniteSet(S), NEW g, NEW h, NEW f, \A i \in S : f[i] = R!Plus(g[i], h[i])
    PROVE  SumOver(S, f) = R!Plus(SumOver(S, g), SumOver(S, h))
<1> DEFINE left(p) == {i \in S : p \in g[i]}
           right(p) == {i \in S : p \in h[i]}
<1>1. ASSUME NEW p
      PROVE  OddMany({i \in S : p \in f[i]}) <=> ~(OddMany(left(p)) <=> OddMany(right(p)))
  <2>1. {i \in S : p \in f[i]} = R!Plus(left(p), right(p))
    BY DEF R!Plus
  <2>2. IsFiniteSet(left(p)) /\ IsFiniteSet(right(p))
    BY FS_Subset
  <2> HIDE DEF left, right
  <2> QED  BY <2>1, <2>2, OddIs
<1> HIDE DEF left, right
<1>2. SumOver(S, f) = R!Plus({p \in 0..(Degree - 1) : OddMany(left(p))}, {p \in 0..(Degree - 1) : OddMany(right(p))})
  BY <1>1 DEF SumOver, R!Plus
<1> QED  BY <1>2 DEF SumOver, left, right

\* Sums over two sets: what both have cancels.
LEMMA SumBoth ==
    ASSUME NEW S, IsFiniteSet(S), NEW T, IsFiniteSet(T), NEW g
    PROVE  SumOver(R!Plus(S, T), g) = R!Plus(SumOver(S, g), SumOver(T, g))
<1> DEFINE left(p) == {i \in S : p \in g[i]}
           right(p) == {i \in T : p \in g[i]}
<1>1. ASSUME NEW p
      PROVE  OddMany({i \in R!Plus(S, T) : p \in g[i]}) <=> ~(OddMany(left(p)) <=> OddMany(right(p)))
  <2>1. {i \in R!Plus(S, T) : p \in g[i]} = R!Plus(left(p), right(p))
    BY DEF R!Plus
  <2>2. IsFiniteSet(left(p)) /\ IsFiniteSet(right(p))
    BY FS_Subset
  <2> HIDE DEF left, right
  <2> QED  BY <2>1, <2>2, OddIs
<1> HIDE DEF left, right
<1>2. SumOver(R!Plus(S, T), g)
          = R!Plus({p \in 0..(Degree - 1) : OddMany(left(p))}, {p \in 0..(Degree - 1) : OddMany(right(p))})
  BY <1>1 DEF SumOver, R!Plus
<1> QED  BY <1>2 DEF SumOver, left, right

LEMMA SumWithout ==
    ASSUME NEW S, IsFiniteSet(S), NEW x \in S, NEW g, g[x] \in R!Symbols
    PROVE  SumOver(S, g) = R!Plus(SumOver(S \ {x}, g), g[x])
<1>1. S = R!Plus(S \ {x}, {x})
  BY DEF R!Plus
<1>2. IsFiniteSet(S \ {x}) /\ IsFiniteSet({x})
  BY FS_RemoveElement, FS_Singleton
<1>3. SumOver({x}, g) = g[x]
  BY SumOne
<1>4. SumOver(R!Plus(S \ {x}, {x}), g) = R!Plus(SumOver(S \ {x}, g), SumOver({x}, g))
  BY <1>2, SumBoth
<1> QED  BY <1>1, <1>3, <1>4

\* The same symbols under other names.
LEMMA SumRenamed ==
    ASSUME NEW S, IsFiniteSet(S), NEW T, NEW f \in [S -> T], NEW g, NEW h,
           \A x, y \in S : f[x] = f[y] => x = y, \A y \in T : \E x \in S : f[x] = y,
           \A x \in S : g[x] = h[f[x]]
    PROVE  SumOver(S, g) = SumOver(T, h)
<1>1. ASSUME NEW p
      PROVE  Cardinality({y \in T : p \in h[y]}) = Cardinality({x \in S : p \in g[x]})
  <2> DEFINE from == {x \in S : p \in g[x]}
             to == {y \in T : p \in h[y]}
             k == [x \in from |-> f[x]]
  <2>1. k \in [from -> to]
    OBVIOUS
  <2>2. \A x, y \in from : k[x] = k[y] => x = y
    OBVIOUS
  <2>3. \A y \in to : \E x \in from : k[x] = y
    OBVIOUS
  <2>4. IsFiniteSet(from)
    BY FS_Subset
  <2> HIDE DEF from, to, k
  <2>5. k \in Injection(from, to)
    BY <2>1, <2>2 DEF Injection, IsInjective
  <2>6. k \in Surjection(from, to)
    BY <2>1, <2>3 DEF Surjection
  <2>7. ExistsBijection(from, to)
    BY <2>5, <2>6 DEF ExistsBijection, Bijection
  <2>8. Cardinality(to) = Cardinality(from)
    BY <2>4, <2>7, FS_Bijection
  <2> QED  BY <2>8 DEF from, to
<1> QED  BY <1>1 DEF SumOver, OddMany

LEMMA SumMapped ==
    ASSUME NEW S, IsFiniteSet(S), NEW L, Additive(L), NEW g, NEW h,
           \A i \in S : g[i] \in R!Symbols /\ h[i] = L[g[i]]
    PROVE  L[SumOver(S, g)] = SumOver(S, h)
<1> DEFINE Good == {T \in SUBSET S : L[SumOver(T, g)] = SumOver(T, h)}
<1>1. /\ \A a \in R!Symbols : L[a] \in R!Symbols
      /\ \A a, b \in R!Symbols : L[R!Plus(a, b)] = R!Plus(L[a], L[b])
  BY DEF Additive
<1>2. {} \in Good
  <2>1. L[{}] = R!Plus(L[{}], L[{}])
    BY <1>1, NothingIs, PlusIs
  <2>2. L[{}] = {}
    BY <1>1, <2>1, NothingIs, PlusIs
  <2> QED  BY <2>2, SumEmpty
<1>3. ASSUME NEW T \in SUBSET S, NEW x \in T, T \ {x} \in Good
      PROVE  T \in Good
  <2>1. IsFiniteSet(T)
    BY FS_Subset
  <2>2. g[x] \in R!Symbols /\ h[x] = L[g[x]] /\ h[x] \in R!Symbols
    BY <1>1
  <2>3. L[SumOver(T \ {x}, g)] = SumOver(T \ {x}, h)
    BY <1>3
  <2>4. /\ SumOver(T, g) = R!Plus(SumOver(T \ {x}, g), g[x])
        /\ SumOver(T, h) = R!Plus(SumOver(T \ {x}, h), h[x])
    BY <2>1, <2>2, SumWithout
  <2> QED  BY <1>1, <2>2, <2>3, <2>4, SumIs
<1> HIDE DEF Good
<1>4. S \in Good
  BY <1>2, <1>3, OneByOne
<1> QED  BY <1>4 DEF Good

LEMMA SumSwapped ==
    ASSUME NEW S, IsFiniteSet(S), NEW T, IsFiniteSet(T), NEW g, NEW h, NEW row, NEW column,
           Table(S, T, g, h, row, column)
    PROVE  SumOver(S, row) = SumOver(T, column)
<1> DEFINE part(U) == [k \in T |-> SumOver(U, h[k])]
           Good == {U \in SUBSET S : SumOver(U, row) = SumOver(T, part(U))}
<1>0. /\ \A i \in S, k \in T : g[i][k] \in R!Symbols /\ h[k][i] = g[i][k]
      /\ \A i \in S : row[i] = SumOver(T, g[i])
      /\ \A k \in T : column[k] = SumOver(S, h[k])
  BY DEF Table
<1>1. {} \in Good
  <2>1. \A k \in T : part({})[k] = {}
    BY SumEmpty
  <2>2. SumOver(T, part({})) = SumOver({}, part({}))
    <3> HIDE DEF part
    <3> QED  BY <2>1, SumFewer
  <2> QED  BY <2>2, SumEmpty
<1>2. ASSUME NEW U \in SUBSET S, NEW x \in U, U \ {x} \in Good
      PROVE  U \in Good
  <2> DEFINE one == g[x]
             less == part(U \ {x})
             all == part(U)
  <2>1. IsFiniteSet(U) /\ x \in S
    BY FS_Subset
  <2>2. row[x] = SumOver(T, one) /\ row[x] \in R!Symbols
    BY <1>0, <2>1, SumIs
  <2>3. SumOver(U, row) = R!Plus(SumOver(U \ {x}, row), row[x])
    BY <2>1, <2>2, SumWithout
  <2>4. \A k \in T : all[k] = R!Plus(less[k], one[k])
    <3> TAKE k \in T
    <3>1. h[k][x] = one[k] /\ h[k][x] \in R!Symbols
      BY <1>0, <2>1
    <3>2. SumOver(U, h[k]) = R!Plus(SumOver(U \ {x}, h[k]), h[k][x])
      BY <2>1, <3>1, SumWithout
    <3> QED  BY <3>1, <3>2
  <2>5. SumOver(U \ {x}, row) = SumOver(T, less)
    BY <1>2
  <2> HIDE DEF less, one, all
  <2>6. SumOver(T, all) = R!Plus(SumOver(T, less), SumOver(T, one))
    BY <2>4, SumPlus
  <2>7. SumOver(U, row) = SumOver(T, all)
    BY <2>2, <2>3, <2>5, <2>6
  <2> QED  BY <2>7 DEF all
<1>3. S \in Good
  <2> HIDE DEF Good
  <2> QED  BY <1>1, <1>2, OneByOne
<1>4. SumOver(S, row) = SumOver(T, part(S))
  BY <1>3
<1>5. \A k \in T : part(S)[k] = column[k]
  BY <1>0
<1> HIDE DEF part
<1> QED  BY <1>4, <1>5, SumSame
-----------------------------------------------------------------------------
(* Numbers *)

LEMMA RemainderIs ==
    ASSUME NEW N \in Nat, N > 0, NEW q \in Int, NEW r \in 0..(N - 1)
    PROVE  (N * q + r) % N = r
OBVIOUS

LEMMA Divided ==
    ASSUME NEW N \in Nat, N > 0, NEW n \in Nat
    PROVE  n % N \in 0..(N - 1) /\ \E q \in Nat : n = N * q + (n % N)
<1> DEFINE S == {k \in 0..n : \E q \in Nat, r \in 0..(N - 1) : k = N * q + r}
<1>1. 0 \in S
  <2>1. 0 \in Nat /\ 0 \in 0..(N - 1) /\ 0 = N * 0 + 0
    OBVIOUS
  <2> QED  BY <2>1
<1>2. ASSUME NEW k \in 1..n, k - 1 \in S
      PROVE  k \in S
  <2>1. PICK q \in Nat, r \in 0..(N - 1) : k - 1 = N * q + r
    BY <1>2
  <2>2. N * (q + 1) = N * q + N /\ N * q \in Nat
    OBVIOUS
  <2>3. CASE r = N - 1
    <3>1. k = N * (q + 1) + 0 /\ q + 1 \in Nat /\ 0 \in 0..(N - 1)
      BY <2>1, <2>2, <2>3
    <3> QED  BY <3>1
  <2>4. CASE r # N - 1
    <3>1. k = N * q + (r + 1) /\ r + 1 \in 0..(N - 1)
      BY <2>1, <2>2, <2>4
    <3> QED  BY <3>1
  <2> QED  BY <2>3, <2>4
<1> HIDE DEF S
<1>3. n \in S
  <2>1. \A k \in 0..n : k \in S
    BY <1>1, <1>2, UpTo
  <2> QED  BY <2>1
<1>4. PICK q \in Nat, r \in 0..(N - 1) : n = N * q + r
  BY <1>3 DEF S
<1>5. n % N = r
  BY <1>4, RemainderIs
<1> QED  BY <1>4, <1>5

LEMMA NextRemainder ==
    ASSUME NEW N \in Nat, N > 0, NEW n \in Nat
    PROVE  (n + 1) % N = IF n % N = N - 1 THEN 0 ELSE (n % N) + 1
<1> DEFINE r == n % N
<1>1. PICK q \in Nat : r \in 0..(N - 1) /\ n = N * q + r
  BY Divided
<1> HIDE DEF r
<1>2. N * (q + 1) = N * q + N /\ N * q \in Nat
  OBVIOUS
<1>3. CASE r = N - 1
  <2>1. n + 1 = N * (q + 1) + 0 /\ q + 1 \in Int /\ 0 \in 0..(N - 1)
    BY <1>1, <1>2, <1>3
  <2>2. (N * (q + 1) + 0) % N = 0
    BY <2>1, RemainderIs
  <2> QED  BY <1>3, <2>1, <2>2 DEF r
<1>4. CASE r # N - 1
  <2>1. n + 1 = N * q + (r + 1) /\ r + 1 \in 0..(N - 1) /\ q \in Int
    BY <1>1, <1>2, <1>4
  <2>2. (N * q + (r + 1)) % N = r + 1
    BY <2>1, RemainderIs
  <2> QED  BY <1>4, <2>1, <2>2 DEF r
<1> QED  BY <1>3, <1>4
-----------------------------------------------------------------------------
(* The field *)

LEMMA SizesAre ==
    /\ Degree \in Nat /\ Degree > 0 /\ Reduction \in R!Symbols
    /\ R!Order \in Nat /\ R!Order >= 2
    /\ IsFiniteSet(R!Symbols) /\ Cardinality(R!Symbols) = R!Order + 1
    /\ PrimitiveStep \in 1..(R!Order - 1) /\ FirstRoot \in Nat
<1>1. /\ Degree \in Nat /\ Degree > 0 /\ Reduction \in R!Symbols
      /\ PrimitiveStep \in 1..(R!Order - 1) /\ FirstRoot \in Nat
  BY ReceiversAssumption DEF R!CodeAssumption
<1> DEFINE powers == 0..(Degree - 1)
<1>2. IsFiniteSet(powers) /\ Cardinality(powers) = Degree
  BY <1>1, FS_Interval
<1> HIDE DEF powers
<1>3. IsFiniteSet(SUBSET powers) /\ Cardinality(SUBSET powers) = 2^Cardinality(powers)
  BY <1>2, FS_SUBSET
<1>4. Cardinality(SUBSET powers) \in Nat
  BY <1>3, FS_CardinalityType
<1>5. Cardinality(SUBSET powers) = R!Order + 1 /\ R!Order \in Int
  BY <1>2, <1>3, <1>4 DEF R!Order
<1>6. R!Order >= 2
  BY <1>1, <1>5
<1> QED  BY <1>1, <1>3, <1>5, <1>6 DEF R!Symbols, powers

LEMMA TimesXIs ==
    ASSUME NEW a \in R!Symbols
    PROVE  /\ R!TimesX(a) \in R!Symbols
           /\ \A p \in 0..(Degree - 1) :
                 p \in R!TimesX(a) <=> ~((p > 0 /\ p - 1 \in a) <=> (Degree - 1 \in a /\ p \in Reduction))
<1> DEFINE up == {i + 1 : i \in a}
<1>1. /\ Degree \in Nat /\ Degree > 0 /\ Reduction \subseteq 0..(Degree - 1)
      /\ a \subseteq 0..(Degree - 1)
  BY SizesAre DEF R!Symbols
<1>2. \A p \in 0..Degree : p \in up <=> p > 0 /\ p - 1 \in a
  <2>1. ASSUME NEW p \in 0..Degree, p > 0, p - 1 \in a
        PROVE  p \in up
    <3>1. p = (p - 1) + 1
      BY <1>1
    <3> QED  BY <2>1, <3>1
  <2>2. ASSUME NEW p \in 0..Degree, p \in up
        PROVE  p > 0 /\ p - 1 \in a
    <3>1. PICK i \in a : p = i + 1
      BY <2>2
    <3>2. i \in Nat /\ p - 1 = i /\ p > 0
      BY <1>1, <3>1
    <3> QED  BY <3>1, <3>2
  <2> QED  BY <2>1, <2>2
<1>3. up \subseteq 0..Degree
  BY <1>1
<1> HIDE DEF up
<1>4. R!TimesX(a) = IF Degree \in up THEN R!Plus(up \ {Degree}, Reduction) ELSE up
  BY DEF R!TimesX, up
<1>5. Degree \in up <=> Degree - 1 \in a
  BY <1>1, <1>2
<1>6. \A p \in 0..(Degree - 1) : p \in 0..Degree /\ p # Degree
  BY <1>1
<1>7. \A p \in 0..Degree : p # Degree => p \in 0..(Degree - 1)
  BY <1>1
<1>8. R!TimesX(a) \in R!Symbols
  <2>1. R!TimesX(a) \subseteq 0..(Degree - 1)
    BY <1>1, <1>3, <1>4, <1>7 DEF R!Plus
  <2> QED  BY <2>1 DEF R!Symbols
<1>9. ASSUME NEW p \in 0..(Degree - 1)
      PROVE  p \in R!TimesX(a) <=> ~(p \in up <=> (Degree \in up /\ p \in Reduction))
  BY <1>4, <1>6 DEF R!Plus
<1> QED  BY <1>2, <1>5, <1>6, <1>8, <1>9

LEMMA ShiftIs == Additive(Shift)
<1>1. Shift \in [R!Symbols -> R!Symbols]
  BY TimesXIs DEF Shift
<1>2. ASSUME NEW a \in R!Symbols, NEW b \in R!Symbols
      PROVE  R!TimesX(R!Plus(a, b)) = R!Plus(R!TimesX(a), R!TimesX(b))
  <2> DEFINE c == R!Plus(a, b)
             x == R!TimesX(a)
             y == R!TimesX(b)
             z == R!TimesX(c)
  <2>1. c \in R!Symbols
    BY PlusIs
  <2>2. \A p : p \in c <=> ~(p \in a <=> p \in b)
    BY DEF R!Plus
  <2> HIDE DEF c
  <2>3. /\ x \in SUBSET (0..(Degree - 1)) /\ y \in SUBSET (0..(Degree - 1))
        /\ z \in SUBSET (0..(Degree - 1))
    BY <2>1, TimesXIs DEF R!Symbols
  <2>4. ASSUME NEW p \in 0..(Degree - 1)
        PROVE  p \in z <=> ~(p \in x <=> p \in y)
    <3> DEFINE f(s) == p > 0 /\ p - 1 \in s
               g(s) == Degree - 1 \in s /\ p \in Reduction
    <3>1. /\ p \in x <=> ~(f(a) <=> g(a))
          /\ p \in y <=> ~(f(b) <=> g(b))
          /\ p \in z <=> ~(f(c) <=> g(c))
      BY <2>1, TimesXIs
    <3>2. f(c) <=> ~(f(a) <=> f(b))
      BY <2>2
    <3>3. g(c) <=> ~(g(a) <=> g(b))
      BY <2>2
    <3> HIDE DEF f, g, x, y, z
    <3> QED  BY <3>1, <3>2, <3>3
  <2> HIDE DEF x, y, z
  <2>5. z = R!Plus(x, y)
    BY <2>3, <2>4 DEF R!Plus
  <2> QED  BY <2>5 DEF c, x, y, z
<1>3. \A a, b \in R!Symbols : R!Plus(a, b) \in R!Symbols
  BY PlusIs
<1> QED  BY <1>1, <1>2, <1>3 DEF Additive, Shift

LEMMA NothingShifts == R!TimesX({}) = {}
<1>1. Shift[R!Plus({}, {})] = R!Plus(Shift[{}], Shift[{}])
  BY ShiftIs, NothingIs DEF Additive
<1>2. R!Plus({}, {}) = {} /\ Shift[{}] = R!TimesX({})
  BY NothingIs, PlusIs DEF Shift
<1> QED  BY <1>1, <1>2, NothingIs, TimesXIs, PlusIs

\* The powers of x.
LEMMA AlphaUnfolds ==
    ASSUME NEW n
    PROVE  LET seq == [i \in 1..(n % R!Order) |-> i]
           IN R!Alpha(n) = (CHOOSE f : f = [i \in 0..Len(seq) |->
                                IF i = 0 THEN {0} ELSE R!TimesX(f[i - 1])])[Len(seq)]
BY DEF R!Alpha, R!Fold

LEMMA ZeroIs == {0} \in R!Symbols
BY SizesAre DEF R!Symbols

LEMMA AlphasAre ==
    \E f \in [0..(R!Order - 1) -> R!Symbols] :
        /\ f[0] = {0}
        /\ \A i \in 1..(R!Order - 1) : f[i] = R!TimesX(f[i - 1])
        /\ \A n \in Nat : R!Alpha(n) = f[n % R!Order]
<1> DEFINE last == R!Order - 1
           step == [i \in 1..last |-> Shift]
<1>1. last \in Nat
  BY SizesAre
<1>2. step \in [1..last -> [R!Symbols -> R!Symbols]]
  BY ShiftIs DEF Additive
<1> HIDE DEF last
<1>3. PICK f \in [0..last -> R!Symbols] : Loop(f, last, {0}, step)
  <2> HIDE DEF step
  <2> QED  BY <1>1, <1>2, ZeroIs, Rounds
<1>4. f[0] = {0} /\ \A i \in 1..last : f[i] = R!TimesX(f[i - 1])
  <2>1. \A i \in 1..last : f[i - 1] \in R!Symbols
    BY <1>1
  <2> QED  BY <1>3, <2>1 DEF Loop, Shift
<1>5. ASSUME NEW n \in Nat
      PROVE  R!Alpha(n) = f[n % R!Order]
  <2> DEFINE m == n % R!Order
             seq == [i \in 1..m |-> i]
             Eq(h) == h = [i \in 0..m |-> IF i = 0 THEN {0} ELSE R!TimesX(h[i - 1])]
             chosen == CHOOSE h : Eq(h)
             g == [i \in 0..m |-> f[i]]
  <2>1. m \in 0..last
    BY SizesAre DEF last
  <2> HIDE DEF m
  <2>2. Len(seq) = m
    BY <2>1
  <2>3. R!Alpha(n) = chosen[m]
    <3>1. R!Alpha(n) = (CHOOSE h : h = [i \in 0..Len(seq) |->
                                IF i = 0 THEN {0} ELSE R!TimesX(h[i - 1])])[Len(seq)]
      BY AlphaUnfolds DEF m
    <3> HIDE DEF seq
    <3> QED  BY <2>2, <3>1
  <2>4. \A i \in 0..m : i \in 0..last /\ (i # 0 => i \in 1..last /\ i - 1 \in 0..m)
    BY <1>1, <2>1
  <2>5. Eq(g)
    BY <1>4, <2>4
  <2>6. Eq(chosen)
    <3> HIDE DEF Eq, g
    <3> QED  BY <2>5
  <2> HIDE DEF chosen
  <2>11. m \in Nat /\ 0 \in 0..m /\ \A i \in 1..m : i \in 0..m /\ i # 0
    BY <2>1
  <2>7. chosen[0] = {0} /\ \A i \in 1..m : chosen[i] = R!TimesX(chosen[i - 1])
    BY <2>6, <2>11
  <2> DEFINE S == {i \in 0..m : chosen[i] = f[i]}
  <2>8. 0 \in S
    BY <1>4, <2>7, <2>11
  <2>9. \A i \in 1..m : i - 1 \in S => i \in S
    BY <1>4, <2>4, <2>7, <2>11
  <2>10. m \in S
    <3>1. m \in Nat
      BY <2>1
    <3> HIDE DEF S
    <3>2. \A i \in 0..m : i \in S
      BY <2>8, <2>9, <3>1, UpTo, Zenon
    <3> QED  BY <3>1, <3>2
  <2> QED  BY <2>3, <2>10 DEF m
<1> QED  BY <1>4, <1>5 DEF last

LEMMA AlphaIs ==
    /\ R!Alpha(0) = {0}
    /\ \A n \in Nat : /\ R!Alpha(n) \in R!Symbols
                      /\ R!Alpha(n) # {}
                      /\ R!Alpha(n + 1) = R!TimesX(R!Alpha(n))
    /\ \A i, j \in Nat : R!Alpha(i) = R!Alpha(j) <=> i % R!Order = j % R!Order
<1> DEFINE N == R!Order
<1>1. N \in Nat /\ N >= 2
  BY SizesAre
<1> HIDE DEF N
<1>2. PICK f \in [0..(N - 1) -> R!Symbols] :
        /\ f[0] = {0}
        /\ \A i \in 1..(N - 1) : f[i] = R!TimesX(f[i - 1])
        /\ \A n \in Nat : R!Alpha(n) = f[n % N]
  BY AlphasAre DEF N
<1>3. R!Primitive
  BY ReceiversAssumption DEF R!CodeAssumption
<1>4. \A n \in 0..(N - 1) : n \in Nat /\ n % N = n
  BY <1>1
<1>5. \A n \in 0..(N - 1) : R!Alpha(n) = f[n]
  BY <1>2, <1>4
<1>6. /\ \A i \in 0..(N - 1) : f[i] # {}
      /\ \A i, j \in 0..(N - 1) : f[i] = f[j] => i = j
      /\ R!TimesX(f[N - 1]) = {0}
  <2>1. N - 1 \in 0..(N - 1)
    BY <1>1
  <2> QED  BY <1>3, <1>5, <2>1 DEF R!Primitive, N
<1>7. \A n \in Nat : n % N \in 0..(N - 1)
  BY <1>1
<1>8. ASSUME NEW n \in Nat
      PROVE  R!Alpha(n + 1) = R!TimesX(R!Alpha(n))
  <2> DEFINE m == n % N
  <2>1. m \in 0..(N - 1) /\ n + 1 \in Nat
    BY <1>7
  <2>2. (n + 1) % N = IF m = N - 1 THEN 0 ELSE m + 1
    <3>1. N \in Nat /\ N > 0
      BY <1>1
    <3>2. (n + 1) % N = IF n % N = N - 1 THEN 0 ELSE (n % N) + 1
      BY <3>1, NextRemainder
    <3> QED  BY <3>2
  <2> HIDE DEF m
  <2>3. R!Alpha(n) = f[m]
    BY <1>2 DEF m
  <2>4. R!Alpha(n + 1) = f[IF m = N - 1 THEN 0 ELSE m + 1]
    BY <1>2, <2>1, <2>2
  <2>5. CASE m = N - 1
    BY <1>2, <1>6, <2>3, <2>4, <2>5
  <2>6. CASE m # N - 1
    <3> DEFINE k == m + 1
    <3>1. k \in 1..(N - 1) /\ k - 1 = m
      BY <1>1, <2>1, <2>6
    <3> HIDE DEF k
    <3>4. f[k] = R!TimesX(f[m])
      BY <1>2, <3>1
    <3>2. f[m + 1] = R!TimesX(f[m])
      BY <3>4 DEF k
    <3>3. R!Alpha(n + 1) = f[m + 1]
      BY <2>4, <2>6
    <3> QED  BY <2>3, <3>2, <3>3
  <2> QED  BY <2>5, <2>6
<1>9. R!Alpha(0) = {0}
  BY <1>1, <1>2, <1>5
<1>10. \A n \in Nat : R!Alpha(n) \in R!Symbols /\ R!Alpha(n) # {}
  BY <1>2, <1>6, <1>7
<1>11. \A i, j \in Nat : R!Alpha(i) = R!Alpha(j) <=> i % N = j % N
  BY <1>2, <1>6, <1>7
<1> QED  BY <1>8, <1>9, <1>10, <1>11 DEF N
-----------------------------------------------------------------------------
(* The powers of x *)

\* A symbol times the powers of x, up to Degree.
LEMMA ShiftedIs ==
    ASSUME NEW a \in R!Symbols
    PROVE  \E f \in [0..(Degree - 1) -> R!Symbols] :
               /\ f[0] = a
               /\ \A i \in 1..(Degree - 1) : f[i] = R!TimesX(f[i - 1])
               /\ \A b : R!Times(a, b) = SumOver(b, f)
<1> DEFINE last == Degree - 1
           step == [i \in 1..last |-> Shift]
           Eq(h) == h = [i \in 0..last |-> IF i = 0 THEN a ELSE R!TimesX(h[i - 1])]
           chosen == CHOOSE h : Eq(h)
<1>1. last \in Nat
  BY SizesAre
<1>2. step \in [1..last -> [R!Symbols -> R!Symbols]]
  BY ShiftIs DEF Additive
<1>3. \A b : R!Times(a, b) = SumOver(b, chosen)
  <2>1. \A S : R!Cardinality(S) % 2 = 1 <=> OddMany(S)
    BY SameCardinality DEF OddMany
  <2> QED  BY <2>1 DEF R!Times, R!Total, SumOver
<1> HIDE DEF last
<1>4. PICK f \in [0..last -> R!Symbols] : Loop(f, last, a, step)
  <2> HIDE DEF step
  <2> QED  BY <1>1, <1>2, Rounds
<1>5. f[0] = a /\ \A i \in 1..last : f[i] = R!TimesX(f[i - 1])
  <2>1. \A i \in 1..last : f[i - 1] \in R!Symbols
    BY <1>1
  <2> QED  BY <1>4, <2>1 DEF Loop, Shift
<1>6. \A i \in 0..last : i # 0 => i \in 1..last /\ i - 1 \in 0..last
  BY <1>1
<1>7. Eq(f)
  BY <1>5, <1>6
<1>8. Eq(chosen)
  <2> HIDE DEF Eq
  <2> QED  BY <1>7
<1> HIDE DEF chosen
<1>9. chosen[0] = a /\ \A i \in 1..last : chosen[i] = R!TimesX(chosen[i - 1])
  BY <1>1, <1>8
<1>10. chosen \in [0..last -> R!Symbols]
  <2> DEFINE S == {i \in 0..last : chosen[i] \in R!Symbols}
  <2>1. 0 \in S
    BY <1>1, <1>9
  <2>2. \A i \in 1..last : i - 1 \in S => i \in S
    BY <1>1, <1>9, TimesXIs
  <2> HIDE DEF S
  <2>3. \A i \in 0..last : i \in S
    BY <1>1, <2>1, <2>2, UpTo, Zenon
  <2> QED  BY <1>8, <2>3 DEF S
<1> QED  BY <1>3, <1>9, <1>10 DEF last

LEMMA TimesAdds ==
    ASSUME NEW a \in R!Symbols, NEW b \in R!Symbols, NEW c \in R!Symbols
    PROVE  /\ R!Times(a, b) \in R!Symbols
           /\ R!Times(a, R!Plus(b, c)) = R!Plus(R!Times(a, b), R!Times(a, c))
           /\ R!Times(a, {}) = {}
           /\ R!Times({}, b) = {}
<1>1. \A s \in R!Symbols : IsFiniteSet(s)
  <2>1. IsFiniteSet(0..(Degree - 1))
    BY SizesAre, FS_Interval
  <2> QED  BY <2>1, FS_Subset DEF R!Symbols
<1>2. PICK f : \A s : R!Times(a, s) = SumOver(s, f)
  BY ShiftedIs
<1>3. PICK g \in [0..(Degree - 1) -> R!Symbols] :
          /\ g[0] = {}
          /\ \A i \in 1..(Degree - 1) : g[i] = R!TimesX(g[i - 1])
          /\ \A s : R!Times({}, s) = SumOver(s, g)
  BY ShiftedIs, NothingIs
<1>4. \A i \in 0..(Degree - 1) : g[i] = {}
  <2> DEFINE D == Degree - 1
  <2>1. D \in Nat /\ g[0] = {} /\ \A i \in 1..D : g[i] = R!TimesX(g[i - 1])
    BY <1>3, SizesAre
  <2> HIDE DEF D
  <2> DEFINE S == {i \in 0..D : g[i] = {}}
  <2>2. 0 \in S
    BY <2>1
  <2>3. ASSUME NEW i \in 1..D, i - 1 \in S
        PROVE  i \in S
    <3>1. g[i - 1] = {} /\ g[i] = R!TimesX(g[i - 1]) /\ i \in 0..D
      BY <2>1, <2>3
    <3> QED  BY <3>1, NothingShifts
  <2> HIDE DEF S
  <2>4. \A i \in 0..D : i \in S
    BY <2>1, <2>2, <2>3, UpTo, Zenon
  <2> QED  BY <2>4 DEF S, D
<1>5. SumOver(b, g) = {}
  <2>1. {} \subseteq b /\ \A i \in b \ {} : g[i] = {}
    BY <1>4 DEF R!Symbols
  <2>2. SumOver(b, g) = SumOver({}, g)
    BY <2>1, SumFewer
  <2> QED  BY <2>2, SumEmpty
<1>6. SumOver(R!Plus(b, c), f) = R!Plus(SumOver(b, f), SumOver(c, f))
  BY <1>1, SumBoth
<1>7. SumOver({}, f) = {}
  BY SumEmpty
<1> QED  BY <1>2, <1>3, <1>5, <1>6, <1>7, SumIs

LEMMA TimesShifts ==
    ASSUME NEW a \in R!Symbols, NEW b \in R!Symbols
    PROVE  R!Times(R!TimesX(a), b) = R!TimesX(R!Times(a, b))
<1> DEFINE D == Degree - 1
<1>0. D \in Nat
  BY SizesAre
<1>1. PICK f :
          /\ \A i \in 0..D : f[i] \in R!Symbols
          /\ f[0] = a
          /\ \A i \in 1..D : f[i] = R!TimesX(f[i - 1])
          /\ \A s : R!Times(a, s) = SumOver(s, f)
  BY ShiftedIs
<1>2. PICK g \in [0..D -> R!Symbols] :
          /\ g[0] = R!TimesX(a)
          /\ \A i \in 1..D : g[i] = R!TimesX(g[i - 1])
          /\ \A s : R!Times(R!TimesX(a), s) = SumOver(s, g)
  BY ShiftedIs, TimesXIs
<1>3. b \subseteq 0..D
  BY DEF R!Symbols
<1> HIDE DEF D
<1>4. \A i \in 0..D : g[i] = R!TimesX(f[i])
  <2> DEFINE S == {i \in 0..D : g[i] = R!TimesX(f[i])}
  <2>1. 0 \in S
    BY <1>0, <1>1, <1>2
  <2>2. \A i \in 1..D : i - 1 \in S => i \in S
    BY <1>0, <1>1, <1>2
  <2> HIDE DEF S
  <2>4. \A i \in 0..D : i \in S
    BY <1>0, <2>1, <2>2, UpTo, Zenon
  <2> QED  BY <2>4 DEF S
<1> DEFINE h == [i \in b |-> Shift[f[i]]]
<1>5. IsFiniteSet(b)
  <2>1. IsFiniteSet(0..D)
    BY <1>0, FS_Interval
  <2> QED  BY <1>3, <2>1, FS_Subset
<1>6. Shift[SumOver(b, f)] = SumOver(b, h)
  <2>1. \A i \in b : f[i] \in R!Symbols
    BY <1>1, <1>3
  <2>2. \A i \in b : h[i] = Shift[f[i]]
    OBVIOUS
  <2> HIDE DEF h
  <2> QED  BY <1>5, <2>1, <2>2, ShiftIs, SumMapped
<1>7. \A i \in b : h[i] = g[i]
  BY <1>1, <1>3, <1>4 DEF Shift
<1> HIDE DEF h
<1>8. SumOver(b, h) = SumOver(b, g)
  BY <1>7, SumSame
<1>9. Shift[SumOver(b, f)] = R!TimesX(SumOver(b, f))
  BY SumIs DEF Shift
<1> QED  BY <1>1, <1>2, <1>6, <1>8, <1>9

\* Multiplication by one.
LEMMA OneTimes ==
    ASSUME NEW b \in R!Symbols
    PROVE  R!Times({0}, b) = b
<1> DEFINE D == Degree - 1
<1>0. D \in Nat
  BY SizesAre
<1>1. PICK f \in [0..D -> R!Symbols] :
          /\ f[0] = {0}
          /\ \A i \in 1..D : f[i] = R!TimesX(f[i - 1])
          /\ \A s : R!Times({0}, s) = SumOver(s, f)
  BY ShiftedIs, ZeroIs
<1>2. b \subseteq 0..D
  BY DEF R!Symbols
<1>3. ASSUME NEW i \in 1..D
      PROVE  R!TimesX({i - 1}) = {i}
  <2>1. {i - 1} \in R!Symbols /\ {i} \in R!Symbols
    BY <1>0 DEF R!Symbols
  <2>2. R!TimesX({i - 1}) \subseteq 0..D /\ {i} \subseteq 0..D
    BY <2>1, TimesXIs DEF R!Symbols
  <2>3. ASSUME NEW p \in 0..D
        PROVE  p \in R!TimesX({i - 1}) <=> p = i
    <3>1. p \in R!TimesX({i - 1})
              <=> ~((p > 0 /\ p - 1 \in {i - 1}) <=> (Degree - 1 \in {i - 1} /\ p \in Reduction))
      BY <2>1, TimesXIs
    <3>2. Degree - 1 # i - 1 /\ (p > 0 /\ p - 1 = i - 1 <=> p = i)
      BY <1>0
    <3> QED  BY <3>1, <3>2
  <2> HIDE DEF D
  <2> QED  BY <2>2, <2>3
<1> HIDE DEF D
<1>4. \A i \in 0..D : f[i] = {i}
  <2> DEFINE S == {i \in 0..D : f[i] = {i}}
  <2>1. 0 \in S
    BY <1>0, <1>1
  <2>2. \A i \in 1..D : i - 1 \in S => i \in S
    BY <1>0, <1>1, <1>3
  <2> HIDE DEF S
  <2>4. \A i \in 0..D : i \in S
    BY <1>0, <2>1, <2>2, UpTo, Zenon
  <2> QED  BY <2>4 DEF S
<1>5. ASSUME NEW p \in 0..D
      PROVE  OddMany({i \in b : p \in f[i]}) <=> p \in b
  <2>1. \A i \in b : p \in f[i] <=> p = i
    BY <1>2, <1>4
  <2>2. CASE p \in b
    <3>1. {i \in b : p \in f[i]} = {p}
      BY <2>1, <2>2
    <3> QED  BY <2>2, <3>1, OddSimple
  <2>3. CASE p \notin b
    <3>1. {i \in b : p \in f[i]} = {}
      BY <2>1, <2>3
    <3> QED  BY <2>3, <3>1, OddSimple
  <2> QED  BY <2>2, <2>3
<1>6. SumOver(b, f) = b
  BY <1>2, <1>5 DEF SumOver, D
<1> QED  BY <1>1, <1>6

LEMMA AlphasMultiply ==
    ASSUME NEW i \in Nat, NEW j \in Nat
    PROVE  R!Times(R!Alpha(i), R!Alpha(j)) = R!Alpha(i + j)
<1> DEFINE S == {k \in 0..i : R!Times(R!Alpha(k), R!Alpha(j)) = R!Alpha(k + j)}
<1>1. 0 \in S
  <2>1. 0 + j = j /\ 0 \in 0..i
    OBVIOUS
  <2> QED  BY <2>1, AlphaIs, OneTimes
<1>2. ASSUME NEW k \in 1..i, k - 1 \in S
      PROVE  k \in S
  <2>1. k - 1 \in Nat /\ (k - 1) + 1 = k /\ (k - 1) + j \in Nat /\ ((k - 1) + j) + 1 = k + j
    OBVIOUS
  <2> DEFINE m == k - 1
             n == m + j
  <2>2. R!Times(R!Alpha(m), R!Alpha(j)) = R!Alpha(n)
    BY <1>2
  <2>3. m \in Nat /\ n \in Nat /\ m + 1 = k /\ n + 1 = k + j
    BY <2>1
  <2> HIDE DEF m, n
  <2>4. R!Alpha(k) = R!TimesX(R!Alpha(m)) /\ R!Alpha(k + j) = R!TimesX(R!Alpha(n))
    BY <2>3, AlphaIs
  <2>5. R!Times(R!TimesX(R!Alpha(m)), R!Alpha(j)) = R!TimesX(R!Times(R!Alpha(m), R!Alpha(j)))
    BY <2>3, AlphaIs, TimesShifts
  <2> QED  BY <2>2, <2>4, <2>5
<1> HIDE DEF S
<1>3. \A k \in 0..i : k \in S
  BY <1>1, <1>2, UpTo
<1> QED  BY <1>3 DEF S

\* Every symbol but zero is a power of x.
LEMMA AlphasAll ==
    ASSUME NEW a \in R!Symbols, a # {}
    PROVE  \E k \in 0..(R!Order - 1) : a = R!Alpha(k)
<1> DEFINE N == R!Order
           powers == 0..(N - 1)
           rest == R!Symbols \ {{}}
           f == [k \in powers |-> R!Alpha(k)]
<1>1. N \in Nat /\ N >= 2
  BY SizesAre
<1>2. IsFiniteSet(rest) /\ Cardinality(rest) = N
  <2>1. IsFiniteSet(R!Symbols) /\ Cardinality(R!Symbols) = N + 1 /\ {} \in R!Symbols
    BY SizesAre, NothingIs
  <2>2. IsFiniteSet(rest) /\ Cardinality(rest) = N + 1 - 1
    <3> DEFINE S == R!Symbols
    <3>1. IsFiniteSet(S) /\ {} \in S /\ rest = S \ {{}}
      BY <2>1
    <3> HIDE DEF S, rest
    <3>2. IsFiniteSet(rest) /\ Cardinality(rest) = Cardinality(S) - 1
      BY <3>1, FS_RemoveElement
    <3> QED  BY <1>1, <2>1, <3>2 DEF S
  <2> QED  BY <1>1, <2>2
<1>3. Cardinality(powers) = N
  BY <1>1, FS_Interval
<1>4. f \in [powers -> rest]
  BY <1>1, AlphaIs
<1>5. \A i, j \in powers : f[i] = f[j] => i = j
  <2>1. \A i \in powers : i \in Nat /\ i % N = i
    BY <1>1
  <2> QED  BY <2>1, AlphaIs
<1>6. a \in rest
  OBVIOUS
<1> HIDE DEF f, rest, powers, N
<1>7. f \in Injection(powers, rest)
  BY <1>4, <1>5 DEF Injection, IsInjective
<1>8. f \in Surjection(powers, rest)
  BY <1>2, <1>3, <1>7, FS_Injection
<1>9. PICK k \in powers : f[k] = a
  BY <1>6, <1>8 DEF Surjection
<1> QED  BY <1>9 DEF f, powers, N

\* Only nothing divides nothing.
LEMMA NoDivisors ==
    ASSUME NEW a \in R!Symbols, NEW b \in R!Symbols, R!Times(a, b) = {}
    PROVE  a = {} \/ b = {}
<1> SUFFICES ASSUME a # {}, b # {}
             PROVE  FALSE
  OBVIOUS
<1>1. PICK i \in 0..(R!Order - 1), j \in 0..(R!Order - 1) : a = R!Alpha(i) /\ b = R!Alpha(j)
  BY AlphasAll
<1>2. i \in Nat /\ j \in Nat /\ i + j \in Nat
  BY <1>1, SizesAre
<1>3. R!Times(a, b) = R!Alpha(i + j)
  BY <1>1, <1>2, AlphasMultiply
<1> QED  BY <1>2, <1>3, AlphaIs

\* Multiplication.
LEMMA TimesIs ==
    ASSUME NEW a \in R!Symbols, NEW b \in R!Symbols, NEW c \in R!Symbols
    PROVE  /\ R!Times(a, b) \in R!Symbols
           /\ R!Times(a, b) = R!Times(b, a)
           /\ R!Times(R!Times(a, b), c) = R!Times(a, R!Times(b, c))
           /\ R!Times(a, R!Plus(b, c)) = R!Plus(R!Times(a, b), R!Times(a, c))
           /\ R!Times(R!Plus(b, c), a) = R!Plus(R!Times(b, a), R!Times(c, a))
           /\ R!Times(a, {0}) = a /\ R!Times({0}, a) = a
           /\ R!Times(a, {}) = {} /\ R!Times({}, a) = {}
           /\ R!Times(a, b) = {} => a = {} \/ b = {}
<1>1. \A s \in R!Symbols : s # {} => \E k \in Nat : s = R!Alpha(k)
  <2>1. 0..(R!Order - 1) \subseteq Nat
    BY SizesAre
  <2> QED  BY <2>1, AlphasAll
<1>2. \A s, t \in R!Symbols : R!Times(s, t) = R!Times(t, s)
  <2> TAKE s, t \in R!Symbols
  <2>1. CASE s = {} \/ t = {}
    BY <2>1, TimesAdds, NothingIs
  <2>2. CASE s # {} /\ t # {}
    <3>1. PICK i \in Nat, j \in Nat : s = R!Alpha(i) /\ t = R!Alpha(j)
      BY <1>1, <2>2
    <3>2. i + j = j + i
      OBVIOUS
    <3> QED  BY <3>1, <3>2, AlphasMultiply
  <2> QED  BY <2>1, <2>2
<1>3. R!Times(R!Times(a, b), c) = R!Times(a, R!Times(b, c))
  <2>0. \A s \in R!Symbols : R!Times(s, {}) = {} /\ R!Times({}, s) = {}
    BY TimesAdds
  <2>1. CASE a = {} \/ b = {} \/ c = {}
    <3>1. R!Times(a, b) \in R!Symbols /\ R!Times(b, c) \in R!Symbols
      BY TimesAdds
    <3> QED  BY <2>0, <2>1, <3>1
  <2>2. CASE a # {} /\ b # {} /\ c # {}
    <3>1. PICK i \in Nat, j \in Nat, k \in Nat :
              a = R!Alpha(i) /\ b = R!Alpha(j) /\ c = R!Alpha(k)
      BY <1>1, <2>2
    <3>2. (i + j) + k = i + (j + k) /\ i + j \in Nat /\ j + k \in Nat
      OBVIOUS
    <3>3. R!Times(a, b) = R!Alpha(i + j) /\ R!Times(b, c) = R!Alpha(j + k)
      BY <3>1, AlphasMultiply
    <3>4. /\ R!Times(R!Alpha(i + j), c) = R!Alpha((i + j) + k)
          /\ R!Times(a, R!Alpha(j + k)) = R!Alpha(i + (j + k))
      BY <3>1, <3>2, AlphasMultiply
    <3> QED  BY <3>2, <3>3, <3>4
  <2> QED  BY <2>1, <2>2
<1>4. R!Times(a, b) = {} => a = {} \/ b = {}
  BY NoDivisors
<1>5. R!Times(R!Plus(b, c), a) = R!Plus(R!Times(b, a), R!Times(c, a))
  BY <1>2, TimesAdds, PlusIs
<1>6. R!Times({0}, a) = a /\ R!Times(a, {0}) = a
  BY <1>2, OneTimes, ZeroIs
<1>7. /\ R!Times(a, b) \in R!Symbols
      /\ R!Times(a, R!Plus(b, c)) = R!Plus(R!Times(a, b), R!Times(a, c))
      /\ R!Times(a, {}) = {} /\ R!Times({}, a) = {}
  BY TimesAdds
<1> QED  BY <1>2, <1>3, <1>4, <1>5, <1>6, <1>7

LEMMA TimesTurns ==
    ASSUME NEW a \in R!Symbols, NEW b \in R!Symbols
    PROVE  R!Times(a, b) = R!Times(b, a)
BY TimesIs, NothingIs

LEMMA TimesNothing ==
    ASSUME NEW a \in R!Symbols
    PROVE  R!Times(a, {}) = {} /\ R!Times({}, a) = {}
BY TimesIs, NothingIs

LEMMA ReciprocalIs ==
    ASSUME NEW a \in R!Symbols, a # {}
    PROVE  R!Reciprocal(a) \in R!Symbols /\ R!Times(a, R!Reciprocal(a)) = {0}
<1>1. PICK k \in 0..(R!Order - 1) : a = R!Alpha(k)
  BY AlphasAll
<1>2. k \in Nat /\ R!Order - k \in Nat /\ k + (R!Order - k) = R!Order
      /\ R!Order % R!Order = 0 % R!Order /\ R!Order \in Nat
  BY SizesAre
<1>3. R!Alpha(R!Order) = {0}
  BY <1>2, AlphaIs
<1>4. R!Alpha(R!Order - k) \in R!Symbols /\ R!Times(a, R!Alpha(R!Order - k)) = {0}
  <2>1. R!Times(R!Alpha(k), R!Alpha(R!Order - k)) = R!Alpha(k + (R!Order - k))
    BY <1>2, AlphasMultiply
  <2> QED  BY <1>1, <1>2, <1>3, <2>1, AlphaIs
<1> DEFINE P(s) == s \in R!Symbols /\ R!Times(a, s) = {0}
<1>5. P(R!Alpha(R!Order - k))
  BY <1>4
<1>6. R!Reciprocal(a) = CHOOSE s : P(s)
  BY DEF R!Reciprocal
<1> HIDE DEF P
<1>7. P(R!Reciprocal(a))
  BY <1>5, <1>6
<1> QED  BY <1>7 DEF P
-----------------------------------------------------------------------------
(* Different symbols: no sum of their powers vanishes *)

LEMMA MultiplesAdd ==
    ASSUME NEW a \in R!Symbols
    PROVE  Additive(Multiples(a))
<1>1. Multiples(a) \in [R!Symbols -> R!Symbols]
  BY TimesIs DEF Multiples
<1>2. ASSUME NEW b \in R!Symbols, NEW c \in R!Symbols
      PROVE  Multiples(a)[R!Plus(b, c)] = R!Plus(Multiples(a)[b], Multiples(a)[c])
  <2>1. R!Plus(b, c) \in R!Symbols
    BY PlusIs
  <2>2. R!Times(a, R!Plus(b, c)) = R!Plus(R!Times(a, b), R!Times(a, c))
    BY TimesIs
  <2> QED  BY <2>1, <2>2 DEF Multiples
<1> QED  BY <1>1, <1>2 DEF Additive

LEMMA SumTimes ==
    ASSUME NEW S, IsFiniteSet(S), NEW a \in R!Symbols, NEW g, NEW h,
           \A i \in S : g[i] \in R!Symbols /\ h[i] = R!Times(a, g[i])
    PROVE  R!Times(a, SumOver(S, g)) = SumOver(S, h)
<1>1. \A i \in S : g[i] \in R!Symbols /\ h[i] = Multiples(a)[g[i]]
  BY DEF Multiples
<1>2. Multiples(a)[SumOver(S, g)] = SumOver(S, h)
  BY <1>1, MultiplesAdd, SumMapped
<1> QED  BY <1>2, SumIs DEF Multiples

LEMMA AlphaSymbols ==
    ASSUME NEW i \in Nat, NEW j \in Nat
    PROVE  /\ R!Alpha(i) \in R!Symbols /\ R!Alpha(i) # {}
           /\ i * j \in Nat /\ i + j \in Nat
           /\ R!Alpha(i * j) \in R!Symbols
BY AlphaIs

LEMMA OneLess ==
    ASSUME NEW T, IsFiniteSet(T), NEW x \in T, NEW m \in [T -> Nat], Distinct(T, m),
           NEW c \in [T -> R!Symbols], Vanish(T, m, c),
           NEW less, less = [i \in T \ {x} |-> R!Times(c[i], R!Plus(R!Alpha(m[i]), R!Alpha(m[x])))]
    PROVE  less \in [T \ {x} -> R!Symbols] /\ Vanish(T \ {x}, m, less)
<1>1. \A i \in T : c[i] \in R!Symbols /\ R!Alpha(m[i]) \in R!Symbols /\ m[i] \in Nat
  BY AlphaSymbols
<1>2. less \in [T \ {x} -> R!Symbols]
  BY <1>1, PlusIs, TimesIs
<1>3. IsFiniteSet(T \ {x}) /\ Cardinality(T \ {x}) = Cardinality(T) - 1 /\ Cardinality(T) \in Nat
  BY FS_RemoveElement, FS_CardinalityType
<1>4. ASSUME NEW j \in 0..(Cardinality(T \ {x}) - 1)
      PROVE  SumOver(T \ {x}, Powers(T \ {x}, m, less, j)) = {}
  <2> DEFINE U == T \ {x}
             g == Powers(T, m, c, j)
             up == Powers(T, m, c, j + 1)
             h == [i \in T |-> R!Times(R!Alpha(m[x]), g[i])]
             both == [i \in T |-> R!Plus(up[i], h[i])]
  <2>1. j \in Nat /\ j + 1 \in Nat /\ j \in 0..(Cardinality(T) - 1) /\ j + 1 \in 0..(Cardinality(T) - 1)
    BY <1>3
  <2>2. SumOver(T, g) = {} /\ SumOver(T, up) = {}
    BY <2>1 DEF Vanish
  <2>3. ASSUME NEW i \in T
        PROVE  /\ g[i] = R!Times(c[i], R!Alpha(m[i] * j)) /\ g[i] \in R!Symbols
               /\ up[i] = R!Times(g[i], R!Alpha(m[i])) /\ up[i] \in R!Symbols
               /\ h[i] \in R!Symbols
    <3> DEFINE a == R!Alpha(m[i])
               p == R!Alpha(m[i] * j)
    <3>1. m[i] * (j + 1) = (m[i] * j) + m[i] /\ m[i] * j \in Nat
      BY <1>1, <2>1
    <3>2. R!Alpha(m[i] * (j + 1)) = R!Times(p, a) /\ p \in R!Symbols
      BY <1>1, <3>1, AlphasMultiply, AlphaSymbols
    <3>3. g[i] = R!Times(c[i], p) /\ up[i] = R!Times(c[i], R!Times(p, a))
      BY <3>2 DEF Powers
    <3> HIDE DEF g, up, a, p
    <3>4. a \in R!Symbols /\ c[i] \in R!Symbols
      BY <1>1 DEF a
    <3>5. g[i] \in R!Symbols /\ up[i] \in R!Symbols /\ up[i] = R!Times(g[i], a)
      BY <3>2, <3>3, <3>4, TimesIs
    <3>6. h[i] \in R!Symbols
      BY <1>1, <3>5, TimesIs
    <3> QED  BY <3>3, <3>5, <3>6 DEF a, p
  <2>4. R!Times(R!Alpha(m[x]), SumOver(T, g)) = SumOver(T, h)
    <3> HIDE DEF g
    <3>1. \A i \in T : g[i] \in R!Symbols /\ h[i] = R!Times(R!Alpha(m[x]), g[i])
      BY <2>3
    <3> HIDE DEF h
    <3> QED  BY <3>1, <1>1, SumTimes
  <2>5. SumOver(T, h) = {}
    BY <1>1, <2>2, <2>4, TimesIs
  <2>6. SumOver(T, both) = {}
    <3>1. \A i \in T : both[i] = R!Plus(up[i], h[i])
      OBVIOUS
    <3> HIDE DEF both, up, h
    <3>2. SumOver(T, both) = R!Plus(SumOver(T, up), SumOver(T, h))
      BY <3>1, SumPlus
    <3> QED  BY <3>2, <2>2, <2>5, NothingIs, PlusIs
  <2>7. both[x] = {}
    <3>1. both[x] = R!Plus(up[x], h[x]) /\ h[x] = R!Times(R!Alpha(m[x]), g[x])
      OBVIOUS
    <3>2. h[x] = up[x] /\ up[x] \in R!Symbols
      BY <1>1, <2>3, <3>1, TimesIs
    <3> QED  BY <3>1, <3>2, PlusIs
  <2>8. SumOver(T, both) = SumOver(U, both)
    <3>1. \A i \in T \ U : both[i] = {}
      BY <2>7
    <3> HIDE DEF both
    <3> QED  BY <3>1, SumFewer
  <2>9. ASSUME NEW i \in U
        PROVE  both[i] = Powers(U, m, less, j)[i]
    <3> DEFINE a == R!Alpha(m[i])
               b == R!Alpha(m[x])
               p == R!Alpha(m[i] * j)
    <3>1. a \in R!Symbols /\ b \in R!Symbols /\ c[i] \in R!Symbols /\ p \in R!Symbols
      BY <1>1, <2>1, AlphaSymbols
    <3>2. /\ both[i] = R!Plus(R!Times(g[i], a), R!Times(b, g[i]))
          /\ g[i] = R!Times(c[i], p)
      BY <2>3
    <3>3. Powers(U, m, less, j)[i] = R!Times(R!Times(c[i], R!Plus(a, b)), p)
      BY DEF Powers
    <3> HIDE DEF a, b, p, g, both
    <3> DEFINE q == R!Plus(a, b)
    <3>4. q \in R!Symbols /\ g[i] \in R!Symbols
      BY <3>1, <3>2, PlusIs, TimesIs
    <3>5. both[i] = R!Times(g[i], q)
      BY <3>1, <3>2, <3>4, TimesIs
    <3> HIDE DEF q
    <3>6. R!Times(R!Times(c[i], q), p) = R!Times(R!Times(c[i], p), q)
      <4>1. R!Times(R!Times(c[i], q), p) = R!Times(c[i], R!Times(q, p))
        BY <3>1, <3>4, TimesIs
      <4>2. R!Times(q, p) = R!Times(p, q)
        BY <3>1, <3>4, TimesIs
      <4>3. R!Times(R!Times(c[i], p), q) = R!Times(c[i], R!Times(p, q))
        BY <3>1, <3>4, TimesIs
      <4> QED  BY <4>1, <4>2, <4>3
    <3> QED  BY <3>2, <3>3, <3>5, <3>6 DEF q
  <2>10. SumOver(U, both) = SumOver(U, Powers(U, m, less, j))
    <3> HIDE DEF both
    <3> QED  BY <2>9, SumSame
  <2> QED  BY <2>6, <2>8, <2>10
<1> QED  BY <1>2, <1>4 DEF Vanish

LEMMA Vandermonde ==
    ASSUME NEW S, IsFiniteSet(S), NEW m \in [S -> Nat], Distinct(S, m),
           NEW c \in [S -> R!Symbols], Vanish(S, m, c)
    PROVE  \A i \in S : c[i] = {}
<1> DEFINE Zero(T) ==
               \A n \in [T -> Nat], d \in [T -> R!Symbols] :
                   Distinct(T, n) /\ Vanish(T, n, d) => \A i \in T : d[i] = {}
           Good == {T \in SUBSET S : Zero(T)}
<1>1. {} \in Good
  OBVIOUS
<1>2. ASSUME NEW T \in SUBSET S, NEW x \in T, T \ {x} \in Good
      PROVE  T \in Good
  <2>1. IsFiniteSet(T)
    BY FS_Subset
  <2>2. ASSUME NEW n \in [T -> Nat], NEW d \in [T -> R!Symbols], Distinct(T, n), Vanish(T, n, d)
        PROVE  \A i \in T : d[i] = {}
    <3> DEFINE U == T \ {x}
               k == [i \in U |-> n[i]]
               less == [i \in U |-> R!Times(d[i], R!Plus(R!Alpha(n[i]), R!Alpha(n[x])))]
    <3>1. less \in [U -> R!Symbols] /\ Vanish(U, n, less)
      BY <2>1, <2>2, OneLess
    <3>2. k \in [U -> Nat] /\ Distinct(U, k)
      BY <2>2 DEF Distinct
    <3>3. Vanish(U, k, less)
      <4>1. \A j : Powers(U, k, less, j) = Powers(U, n, less, j)
        <5> TAKE j
        <5>1. \A i \in U : k[i] = n[i]
          OBVIOUS
        <5> HIDE DEF k, less, U
        <5> QED  BY <5>1 DEF Powers
      <4> HIDE DEF k, less, U
      <4> QED  BY <3>1, <4>1 DEF Vanish
    <3>4. \A i \in U : less[i] = {}
      <4>1. Zero(U)
        BY <1>2
      <4> HIDE DEF less, k, U
      <4> QED  BY <3>1, <3>2, <3>3, <4>1
    <3>5. ASSUME NEW i \in U
          PROVE  d[i] = {}
      <4>1. R!Alpha(n[i]) \in R!Symbols /\ R!Alpha(n[x]) \in R!Symbols /\ d[i] \in R!Symbols
        BY AlphaIs
      <4>2. R!Alpha(n[i]) # R!Alpha(n[x])
        BY <2>2 DEF Distinct
      <4>3. R!Plus(R!Alpha(n[i]), R!Alpha(n[x])) # {} /\ R!Plus(R!Alpha(n[i]), R!Alpha(n[x])) \in R!Symbols
        BY <4>1, <4>2, PlusIs
      <4>4. R!Times(d[i], R!Plus(R!Alpha(n[i]), R!Alpha(n[x]))) = {}
        BY <3>4
      <4> QED  BY <4>1, <4>3, <4>4, TimesIs
    <3>6. d[x] = {}
      <4> DEFINE g == Powers(T, n, d, 0)
      <4>1. Cardinality(T) \in Nat /\ Cardinality(T) # 0
        BY <2>1, FS_CardinalityType, FS_EmptySet
      <4>2. SumOver(T, g) = {}
        BY <2>2, <4>1 DEF Vanish
      <4>3. \A i \in T : g[i] = d[i]
        <5> TAKE i \in T
        <5>1. n[i] * 0 = 0 /\ d[i] \in R!Symbols
          OBVIOUS
        <5>2. R!Alpha(n[i] * 0) = {0}
          BY <5>1, AlphaIs
        <5>3. g[i] = R!Times(d[i], R!Alpha(n[i] * 0))
          BY DEF Powers
        <5> QED  BY <5>1, <5>2, <5>3, TimesIs
      <4> HIDE DEF g
      <4>4. \A i \in T \ {x} : g[i] = {}
        BY <3>5, <4>3
      <4>5. SumOver(T, g) = SumOver({x}, g)
        BY <4>4, SumFewer
      <4>6. g[x] \in R!Symbols
        BY <4>3
      <4> QED  BY <4>2, <4>3, <4>5, <4>6, SumOne
    <3> QED  BY <3>5, <3>6
  <2> QED  BY <2>2
<1>3. S \in Good
  <2> HIDE DEF Good
  <2> QED  BY <1>1, <1>2, OneByOne
<1>4. Zero(S)
  BY <1>3
<1> HIDE DEF Good
<1> QED  BY <1>4
-----------------------------------------------------------------------------
(* The value of a polynomial *)

LEMMA HornerHas ==
    ASSUME NEW n \in Nat, NEW p, \A i \in 1..n : p[i] \in R!Symbols, NEW x \in R!Symbols
    PROVE  \E h : Horner(h, p, n, x)
<1> DEFINE step == [i \in 1..n |-> [s \in R!Symbols |-> R!Plus(R!Times(s, x), p[i])]]
<1>1. step \in [1..n -> [R!Symbols -> R!Symbols]]
  BY TimesIs, PlusIs
<1>2. PICK f \in [0..n -> R!Symbols] : Loop(f, n, {}, step)
  <2> HIDE DEF step
  <2> QED  BY <1>1, NothingIs, Rounds
<1>3. ASSUME NEW i \in 1..n
      PROVE  f[i] = R!Plus(R!Times(f[i - 1], x), p[i])
  <2>1. f[i - 1] \in R!Symbols
    OBVIOUS
  <2> QED  BY <1>2, <2>1 DEF Loop
<1> QED  BY <1>2, <1>3 DEF Loop, Horner

LEMMA ValueUnfolds ==
    ASSUME NEW p, NEW x
    PROVE  R!Value(p, x) = (CHOOSE f : f = [i \in 0..Len(p) |->
               IF i = 0 THEN {} ELSE R!Plus(R!Times(f[i - 1], x), p[i])])[Len(p)]
BY DEF R!Value, R!Fold

LEMMA ValueIs ==
    ASSUME NEW p \in Seq(R!Symbols), NEW x \in R!Symbols
    PROVE  /\ R!Value(p, x) \in R!Symbols
           /\ \E h : Horner(h, p, Len(p), x) /\ R!Value(p, x) = h[Len(p)]
<1> DEFINE n == Len(p)
           Eq(h) == h = [i \in 0..n |-> IF i = 0 THEN {} ELSE R!Plus(R!Times(h[i - 1], x), p[i])]
           chosen == CHOOSE h : Eq(h)
<1>1. n \in Nat /\ \A i \in 1..n : p[i] \in R!Symbols
  OBVIOUS
<1> HIDE DEF n
<1>2. PICK f : Horner(f, p, n, x)
  BY <1>1, HornerHas
<1>3. Eq(f)
  BY <1>1, <1>2 DEF Horner
<1>4. Eq(chosen)
  <2> HIDE DEF Eq
  <2> QED  BY <1>3
<1>5. R!Value(p, x) = chosen[n]
  BY ValueUnfolds DEF n
<1> HIDE DEF chosen
<1>6. n \in Nat /\ 0 \in 0..n /\ \A i \in 1..n : i \in 0..n /\ i # 0
  BY <1>1
<1>7. chosen[0] = {} /\ \A i \in 1..n : chosen[i] = R!Plus(R!Times(chosen[i - 1], x), p[i])
  BY <1>4, <1>6
<1> DEFINE S == {i \in 0..n : chosen[i] = f[i]}
<1>8. 0 \in S /\ \A i \in 1..n : i - 1 \in S => i \in S
  BY <1>2, <1>6, <1>7 DEF Horner
<1> HIDE DEF S, Eq
<1>9. \A i \in 0..n : i \in S
  BY <1>1, <1>8, UpTo, Zenon
<1>10. R!Value(p, x) = f[n]
  BY <1>1, <1>5, <1>9 DEF S
<1>11. f[n] \in R!Symbols
  BY <1>1, <1>2 DEF Horner
<1> QED  BY <1>2, <1>10, <1>11 DEF n

LEMMA TermsAre ==
    ASSUME NEW n \in Nat, NEW p, \A i \in 1..n : p[i] \in R!Symbols, NEW m \in Nat,
           NEW k \in 0..n
    PROVE  /\ IsFiniteSet(1..k)
           /\ \A i \in 1..k : /\ Terms(p, k, m)[i] = R!Times(p[i], R!Alpha(m * (k - i)))
                              /\ Terms(p, k, m)[i] \in R!Symbols
<1>1. IsFiniteSet(1..k)
  BY FS_Interval
<1>2. ASSUME NEW i \in 1..k
      PROVE  R!Times(p[i], R!Alpha(m * (k - i))) \in R!Symbols
  <2>1. k - i \in Nat /\ p[i] \in R!Symbols
    OBVIOUS
  <2>2. R!Alpha(m * (k - i)) \in R!Symbols
    BY <2>1, AlphaSymbols
  <2> QED  BY <2>1, <2>2, TimesIs
<1> QED  BY <1>1, <1>2 DEF Terms

LEMMA HornerSums ==
    ASSUME NEW n \in Nat, NEW p, \A i \in 1..n : p[i] \in R!Symbols, NEW m \in Nat,
           NEW h, Horner(h, p, n, R!Alpha(m))
    PROVE  \A k \in 0..n : h[k] = SumOver(1..k, Terms(p, k, m))
<1> DEFINE S == {k \in 0..n : h[k] = SumOver(1..k, Terms(p, k, m))}
<1>0. R!Alpha(m) \in R!Symbols
  BY AlphaIs
<1>1. 0 \in S
  <2>1. 1..0 = {} /\ 0 \in 0..n /\ h[0] = {}
    BY DEF Horner
  <2>2. SumOver(1..0, Terms(p, 0, m)) = {}
    BY <2>1, SumEmpty
  <2> QED  BY <2>1, <2>2
<1>2. ASSUME NEW k \in 1..n, k - 1 \in S
      PROVE  k \in S
  <2> DEFINE old == Terms(p, k - 1, m)
             new == Terms(p, k, m)
  <2>1. /\ k - 1 \in 0..n /\ k \in 0..n /\ h[k - 1] = SumOver(1..(k - 1), old) /\ p[k] \in R!Symbols
    BY <1>2
  <2>2. IsFiniteSet(1..(k - 1)) /\ \A i \in 1..(k - 1) : old[i] = R!Times(p[i], R!Alpha(m * (k - 1 - i)))
                              /\ old[i] \in R!Symbols
    BY <2>1, TermsAre
  <2>3. IsFiniteSet(1..k) /\ \A i \in 1..k : new[i] = R!Times(p[i], R!Alpha(m * (k - i)))
                              /\ new[i] \in R!Symbols
    BY <2>1, TermsAre
  <2> HIDE DEF old, new
  <2>4. \A i \in 1..(k - 1) : new[i] = R!Times(R!Alpha(m), old[i])
    <3> TAKE i \in 1..(k - 1)
    <3>1. k - 1 - i \in Nat /\ k - i = (k - 1 - i) + 1 /\ i \in 1..k /\ p[i] \in R!Symbols
      OBVIOUS
    <3> DEFINE e == k - 1 - i
    <3>2. e \in Nat /\ m * (k - i) = m * e + m /\ m * e \in Nat
      BY <3>1
    <3>3. new[i] = R!Times(p[i], R!Alpha(m * e + m)) /\ old[i] = R!Times(p[i], R!Alpha(m * e))
      BY <2>2, <2>3, <3>1, <3>2
    <3> HIDE DEF e
    <3>4. R!Alpha(m * e + m) = R!Times(R!Alpha(m * e), R!Alpha(m)) /\ R!Alpha(m * e) \in R!Symbols
      BY <3>2, AlphasMultiply, AlphaIs
    <3>5. R!Times(p[i], R!Times(R!Alpha(m * e), R!Alpha(m))) = R!Times(R!Times(p[i], R!Alpha(m * e)), R!Alpha(m))
      <4> DEFINE a == p[i]
                 b == R!Alpha(m * e)
                 c == R!Alpha(m)
      <4>1. a \in R!Symbols /\ b \in R!Symbols /\ c \in R!Symbols
        BY <1>0, <3>1, <3>4
      <4> HIDE DEF a, b, c
      <4>2. R!Times(a, R!Times(b, c)) = R!Times(R!Times(a, b), c)
        BY <4>1, TimesIs
      <4> QED  BY <4>2 DEF a, b, c
    <3>6. new[i] = R!Times(old[i], R!Alpha(m))
      BY <3>3, <3>4, <3>5
    <3> QED  BY <1>0, <2>2, <3>6, TimesIs
  <2>5. R!Times(R!Alpha(m), SumOver(1..(k - 1), old)) = SumOver(1..(k - 1), new)
    <3> DEFINE U == 1..(k - 1)
    <3>1. \A i \in U : old[i] \in R!Symbols /\ new[i] = R!Times(R!Alpha(m), old[i])
      BY <2>2, <2>4
    <3>2. IsFiniteSet(U)
      BY <2>2
    <3> HIDE DEF U
    <3>3. R!Times(R!Alpha(m), SumOver(U, old)) = SumOver(U, new)
      BY <1>0, <3>1, <3>2, SumTimes
    <3> QED  BY <3>3 DEF U
  <2>6. new[k] = p[k]
    <3>1. k \in 1..k /\ k - k = 0 /\ m * 0 = 0
      OBVIOUS
    <3>2. m * (k - k) = 0
      BY <3>1
    <3>3. new[k] = R!Times(p[k], R!Alpha(0))
      BY <2>3, <3>1, <3>2
    <3> QED  BY <2>1, <3>3, AlphaIs, TimesIs
  <2>7. SumOver(1..k, new) = R!Plus(SumOver(1..(k - 1), new), p[k])
    <3>1. k \in 1..k /\ (1..k) \ {k} = 1..(k - 1)
      OBVIOUS
    <3>2. SumOver(1..k, new) = R!Plus(SumOver((1..k) \ {k}, new), new[k])
      BY <2>3, <3>1, SumWithout
    <3> QED  BY <2>6, <3>1, <3>2
  <2>8. h[k] = R!Plus(R!Times(h[k - 1], R!Alpha(m)), p[k]) /\ h[k - 1] \in R!Symbols
    BY <2>1 DEF Horner
  <2>9. R!Times(h[k - 1], R!Alpha(m)) = R!Times(R!Alpha(m), h[k - 1])
    BY <1>0, <2>8, TimesIs
  <2>10. h[k] = SumOver(1..k, new)
    BY <2>1, <2>5, <2>7, <2>8, <2>9
  <2> QED  BY <2>10 DEF new
<1> HIDE DEF S
<1>3. \A k \in 0..n : k \in S
  BY <1>1, <1>2, UpTo, Zenon
<1> QED  BY <1>3 DEF S

LEMMA TimesAround ==
    ASSUME NEW a \in R!Symbols, NEW b \in R!Symbols, NEW c \in R!Symbols
    PROVE  /\ R!Times(a, R!Times(b, c)) = R!Times(R!Times(a, b), c)
           /\ R!Times(a, R!Times(b, c)) = R!Times(b, R!Times(a, c))
           /\ R!Times(R!Times(a, b), c) = R!Times(R!Times(a, c), b)
<1>1. R!Times(a, R!Times(b, c)) = R!Times(R!Times(a, b), c)
  BY TimesIs
<1>2. R!Times(b, R!Times(a, c)) = R!Times(R!Times(b, a), c)
  BY TimesIs
<1>3. R!Times(a, R!Times(c, b)) = R!Times(R!Times(a, c), b)
  BY TimesIs
<1>4. R!Times(a, b) = R!Times(b, a) /\ R!Times(b, c) = R!Times(c, b)
  BY TimesIs
<1> QED  BY <1>1, <1>2, <1>3, <1>4

\* Division by a root: what the quotient's coefficients are.
LEMMA Quotients ==
    ASSUME NEW k \in Nat, NEW p, \A i \in 1..(k + 1) : p[i] \in R!Symbols,
           NEW y \in R!Symbols, NEW z \in R!Symbols,
           NEW q, Horner(q, p, k + 1, z),
           NEW h, Horner(h, p, k + 1, y), NEW g, Horner(g, q, k, y)
    PROVE  h[k + 1] = R!Plus(R!Times(R!Plus(y, z), g[k]), q[k + 1])
<1> DEFINE s == R!Plus(y, z)
           S == {i \in 0..k : h[i + 1] = R!Plus(R!Times(s, g[i]), q[i + 1])}
<1>0. s \in R!Symbols
  BY PlusIs
<1>1. 0 \in S
  <2>1. 1 \in 1..(k + 1) /\ 1 - 1 = 0 /\ 0 \in 0..k
    OBVIOUS
  <2>2. h[1] = R!Plus(R!Times({}, y), p[1]) /\ q[1] = R!Plus(R!Times({}, z), p[1]) /\ g[0] = {}
    BY <2>1 DEF Horner
  <2>3. R!Times({}, y) = {} /\ R!Times({}, z) = {} /\ R!Times(s, {}) = {} /\ p[1] \in R!Symbols
    BY <1>0, <2>1, TimesIs
  <2>4. R!Plus({}, p[1]) = p[1] /\ R!Plus({}, {}) = {}
    BY <2>3, PlusIs, NothingIs
  <2>5. h[1] = R!Plus(R!Times(s, g[0]), q[1])
    BY <2>2, <2>3, <2>4
  <2> HIDE DEF s
  <2> QED  BY <2>1, <2>5
<1>2. ASSUME NEW i \in 1..k, i - 1 \in S
      PROVE  i \in S
  <2> DEFINE old == g[i - 1]
             c == q[i]
             e == p[i + 1]
             m == R!Times(s, old)
  <2>1. /\ i \in 1..(k + 1) /\ i + 1 \in 1..(k + 1) /\ i + 1 - 1 = i /\ i - 1 + 1 = i
        /\ i - 1 \in 0..k /\ i \in 0..k /\ i \in 0..(k + 1)
    OBVIOUS
  <2>2. h[i] = R!Plus(m, c)
    BY <1>2, <2>1
  <2>3. /\ h[i + 1] = R!Plus(R!Times(h[i], y), e)
        /\ q[i + 1] = R!Plus(R!Times(c, z), e)
        /\ g[i] = R!Plus(R!Times(old, y), c)
    BY <2>1 DEF Horner
  <2>4. old \in R!Symbols /\ c \in R!Symbols /\ e \in R!Symbols
    BY <2>1 DEF Horner
  <2> HIDE DEF old, c, e
  <2>5. m \in R!Symbols /\ R!Times(old, y) \in R!Symbols
    BY <1>0, <2>4, TimesIs
  <2>6. R!Times(R!Plus(m, c), y) = R!Plus(R!Times(m, y), R!Times(c, y))
    BY <2>4, <2>5, TimesIs
  <2>7. R!Times(s, R!Plus(R!Times(old, y), c)) = R!Plus(R!Times(s, R!Times(old, y)), R!Times(s, c))
    BY <1>0, <2>4, <2>5, TimesIs
  <2>8. R!Times(s, R!Times(old, y)) = R!Times(m, y)
    BY <1>0, <2>4, TimesAround
  <2>9. R!Times(s, c) = R!Plus(R!Times(c, y), R!Times(c, z))
    <3>1. R!Times(s, c) = R!Times(c, s)
      BY <1>0, <2>4, TimesIs
    <3> QED  BY <3>1, <2>4, TimesIs
  <2> HIDE DEF m
  <2>10. h[i + 1] = R!Plus(R!Plus(R!Times(m, y), R!Times(c, y)), e)
    BY <2>2, <2>3, <2>6
  <2>11. R!Times(s, g[i]) = R!Plus(R!Times(m, y), R!Plus(R!Times(c, y), R!Times(c, z)))
    BY <2>3, <2>7, <2>8, <2>9
  <2>12. R!Plus(R!Times(s, g[i]), q[i + 1]) = h[i + 1]
    BY <2>3, <2>10, <2>11 DEF R!Plus
  <2> QED  BY <2>1, <2>12
<1> HIDE DEF S
<1>3. \A i \in 0..k : i \in S
  BY <1>1, <1>2, UpTo, Zenon
<1>4. k \in S
  BY <1>3
<1> QED  BY <1>4 DEF S

LEMMA FewRoots ==
    ASSUME NEW n \in Nat, NEW p \in [1..(n + 1) -> R!Symbols], p[1] = {0},
           NEW Z \in SUBSET R!Symbols, \A y \in Z : Vanishes(p, n + 1, y)
    PROVE  Cardinality(Z) <= n
<1> DEFINE Few(k) ==
               \A q \in [1..(k + 1) -> R!Symbols], U \in SUBSET R!Symbols :
                   q[1] = {0} /\ (\A y \in U : Vanishes(q, k + 1, y)) => Cardinality(U) <= k
           S == {k \in 0..n : Few(k)}
<1>1. 0 \in S
  <2>1. ASSUME NEW q \in [1..1 -> R!Symbols], NEW U \in SUBSET R!Symbols, q[1] = {0},
               \A y \in U : Vanishes(q, 1, y)
        PROVE  Cardinality(U) <= 0
    <3>1. ASSUME NEW y \in U
          PROVE  FALSE
      <4>1. PICK h : Horner(h, q, 1, y)
        BY HornerHas
      <4>2. h[1] = {}
        BY <2>1, <4>1 DEF Vanishes
      <4>3. 1 \in 1..1 /\ 1 - 1 = 0
        OBVIOUS
      <4>4. h[1] = R!Plus(R!Times({}, y), q[1])
        BY <4>1, <4>3 DEF Horner
      <4>5. R!Times({}, y) = {} /\ R!Plus({}, {0}) = {0}
        BY TimesIs, PlusIs, ZeroIs
      <4> QED  BY <2>1, <4>2, <4>4, <4>5
    <3>2. U = {}
      BY <3>1
    <3> QED  BY <3>2, FS_EmptySet
  <2>2. 0 + 1 = 1
    OBVIOUS
  <2>3. Few(0)
    BY <2>1, <2>2
  <2> HIDE DEF Few
  <2> QED  BY <2>3
<1>2. ASSUME NEW k \in 1..n, k - 1 \in S
      PROVE  k \in S
  <2>0. k \in Nat /\ k - 1 \in Nat /\ k - 1 + 1 = k
    OBVIOUS
  <2>1. ASSUME NEW q \in [1..(k + 1) -> R!Symbols], NEW U \in SUBSET R!Symbols, q[1] = {0},
               \A y \in U : Vanishes(q, k + 1, y), NEW z \in U
        PROVE  Cardinality(U) <= k
    <3>1. PICK t : Horner(t, q, k + 1, z)
      <4>1. k + 1 \in Nat /\ \A i \in 1..(k + 1) : q[i] \in R!Symbols
        BY <2>0
      <4> QED  BY <4>1, HornerHas
    <3> DEFINE r == [i \in 1..k |-> t[i]]
    <3>2. r \in [1..k -> R!Symbols] /\ t[k + 1] = {}
      BY <2>0, <2>1, <3>1 DEF Horner, Vanishes
    <3>3. r[1] = {0}
      <4>1. 1 \in 1..(k + 1) /\ 1 \in 1..k /\ 1 - 1 = 0
        BY <2>0
      <4>2. t[1] = R!Plus(R!Times({}, z), q[1])
        BY <3>1, <4>1 DEF Horner
      <4>3. R!Times({}, z) = {} /\ R!Plus({}, {0}) = {0}
        BY TimesIs, PlusIs, ZeroIs
      <4> QED  BY <2>1, <4>1, <4>2, <4>3
    <3>4. ASSUME NEW y \in U \ {z}
          PROVE  Vanishes(r, k, y)
      <4>1. SUFFICES ASSUME NEW g, Horner(g, r, k, y)
                     PROVE  g[k] = {}
        BY DEF Vanishes
      <4>2. Horner(g, t, k, y)
        BY <4>1 DEF Horner
      <4>3. PICK h : Horner(h, q, k + 1, y)
        <5>1. k + 1 \in Nat /\ \A i \in 1..(k + 1) : q[i] \in R!Symbols
          BY <2>0
        <5> QED  BY <5>1, HornerHas
      <4>4. h[k + 1] = {}
        BY <2>1, <4>3 DEF Vanishes
      <4>5. y \in R!Symbols /\ z \in R!Symbols /\ \A i \in 1..(k + 1) : q[i] \in R!Symbols
        BY <2>0
      <4>6. h[k + 1] = R!Plus(R!Times(R!Plus(y, z), g[k]), t[k + 1])
        BY <2>0, <3>1, <4>2, <4>3, <4>5, Quotients
      <4>7. g[k] \in R!Symbols /\ R!Plus(y, z) \in R!Symbols /\ R!Plus(y, z) # {}
        BY <2>0, <4>1, <4>5, PlusIs DEF Horner
      <4> DEFINE a == R!Plus(y, z)
                 b == g[k]
      <4>8. a \in R!Symbols /\ a # {} /\ b \in R!Symbols
        BY <4>7
      <4> HIDE DEF a, b
      <4>9. R!Times(a, b) \in R!Symbols
        BY <4>8, TimesIs
      <4>10. R!Plus(R!Times(a, b), {}) = {}
        BY <3>2, <4>4, <4>6 DEF a, b
      <4>11. R!Times(a, b) = {}
        BY <4>9, <4>10, NothingIs, PlusIs
      <4>12. b = {}
        BY <4>8, <4>11, NoDivisors
      <4> QED  BY <4>12 DEF b
    <3>5. Cardinality(U \ {z}) <= k - 1
      <4>1. Few(k - 1)
        BY <1>2
      <4> HIDE DEF r
      <4>2. r \in [1..(k - 1 + 1) -> R!Symbols] /\ \A y \in U \ {z} : Vanishes(r, k - 1 + 1, y)
        BY <2>0, <3>2, <3>4
      <4> QED  BY <3>3, <4>1, <4>2
    <3>6. IsFiniteSet(U)
      BY SizesAre, FS_Subset
    <3>7. Cardinality(U \ {z}) = Cardinality(U) - 1 /\ Cardinality(U) \in Nat
      BY <3>6, FS_RemoveElement, FS_CardinalityType
    <3> QED  BY <2>0, <3>5, <3>7
  <2>2. ASSUME NEW q \in [1..(k + 1) -> R!Symbols], NEW U \in SUBSET R!Symbols, q[1] = {0},
               \A y \in U : Vanishes(q, k + 1, y)
        PROVE  Cardinality(U) <= k
    <3>1. CASE U = {}
      BY <2>0, <3>1, FS_EmptySet
    <3>2. CASE U # {}
      BY <2>1, <2>2, <3>2
    <3> QED  BY <3>1, <3>2
  <2>3. Few(k)
    BY <2>2
  <2> HIDE DEF Few
  <2> QED  BY <2>3
<1> HIDE DEF S
<1>3. \A k \in 0..n : k \in S
  BY <1>1, <1>2, UpTo, Zenon
<1>4. Few(n)
  BY <1>3 DEF S
<1> QED  BY <1>4
-----------------------------------------------------------------------------
(* Places *)

LEMMA ProductsOrdered ==
    ASSUME NEW t \in Nat, t > 0, NEW a \in Nat, NEW b \in Nat, t * a = t * b
    PROVE  a = b
<1>1. ASSUME NEW c \in Nat, NEW d \in Nat, c < d
      PROVE  t * c < t * d
  <2> DEFINE e == d - c
  <2>1. e \in Nat /\ e > 0 /\ d = c + e
    BY <1>1
  <2> HIDE DEF e
  <2>2. t * d = t * c + t * e /\ t * c \in Int
    BY <2>1
  <2>3. t * e > 0 /\ t * e \in Int
    BY <2>1
  <2> QED  BY <2>2, <2>3
<1>2. t * a \in Int /\ t * b \in Int
  OBVIOUS
<1> QED  BY <1>1, <1>2

\* The steps between places do not come back to one before Order of them.
LEMMA StepsReturn ==
    ASSUME NEW c \in 1..(R!Order - 1)
    PROVE  (c * PrimitiveStep) % R!Order # 0
<1> DEFINE N == R!Order
           P == PrimitiveStep
           S == {k \in 1..c : (k * P) % N = 0}
<1>1. N \in Nat /\ N >= 2 /\ P \in 1..(N - 1) /\ c \in 1..(N - 1)
  BY SizesAre
<1>2. \A d \in 2..N : P % d # 0 \/ N % d # 0
  BY ReceiversAssumption DEF R!CodeAssumption, R!Coprime
<1> HIDE DEF N, P
<1>3. SUFFICES ASSUME (c * P) % N = 0
               PROVE  FALSE
  BY DEF N, P
<1>4. PICK t \in S : \A k \in S : t <= k
  <2>1. c \in S
    BY <1>1, <1>3
  <2>2. S \in SUBSET Nat
    BY <1>1
  <2> HIDE DEF S
  <2> QED  BY <2>1, <2>2, LeastOne
<1>5. t \in Nat /\ t > 0 /\ t <= c /\ t < N /\ (t * P) % N = 0
  BY <1>1, <1>4
<1>6. PICK u \in Nat : t * P = N * u
  <2>1. t * P \in Nat
    BY <1>1, <1>5
  <2>2. PICK q \in Nat : t * P = N * q + ((t * P) % N)
    <3> DEFINE e == t * P
    <3>0. e \in Nat /\ N > 0
      BY <1>1, <2>1
    <3> HIDE DEF e
    <3>1. \E q \in Nat : e = N * q + (e % N)
      BY <1>1, <3>0, Divided, Zenon
    <3> QED  BY <3>1 DEF e
  <2>3. N * q \in Nat
    BY <1>1
  <2> QED  BY <1>5, <2>2, <2>3
<1>7. PICK q \in Nat, r \in 0..(t - 1) : N = t * q + r
  <2>1. N % t \in 0..(t - 1) /\ \E q \in Nat : N = t * q + (N % t)
    BY <1>1, <1>5, Divided
  <2> QED  BY <2>1
<1>8. r = 0
  <2> DEFINE v == P - q * u
  <2>1. r * P = N * P - q * (t * P)
    <3>1. r = N - t * q /\ t * q \in Int
      BY <1>5, <1>7
    <3>2. r * P = (N - t * q) * P
      BY <3>1
    <3>3. (N - t * q) * P = N * P - (t * q) * P
      BY <1>1, <3>1
    <3>4. (t * q) * P = q * (t * P)
      BY <1>1, <1>5
    <3> QED  BY <3>2, <3>3, <3>4
  <2>2. r * P = N * v /\ v \in Int
    <3>1. q * (t * P) = N * (q * u)
      BY <1>1, <1>6
    <3>2. q * u \in Int /\ N * (P - q * u) = N * P - N * (q * u)
      BY <1>1
    <3> QED  BY <1>1, <2>1, <3>1, <3>2
  <2> HIDE DEF v
  <2>3. (N * v + 0) % N = 0
    BY <1>1, <2>2, RemainderIs
  <2>4. N * v \in Int /\ N * v + 0 = N * v
    BY <1>1, <2>2
  <2>5. (r * P) % N = 0
    BY <2>2, <2>3, <2>4
  <2>6. r \in 1..c => r \in S
    BY <2>5
  <2>7. r \in 0..(t - 1) /\ ~(t <= r)
    BY <1>5
  <2> QED  BY <1>1, <1>4, <1>5, <2>6, <2>7
<1>9. N = t * q
  BY <1>1, <1>5, <1>7, <1>8
<1>10. q \in 2..N
  <2>1. q # 0 /\ q # 1
    <3>1. t * 0 = 0 /\ t * 1 = t
      BY <1>5
    <3> QED  BY <1>1, <1>5, <1>9, <3>1
  <2>2. q <= t * q
    <3>1. t * q = (t - 1) * q + q /\ (t - 1) \in Nat
      BY <1>5
    <3>2. (t - 1) * q \in Nat
      BY <3>1
    <3> QED  BY <3>1, <3>2
  <2> QED  BY <1>9, <2>1, <2>2
<1>11. P = q * u
  <2>1. t * P = t * (q * u) /\ q * u \in Nat
    BY <1>5, <1>6, <1>9
  <2> QED  BY <1>1, <1>5, <2>1, ProductsOrdered
<1>12. P % q = 0 /\ N % q = 0
  <2>1. q \in Nat /\ q > 0
    BY <1>10
  <2>2. (q * u + 0) % q = 0 /\ (q * t + 0) % q = 0
    BY <1>5, <2>1, RemainderIs
  <2>3. q * u + 0 = P /\ q * t + 0 = N
    BY <1>1, <1>5, <1>9, <1>11
  <2> QED  BY <2>2, <2>3
<1> QED  BY <1>2, <1>10, <1>12

LEMMA CodeSizes ==
    /\ R!CodewordSymbols \in 1..R!Order /\ R!CodewordSymbols = R!DataSymbols + Parity
    /\ R!DataSymbols \in Nat /\ R!DataSymbols > 0
    /\ Parity \in Nat /\ Parity > 0 /\ R!Radius \in Nat /\ Parity = R!Radius + R!Radius
    /\ FirstRoot \in Nat /\ PrimitiveStep \in Nat
<1>1. /\ Parity \in Nat \ {0} /\ Parity % 2 = 0
      /\ Shortening \in Nat /\ R!DataSymbols > 0
  BY ReceiversAssumption DEF R!CodeAssumption
<1>2. R!Order \in Nat /\ FirstRoot \in Nat /\ PrimitiveStep \in Nat
  BY SizesAre
<1>3. Parity = R!Radius + R!Radius /\ R!Radius \in Nat
  BY <1>1 DEF R!Radius
<1> QED  BY <1>1, <1>2, <1>3 DEF R!CodewordSymbols, R!DataSymbols

\* Different places stand for different symbols.
LEMMA PlacesDiffer ==
    ASSUME NEW i \in 1..R!CodewordSymbols, NEW k \in 1..R!CodewordSymbols,
           R!Alpha(R!Place(i)) = R!Alpha(R!Place(k))
    PROVE  i = k
<1> DEFINE n == R!CodewordSymbols
           N == R!Order
           P == PrimitiveStep
<1>1. n \in 1..N /\ N \in Nat /\ P \in Nat /\ N >= 2
  BY CodeSizes, SizesAre
<1>2. \A c \in 1..(N - 1) : (c * P) % N # 0
  BY StepsReturn
<1>3. ASSUME NEW a \in 1..n, NEW b \in 1..n, a < b, R!Alpha(R!Place(a)) = R!Alpha(R!Place(b))
      PROVE  FALSE
  <2> DEFINE x == R!Place(a)
             y == R!Place(b)
             c == b - a
  <2>1. x = (n - a) * P /\ y = (n - b) * P
    BY DEF R!Place
  <2> HIDE DEF n, N, P, x, y
  <2>2. c \in 1..(N - 1) /\ n - a \in Nat /\ n - b \in Nat /\ n - a = (n - b) + c
    BY <1>1, <1>3
  <2>3. x = y + c * P /\ x \in Nat /\ y \in Nat /\ c * P \in Nat
    BY <1>1, <2>1, <2>2
  <2>4. x % N = y % N
    BY <1>3, <2>3, AlphaIs DEF N, x, y
  <2>5. PICK p \in Nat, q \in Nat : x = N * p + (x % N) /\ y = N * q + (y % N)
    <3>1. N > 0
      BY <1>1
    <3> QED  BY <1>1, <2>3, <3>1, Divided, Zenon
  <2>6. x % N \in 0..(N - 1)
    BY <1>1, <2>3, Divided
  <2> HIDE DEF c
  <2>7. c * P = N * (p - q) + 0 /\ p - q \in Int
    <3>1. N * (p - q) = N * p - N * q /\ N * p \in Int /\ N * q \in Int
      BY <1>1
    <3> QED  BY <1>1, <2>3, <2>4, <2>5, <2>6, <3>1
  <2>8. (c * P) % N = 0
    BY <1>1, <2>7, RemainderIs
  <2> QED  BY <1>2, <2>2, <2>8
<1> QED  BY <1>1, <1>3
-----------------------------------------------------------------------------
(* Words of a lane and their syndromes *)

LEMMA LaneWordIs ==
    ASSUME NEW w \in LaneWords
    PROVE  w \in Seq(R!Symbols) /\ Len(w) = R!CodewordSymbols /\ DOMAIN w = 1..R!CodewordSymbols
<1>1. R!CodewordSymbols \in Nat
  BY CodeSizes
<1> QED  BY <1>1 DEF LaneWords

LEMMA PlacesAre ==
    ASSUME NEW i \in 1..R!CodewordSymbols, NEW j \in Nat
    PROVE  /\ R!Place(i) \in Nat
           /\ R!Alpha(R!Place(i)) \in R!Symbols /\ R!Alpha(R!Place(i)) # {}
           /\ R!Place(i) * j \in Nat
           /\ R!Alpha(R!Place(i) * j) \in R!Symbols /\ R!Alpha(R!Place(i) * j) # {}
           /\ R!Alpha(R!Place(i) * FirstRoot) \in R!Symbols /\ R!Alpha(R!Place(i) * FirstRoot) # {}
           /\ PlaceIn(j, i) = R!Times(R!Alpha(R!Place(i) * FirstRoot), R!Alpha(R!Place(i) * j))
<1> DEFINE n == R!CodewordSymbols
           P == PrimitiveStep
           F == FirstRoot
           a == (n - i) * P
<1>1. n \in Nat /\ i \in 1..n /\ P \in Nat /\ F \in Nat
  BY CodeSizes
<1>2. R!Place(i) = a
  BY DEF R!Place
<1> HIDE DEF n, P, F
<1>3. n - i \in Nat
  BY <1>1
<1>4. a \in Nat
  BY <1>1, <1>3
<1>5. ((F + j) * P) * (n - i) = a * F + a * j
  <2> DEFINE b == n - i
  <2>1. b \in Nat
    BY <1>3
  <2> HIDE DEF b
  <2>2. ((F + j) * P) * b = (b * P) * F + (b * P) * j
    BY <1>1, <2>1
  <2> QED  BY <2>2 DEF b
<1> HIDE DEF a
<1>6. a * F \in Nat /\ a * j \in Nat
  BY <1>1, <1>4
<1>7. R!Alpha(a * F + a * j) = R!Times(R!Alpha(a * F), R!Alpha(a * j))
  BY <1>6, AlphasMultiply
<1>8. PlaceIn(j, i) = R!Alpha(a * F + a * j)
  BY <1>5 DEF PlaceIn, n, F, P
<1>9. /\ R!Alpha(a) \in R!Symbols /\ R!Alpha(a) # {}
      /\ R!Alpha(a * F) \in R!Symbols /\ R!Alpha(a * F) # {}
      /\ R!Alpha(a * j) \in R!Symbols /\ R!Alpha(a * j) # {}
  BY <1>4, <1>6, AlphaIs
<1> QED  BY <1>2, <1>4, <1>6, <1>7, <1>8, <1>9 DEF F

\* A syndrome is the sum of the symbols times their places' powers.
LEMMA SyndromeIs ==
    ASSUME NEW w \in LaneWords, NEW j \in Nat,
           NEW g, \A i \in 1..R!CodewordSymbols : g[i] = R!Times(w[i], PlaceIn(j, i))
    PROVE  /\ R!Value(w, R!Root(j)) \in R!Symbols
           /\ R!Value(w, R!Root(j)) = SumOver(1..R!CodewordSymbols, g)
<1> DEFINE n == R!CodewordSymbols
           m == (FirstRoot + j) * PrimitiveStep
<1>1. n \in Nat /\ w \in Seq(R!Symbols) /\ Len(w) = n /\ \A i \in 1..n : w[i] \in R!Symbols
  BY CodeSizes, LaneWordIs DEF LaneWords
<1>2. FirstRoot + j \in Nat /\ PrimitiveStep \in Nat
  BY CodeSizes
<1>3. m \in Nat
  BY <1>2
<1>4. R!Root(j) = R!Alpha(m)
  BY DEF R!Root
<1>5. \A i \in 1..n : PlaceIn(j, i) = R!Alpha(m * (n - i))
  BY DEF PlaceIn
<1> HIDE DEF n, m
<1>6. R!Alpha(m) \in R!Symbols
  BY <1>3, AlphaIs
<1>7. PICK h : Horner(h, w, n, R!Alpha(m)) /\ R!Value(w, R!Alpha(m)) = h[n]
  BY <1>1, <1>6, ValueIs
<1>8. h[n] = SumOver(1..n, Terms(w, n, m))
  <2>1. \A k \in 0..n : h[k] = SumOver(1..k, Terms(w, k, m))
    BY <1>1, <1>3, <1>7, HornerSums
  <2> QED  BY <1>1, <2>1
<1>9. \A i \in 1..n : Terms(w, n, m)[i] = g[i]
  BY <1>5 DEF Terms, n
<1>10. SumOver(1..n, Terms(w, n, m)) = SumOver(1..n, g)
  BY <1>9, SumSame
<1>11. R!Value(w, R!Alpha(m)) \in R!Symbols
  BY <1>1, <1>6, ValueIs
<1> QED  BY <1>4, <1>7, <1>8, <1>10, <1>11 DEF n

LEMMA PlacesOfAre ==
    ASSUME NEW S \in SUBSET (1..R!CodewordSymbols)
    PROVE  /\ IsFiniteSet(S) /\ PlacesOf(S) \in [S -> Nat] /\ Distinct(S, PlacesOf(S))
<1>1. \A i \in S : i \in 1..R!CodewordSymbols /\ R!Place(i) \in Nat
  BY PlacesAre
<1>2. R!CodewordSymbols \in Int
  BY CodeIs
<1>3. IsFiniteSet(S)
  <2>1. IsFiniteSet(1..R!CodewordSymbols)
    BY <1>2, FS_Interval
  <2> QED  BY <2>1, FS_Subset
<1>4. PlacesOf(S) \in [S -> Nat]
  BY <1>1 DEF PlacesOf
<1>5. Distinct(S, PlacesOf(S))
  BY <1>1, PlacesDiffer DEF Distinct, PlacesOf
<1> QED  BY <1>3, <1>4, <1>5

LEMMA SeenIs ==
    ASSUME NEW u \in LaneWords, NEW w \in LaneWords, NEW S \in SUBSET (1..R!CodewordSymbols)
    PROVE  /\ Seen(u, w, S) \in [S -> R!Symbols]
           /\ \A i \in S : Seen(u, w, S)[i] = {} => u[i] = w[i]
<1>1. ASSUME NEW i \in S
      PROVE  /\ R!Times(R!Plus(u[i], w[i]), R!Alpha(R!Place(i) * FirstRoot)) \in R!Symbols
             /\ R!Times(R!Plus(u[i], w[i]), R!Alpha(R!Place(i) * FirstRoot)) = {} => u[i] = w[i]
  <2> DEFINE a == u[i]
             b == w[i]
             c == R!Alpha(R!Place(i) * FirstRoot)
             d == R!Plus(a, b)
  <2>1. a \in R!Symbols /\ b \in R!Symbols
    BY DEF LaneWords
  <2>2. c \in R!Symbols /\ c # {}
    <3>1. i \in 1..R!CodewordSymbols
      OBVIOUS
    <3> QED  BY <3>1, PlacesAre
  <2> HIDE DEF a, b, c
  <2>3. d \in R!Symbols /\ (d = {} => a = b)
    BY <2>1, PlusIs
  <2> HIDE DEF d
  <2>4. R!Times(d, c) \in R!Symbols /\ (R!Times(d, c) = {} => d = {})
    BY <2>2, <2>3, TimesIs
  <2> QED  BY <2>3, <2>4 DEF a, b, c, d
<1> QED  BY <1>1 DEF Seen

LEMMA SyndromesDiffer ==
    ASSUME NEW u \in LaneWords, NEW w \in LaneWords, NEW S \in SUBSET (1..R!CodewordSymbols),
           \A i \in (1..R!CodewordSymbols) \ S : u[i] = w[i], NEW j \in Nat
    PROVE  R!Plus(R!Value(u, R!Root(j)), R!Value(w, R!Root(j)))
               = SumOver(S, Powers(S, PlacesOf(S), Seen(u, w, S), j))
<1> DEFINE n == R!CodewordSymbols
           g == [i \in 1..n |-> R!Times(u[i], PlaceIn(j, i))]
           h == [i \in 1..n |-> R!Times(w[i], PlaceIn(j, i))]
           f == [i \in 1..n |-> R!Plus(g[i], h[i])]
<1>1. R!Value(u, R!Root(j)) = SumOver(1..n, g) /\ R!Value(w, R!Root(j)) = SumOver(1..n, h)
  BY SyndromeIs
<1>2. IsFiniteSet(1..n)
  BY CodeIs, FS_Interval
<1>3. SumOver(1..n, f) = R!Plus(SumOver(1..n, g), SumOver(1..n, h))
  <2>1. \A i \in 1..n : f[i] = R!Plus(g[i], h[i])
    OBVIOUS
  <2> DEFINE U == 1..n
  <2> HIDE DEF f, g, h, U
  <2>2. \A i \in U : f[i] = R!Plus(g[i], h[i])
    BY <2>1 DEF U
  <2>3. IsFiniteSet(U)
    BY <1>2 DEF U
  <2>4. SumOver(U, f) = R!Plus(SumOver(U, g), SumOver(U, h))
    BY <2>2, <2>3, SumPlus
  <2> QED  BY <2>4 DEF U
<1>4. ASSUME NEW i \in 1..n
      PROVE  f[i] = R!Times(R!Plus(u[i], w[i]), PlaceIn(j, i)) /\ (i \notin S => f[i] = {})
  <2> DEFINE a == u[i]
             b == w[i]
             c == PlaceIn(j, i)
  <2>1. a \in R!Symbols /\ b \in R!Symbols /\ c \in R!Symbols
    <3>1. /\ c = R!Times(R!Alpha(R!Place(i) * FirstRoot), R!Alpha(R!Place(i) * j))
          /\ R!Alpha(R!Place(i) * FirstRoot) \in R!Symbols /\ R!Alpha(R!Place(i) * j) \in R!Symbols
      BY PlacesAre
    <3>2. c \in R!Symbols
      BY <3>1, TimesIs
    <3> QED  BY <3>2 DEF LaneWords
  <2>2. f[i] = R!Plus(R!Times(a, c), R!Times(b, c)) /\ (i \notin S => a = b)
    OBVIOUS
  <2> HIDE DEF a, b, c, f
  <2>3. R!Times(R!Plus(a, b), c) = R!Plus(R!Times(a, c), R!Times(b, c)) /\ R!Times(a, c) \in R!Symbols
    BY <2>1, TimesIs
  <2> QED  BY <2>2, <2>3, PlusIs DEF a, b, c
<1>5. SumOver(1..n, f) = SumOver(S, f)
  <2>1. \A i \in (1..n) \ S : f[i] = {}
    BY <1>4
  <2> HIDE DEF f
  <2> QED  BY <2>1, SumFewer
<1>6. ASSUME NEW i \in S
      PROVE  f[i] = Powers(S, PlacesOf(S), Seen(u, w, S), j)[i]
  <2> DEFINE d == R!Plus(u[i], w[i])
             a == R!Alpha(R!Place(i) * FirstRoot)
             b == R!Alpha(R!Place(i) * j)
  <2>1. i \in 1..n
    OBVIOUS
  <2>2. d \in R!Symbols
    BY <2>1, PlusIs DEF LaneWords
  <2>3. a \in R!Symbols /\ b \in R!Symbols /\ PlaceIn(j, i) = R!Times(a, b)
    BY <2>1, PlacesAre
  <2>4. f[i] = R!Times(d, R!Times(a, b))
    BY <1>4, <2>1, <2>3
  <2>5. Powers(S, PlacesOf(S), Seen(u, w, S), j)[i] = R!Times(R!Times(d, a), b)
    BY DEF Powers, PlacesOf, Seen
  <2> HIDE DEF d, a, b, f
  <2>6. R!Times(d, R!Times(a, b)) = R!Times(R!Times(d, a), b)
    BY <2>2, <2>3, TimesAround
  <2> QED  BY <2>4, <2>5, <2>6
<1>7. SumOver(S, f) = SumOver(S, Powers(S, PlacesOf(S), Seen(u, w, S), j))
  <2> HIDE DEF f
  <2> QED  BY <1>6, SumSame
<1> QED  BY <1>1, <1>3, <1>5, <1>7

\* Codewords that are the same but for Parity places are the same.
THEOREM CodewordsAreApart ==
    ASSUME NEW u \in LaneWords, NEW w \in LaneWords, R!IsCodeword(u), R!IsCodeword(w),
           NEW S \in SUBSET (1..R!CodewordSymbols), Cardinality(S) <= Parity,
           \A i \in (1..R!CodewordSymbols) \ S : u[i] = w[i]
    PROVE  u = w
<1>1. IsFiniteSet(S) /\ PlacesOf(S) \in [S -> Nat] /\ Distinct(S, PlacesOf(S))
  BY PlacesOfAre
<1>2. Cardinality(S) \in Nat /\ Parity \in Nat
  BY <1>1, FS_CardinalityType, CodeSizes
<1>3. ASSUME NEW j \in 0..(Cardinality(S) - 1)
      PROVE  SumOver(S, Powers(S, PlacesOf(S), Seen(u, w, S), j)) = {}
  <2>1. j \in Nat /\ j \in 0..(Parity - 1)
    BY <1>2
  <2>2. R!Value(u, R!Root(j)) = {} /\ R!Value(w, R!Root(j)) = {}
    BY <2>1 DEF R!IsCodeword
  <2>3. R!Plus({}, {}) = {}
    BY NothingIs, PlusIs
  <2>4. R!Plus(R!Value(u, R!Root(j)), R!Value(w, R!Root(j)))
               = SumOver(S, Powers(S, PlacesOf(S), Seen(u, w, S), j))
    BY <2>1, SyndromesDiffer
  <2> QED  BY <2>2, <2>3, <2>4
<1>4. Vanish(S, PlacesOf(S), Seen(u, w, S))
  BY <1>3 DEF Vanish
<1>5. Seen(u, w, S) \in [S -> R!Symbols]
  BY SeenIs
<1>6. \A i \in S : Seen(u, w, S)[i] = {}
  BY <1>1, <1>4, <1>5, Vandermonde
<1>7. \A i \in 1..R!CodewordSymbols : u[i] = w[i]
  BY <1>6, SeenIs
<1> DEFINE n == R!CodewordSymbols
<1>8. u = [i \in 1..n |-> u[i]] /\ w = [i \in 1..n |-> w[i]]
  BY DEF LaneWords
<1> QED  BY <1>7, <1>8
-----------------------------------------------------------------------------
(* One step of the search for the locator *)

LEMMA MixtureIs ==
    ASSUME NEW c \in Locators, NEW s \in SyndromeLists, NEW l \in 0..Parity, NEW j \in l..(Parity - 1)
    PROVE  /\ IsFiniteSet(0..l)
           /\ \A i \in 0..l : /\ c[i] \in R!Symbols /\ s[j - i] \in R!Symbols
                              /\ Mixture(c, s, l, j)[i] = R!Times(c[i], s[j - i])
                              /\ Mixture(c, s, l, j)[i] \in R!Symbols
           /\ Mixed(c, s, l, j) \in R!Symbols
<1>1. Parity \in Nat
  BY CodeSizes
<1>2. IsFiniteSet(0..l)
  BY <1>1, FS_Interval
<1>3. ASSUME NEW i \in 0..l
      PROVE  /\ c[i] \in R!Symbols /\ s[j - i] \in R!Symbols
             /\ R!Times(c[i], s[j - i]) \in R!Symbols
  <2>1. i \in 0..Parity /\ j - i \in 0..(Parity - 1)
    BY <1>1
  <2>2. c[i] \in R!Symbols /\ s[j - i] \in R!Symbols
    BY <2>1 DEF Locators, SyndromeLists
  <2> QED  BY <2>2, TimesIs
<1> QED  BY <1>2, <1>3, SumIs DEF Mixture, Mixed

LEMMA EvaluatedIs ==
    ASSUME NEW f
    PROVE  R!Evaluated(f) = f
BY DEF R!Evaluated

LEMMA DiscrepancyIs ==
    ASSUME NEW r, NEW s \in SyndromeLists, NEW n \in 0..(Parity - 1), r.degree \in 0..n,
           r.locator \in Locators, r.locator[0] = {0}
    PROVE  R!Discrepancy(r, s, n) = Mixed(r.locator, s, r.degree, n)
<1> DEFINE c == r.locator
           l == r.degree
           g == Mixture(c, s, l, n)
           later == 1..l
<1>1. l \in Nat /\ n \in l..(Parity - 1) /\ l \in 0..Parity /\ 0 \in 0..l /\ Parity \in Nat
  BY CodeSizes
<1>2. R!Discrepancy(r, s, n) = R!Plus(s[n], R!Total(1..l, LAMBDA i : R!Times(c[i], s[n - i])))
  BY DEF R!Discrepancy
<1>3. R!Total(1..l, LAMBDA i : R!Times(c[i], s[n - i]))
          = {p \in 0..(Degree - 1) : R!Cardinality({i \in 1..l : p \in R!Times(c[i], s[n - i])}) % 2 = 1}
  BY DEF R!Total
<1>4. /\ IsFiniteSet(0..l)
      /\ \A i \in 0..l : g[i] = R!Times(c[i], s[n - i]) /\ g[i] \in R!Symbols /\ s[n - i] \in R!Symbols
  BY <1>1, MixtureIs
<1>5. \A i \in later : i \in 0..l
  BY <1>1
<1> HIDE DEF g
<1>6. {p \in 0..(Degree - 1) : R!Cardinality({i \in 1..l : p \in R!Times(c[i], s[n - i])}) % 2 = 1}
          = SumOver(later, g)
  <2>1. \A p : {i \in 1..l : p \in R!Times(c[i], s[n - i])} = {i \in later : p \in g[i]}
    BY <1>4, <1>5
  <2>2. \A p : R!Cardinality({i \in 1..l : p \in R!Times(c[i], s[n - i])}) = Cardinality({i \in later : p \in g[i]})
    BY <2>1, SameCardinality
  <2>3. \A p : R!Cardinality({i \in 1..l : p \in R!Times(c[i], s[n - i])}) % 2 = 1
                   <=> OddMany({i \in later : p \in g[i]})
    BY <2>2 DEF OddMany
  <2> QED  BY <2>3 DEF SumOver
<1>7. g[0] = s[n]
  <2>1. n - 0 = n /\ s[n] \in R!Symbols
    BY <1>1 DEF SyndromeLists
  <2>2. g[0] = R!Times({0}, s[n])
    BY <1>1, <1>4, <2>1
  <2> QED  BY <2>1, <2>2, TimesIs
<1>8. (0..l) \ {0} = later
  BY <1>1
<1> HIDE DEF later
<1>9. SumOver(0..l, g) = R!Plus(SumOver(later, g), g[0])
  <2>1. SumOver(0..l, g) = R!Plus(SumOver((0..l) \ {0}, g), g[0])
    <3> DEFINE U == 0..l
    <3>1. IsFiniteSet(U) /\ 0 \in U /\ g[0] \in R!Symbols
      BY <1>1, <1>4
    <3> HIDE DEF U
    <3>2. SumOver(U, g) = R!Plus(SumOver(U \ {0}, g), g[0])
      BY <3>1, SumWithout
    <3> QED  BY <3>2 DEF U
  <2> QED  BY <1>8, <2>1
<1>10. R!Plus(SumOver(later, g), g[0]) = R!Plus(g[0], SumOver(later, g))
  BY DEF R!Plus
<1> QED  BY <1>2, <1>3, <1>6, <1>7, <1>9, <1>10 DEF Mixed, g

LEMMA LaterIs ==
    ASSUME NEW c \in Locators, NEW b \in Locators, NEW f \in R!Symbols, NEW m \in Nat
    PROVE  Later(c, b, f, m) \in Locators
<1>1. Parity \in Nat
  BY CodeSizes
<1>2. ASSUME NEW i \in 0..Parity
      PROVE  (IF i < m THEN c[i] ELSE R!Plus(c[i], R!Times(f, b[i - m]))) \in R!Symbols
  <2>1. c[i] \in R!Symbols
    BY DEF Locators
  <2>2. CASE i < m
    BY <2>1, <2>2
  <2>3. CASE ~(i < m)
    <3>1. i - m \in 0..Parity
      BY <1>1, <2>3
    <3>2. b[i - m] \in R!Symbols
      BY <3>1 DEF Locators
    <3>3. R!Times(f, b[i - m]) \in R!Symbols
      BY <3>2, TimesIs
    <3> QED  BY <2>1, <2>3, <3>3, PlusIs
  <2> QED  BY <2>2, <2>3
<1> QED  BY <1>2 DEF Later, Locators

LEMMA LaterMixes ==
    ASSUME NEW c \in Locators, NEW b \in Locators, NEW f \in R!Symbols, NEW m \in Nat,
           NEW s \in SyndromeLists, NEW l \in 0..Parity, NEW k \in 0..Parity, NEW most \in 0..Parity,
           l <= most, k + m <= most, NEW j \in most..(Parity - 1),
           \A i \in 0..Parity : i > l => c[i] = {},
           \A i \in 0..Parity : i > k => b[i] = {}
    PROVE  Mixed(Later(c, b, f, m), s, most, j)
               = R!Plus(Mixed(c, s, l, j), R!Times(f, Mixed(b, s, k, j - m)))
<1> DEFINE d == Later(c, b, f, m)
           g == Mixture(d, s, most, j)
           x == Mixture(c, s, most, j)
           y == [i \in 0..most |-> IF i < m THEN {} ELSE R!Times(f, R!Times(b[i - m], s[j - i]))]
           All == 0..most
           Old == 0..k
           Upper == m..(m + k)
<1>0. Parity \in Nat /\ j \in l..(Parity - 1) /\ j - m \in k..(Parity - 1)
      /\ j \in Nat /\ most \in Nat /\ l \in Nat /\ k \in Nat
  BY CodeSizes
<1>1. d \in Locators
  BY LaterIs
<1>2. /\ IsFiniteSet(All)
      /\ \A i \in All : /\ i \in 0..Parity /\ c[i] \in R!Symbols /\ s[j - i] \in R!Symbols
                        /\ x[i] = R!Times(c[i], s[j - i]) /\ x[i] \in R!Symbols
                        /\ g[i] = R!Times(d[i], s[j - i])
  <2>1. \A i \in All : i \in 0..Parity
    BY <1>0
  <2> QED  BY <1>1, <2>1, MixtureIs
<1>3. ASSUME NEW i \in All
      PROVE  /\ i >= m => i - m \in 0..Parity /\ b[i - m] \in R!Symbols
             /\ g[i] = R!Plus(x[i], y[i])
  <2>1. i >= m => i - m \in 0..Parity /\ b[i - m] \in R!Symbols
    <3> SUFFICES ASSUME i >= m
                 PROVE  i - m \in 0..Parity /\ b[i - m] \in R!Symbols
      OBVIOUS
    <3>1. i - m \in 0..Parity
      BY <1>0
    <3> QED  BY <3>1 DEF Locators
  <2>2. c[i] \in R!Symbols /\ s[j - i] \in R!Symbols /\ x[i] \in R!Symbols
    BY <1>2
  <2>3. CASE i < m
    <3>1. d[i] = c[i] /\ y[i] = {}
      BY <1>2, <2>3 DEF Later
    <3>2. R!Plus(x[i], {}) = x[i]
      BY <2>2, NothingIs, PlusIs
    <3> QED  BY <1>2, <2>1, <3>1, <3>2
  <2>4. CASE ~(i < m)
    <3> DEFINE u == b[i - m]
               t == s[j - i]
               v == c[i]
    <3>0. i >= m
      BY <1>0, <2>4
    <3>1. d[i] = R!Plus(v, R!Times(f, u)) /\ y[i] = R!Times(f, R!Times(u, t))
      BY <1>2, <2>4 DEF Later
    <3>2. u \in R!Symbols /\ t \in R!Symbols /\ v \in R!Symbols
      BY <2>1, <2>2, <3>0
    <3>3. x[i] = R!Times(v, t) /\ g[i] = R!Times(d[i], t)
      BY <1>2
    <3> HIDE DEF u, t, v, d, x, y, g
    <3>4. R!Times(f, u) \in R!Symbols
      BY <3>2, TimesIs
    <3>5. R!Times(R!Plus(v, R!Times(f, u)), t) = R!Plus(R!Times(v, t), R!Times(R!Times(f, u), t))
      BY <3>2, <3>4, TimesIs
    <3>6. R!Times(f, R!Times(u, t)) = R!Times(R!Times(f, u), t)
      BY <3>2, TimesAround
    <3>7. g[i] = R!Plus(x[i], y[i])
      BY <3>1, <3>3, <3>5, <3>6
    <3> QED  BY <2>1, <3>7
  <2> QED  BY <2>3, <2>4
<1>4. SumOver(All, g) = R!Plus(SumOver(All, x), SumOver(All, y))
  <2>1. \A i \in All : g[i] = R!Plus(x[i], y[i])
    BY <1>3
  <2> HIDE DEF All, g, x, y
  <2> QED  BY <1>2, <2>1, SumPlus
<1>5. SumOver(All, x) = Mixed(c, s, l, j)
  <2> DEFINE Few == 0..l
             z == Mixture(c, s, l, j)
  <2>1. Few \subseteq All
    BY <1>0
  <2>2. \A i \in All \ Few : x[i] = {}
    <3> TAKE i \in All \ Few
    <3>1. i \in 0..Parity /\ i > l /\ s[j - i] \in R!Symbols /\ x[i] = R!Times(c[i], s[j - i])
      BY <1>0, <1>2
    <3>2. c[i] = {}
      BY <3>1
    <3> QED  BY <3>1, <3>2, TimesIs
  <2>3. \A i \in Few : x[i] = z[i]
    BY <2>1 DEF Mixture
  <2> HIDE DEF Few, All, x, z
  <2>4. SumOver(All, x) = SumOver(Few, x)
    BY <2>1, <2>2, SumFewer
  <2>5. SumOver(Few, x) = SumOver(Few, z)
    BY <2>3, SumSame
  <2> QED  BY <2>4, <2>5 DEF Mixed, Few, z
<1>6. SumOver(All, y) = R!Times(f, Mixed(b, s, k, j - m))
  <2> DEFINE z == Mixture(b, s, k, j - m)
             w == [i \in Old |-> R!Times(f, z[i])]
             to == [i \in Upper |-> i - m]
  <2>0. /\ IsFiniteSet(Old)
        /\ \A i \in Old : z[i] = R!Times(b[i], s[j - m - i]) /\ z[i] \in R!Symbols
    BY <1>0, MixtureIs
  <2>1. R!Times(f, SumOver(Old, z)) = SumOver(Old, w)
    <3>1. \A i \in Old : z[i] \in R!Symbols /\ w[i] = R!Times(f, z[i])
      BY <2>0
    <3> HIDE DEF Old, w, z
    <3> QED  BY <2>0, <3>1, SumTimes
  <2>2. Upper \subseteq All
    BY <1>0
  <2>3. \A i \in All \ Upper : y[i] = {}
    <3> TAKE i \in All \ Upper
    <3>1. CASE i < m
      BY <3>1
    <3>2. CASE ~(i < m)
      <4>1. i - m \in 0..Parity /\ i - m > k /\ s[j - i] \in R!Symbols
        BY <1>0, <1>2, <3>2
      <4>2. b[i - m] = {}
        BY <4>1
      <4>3. y[i] = R!Times(f, R!Times({}, s[j - i]))
        BY <3>2, <4>2
      <4>4. R!Times({}, s[j - i]) = {} /\ R!Times(f, {}) = {}
        BY <4>1, TimesNothing
      <4> QED  BY <4>3, <4>4
    <3> QED  BY <3>1, <3>2
  <2>4. SumOver(All, y) = SumOver(Upper, y)
    <3> HIDE DEF All, Upper, y
    <3> QED  BY <2>2, <2>3, SumFewer
  <2>5. to \in [Upper -> Old]
    BY <1>0
  <2>6. \A i, h \in Upper : to[i] = to[h] => i = h
    BY <1>0
  <2>7. ASSUME NEW i \in Old
        PROVE  \E h \in Upper : to[h] = i
    <3>1. i + m \in Upper /\ i + m - m = i
      BY <1>0
    <3> QED  BY <3>1
  <2>8. ASSUME NEW i \in Upper
        PROVE  y[i] = w[to[i]]
    <3>1. i \in All /\ ~(i < m) /\ i - m \in Old /\ j - m - (i - m) = j - i
      BY <1>0
    <3>2. y[i] = R!Times(f, R!Times(b[i - m], s[j - i]))
      BY <3>1
    <3>3. w[to[i]] = R!Times(f, z[i - m])
      BY <3>1
    <3>4. z[i - m] = R!Times(b[i - m], s[j - m - (i - m)])
      BY <2>0, <3>1
    <3> QED  BY <3>1, <3>2, <3>3, <3>4
  <2>9. SumOver(Upper, y) = SumOver(Old, w)
    <3>1. IsFiniteSet(Upper)
      BY <1>0, FS_Interval
    <3>2. \A i \in Old : \E h \in Upper : to[h] = i
      BY <2>7
    <3>3. \A i \in Upper : y[i] = w[to[i]]
      BY <2>8
    <3> HIDE DEF to, Upper, Old, y, w
    <3> QED  BY <2>5, <2>6, <3>1, <3>2, <3>3, SumRenamed
  <2> QED  BY <2>1, <2>4, <2>9 DEF Mixed
<1> QED  BY <1>4, <1>5, <1>6 DEF Mixed
-----------------------------------------------------------------------------
(* What the errors make of a locator *)

LEMMA AtIs ==
    ASSUME NEW c \in Locators, NEW l \in 0..Parity, NEW e \in Nat
    PROVE  /\ IsFiniteSet(0..l) /\ ValueAt(c, l, e) \in R!Symbols
           /\ \A k \in 0..l : /\ c[k] \in R!Symbols /\ R!Alpha(e * (l - k)) \in R!Symbols
                              /\ Shares(c, l, e)[k] = R!Times(c[k], R!Alpha(e * (l - k)))
                              /\ Shares(c, l, e)[k] \in R!Symbols
<1>1. Parity \in Nat
  BY CodeSizes
<1>2. IsFiniteSet(0..l)
  BY <1>1, FS_Interval
<1>3. ASSUME NEW k \in 0..l
      PROVE  /\ c[k] \in R!Symbols /\ R!Alpha(e * (l - k)) \in R!Symbols
             /\ R!Times(c[k], R!Alpha(e * (l - k))) \in R!Symbols
  <2>1. k \in 0..Parity /\ l - k \in Nat
    BY <1>1
  <2>2. R!Alpha(e * (l - k)) \in R!Symbols /\ c[k] \in R!Symbols
    BY <2>1, AlphaSymbols DEF Locators
  <2> QED  BY <2>2, TimesIs
<1> QED  BY <1>2, <1>3, SumIs DEF Shares, ValueAt

LEMMA MixedAt ==
    ASSUME NEW S, IsFiniteSet(S), NEW m \in [S -> Nat], NEW x \in [S -> R!Symbols],
           NEW s \in SyndromeLists, Causes(S, m, x, s),
           NEW c \in Locators, NEW l \in 0..Parity, NEW j \in l..(Parity - 1)
    PROVE  /\ Located(S, m, x, c, l) \in [S -> R!Symbols]
           /\ Mixed(c, s, l, j) = SumOver(S, Powers(S, m, Located(S, m, x, c, l), j - l))
<1> DEFINE K == 0..l
           g == [k \in K |-> [i \in S |-> R!Times(c[k], R!Times(x[i], R!Alpha(m[i] * (j - k))))]]
           h == [i \in S |-> [k \in K |-> R!Times(c[k], R!Times(x[i], R!Alpha(m[i] * (j - k))))]]
           row == Mixture(c, s, l, j)
           column == Powers(S, m, Located(S, m, x, c, l), j - l)
<1>1. /\ Parity \in Nat /\ l \in Nat /\ j \in Nat /\ j - l \in Nat
      /\ \A k \in K : k \in Nat /\ j - k \in 0..(Parity - 1) /\ l - k \in Nat /\ j - k \in Nat
  BY CodeSizes
<1>2. /\ IsFiniteSet(K)
      /\ \A k \in K : c[k] \in R!Symbols /\ s[j - k] \in R!Symbols /\ row[k] = R!Times(c[k], s[j - k])
  BY MixtureIs
<1>3. \A i \in S : m[i] \in Nat /\ x[i] \in R!Symbols /\ ValueAt(c, l, m[i]) \in R!Symbols
  BY AtIs
<1>4. Located(S, m, x, c, l) \in [S -> R!Symbols]
  BY <1>3, TimesIs DEF Located
<1>5. ASSUME NEW i \in S, NEW k \in K
      PROVE  /\ R!Alpha(m[i] * (j - k)) \in R!Symbols
             /\ R!Times(x[i], R!Alpha(m[i] * (j - k))) \in R!Symbols
             /\ R!Times(c[k], R!Times(x[i], R!Alpha(m[i] * (j - k)))) \in R!Symbols
  <2>1. R!Alpha(m[i] * (j - k)) \in R!Symbols
    BY <1>1, <1>3, AlphaSymbols
  <2>2. R!Times(x[i], R!Alpha(m[i] * (j - k))) \in R!Symbols
    BY <1>3, <2>1, TimesIs
  <2> QED  BY <1>2, <2>1, <2>2, TimesIs
<1>6. \A k \in K, i \in S : g[k][i] \in R!Symbols /\ h[i][k] = g[k][i]
  BY <1>5
<1>7. ASSUME NEW k \in K
      PROVE  row[k] = SumOver(S, g[k])
  <2> DEFINE p == Powers(S, m, x, j - k)
             u == g[k]
  <2>1. s[j - k] = SumOver(S, p)
    BY <1>1 DEF Causes
  <2>2. \A i \in S : p[i] \in R!Symbols /\ u[i] = R!Times(c[k], p[i])
    BY <1>5 DEF Powers
  <2>3. c[k] \in R!Symbols /\ row[k] = R!Times(c[k], s[j - k])
    BY <1>2
  <2> HIDE DEF p, u
  <2>4. R!Times(c[k], SumOver(S, p)) = SumOver(S, u)
    BY <2>2, <2>3, SumTimes
  <2> QED  BY <2>1, <2>3, <2>4 DEF u
<1>8. ASSUME NEW i \in S
      PROVE  column[i] = SumOver(K, h[i])
  <2> DEFINE a == R!Times(x[i], R!Alpha(m[i] * (j - l)))
             p == Shares(c, l, m[i])
             u == h[i]
  <2>1. R!Alpha(m[i] * (j - l)) \in R!Symbols
    BY <1>1, <1>3, AlphaSymbols
  <2>2. a \in R!Symbols
    BY <1>3, <2>1, TimesIs
  <2>3. ASSUME NEW k \in K
        PROVE  p[k] \in R!Symbols /\ u[k] = R!Times(a, p[k])
    <3> DEFINE b == R!Alpha(m[i] * (j - l))
               d == R!Alpha(m[i] * (l - k))
               e == m[i]
               q == c[k]
               z == x[i]
    <3>1. /\ d \in R!Symbols /\ q \in R!Symbols /\ p[k] = R!Times(q, d) /\ p[k] \in R!Symbols
      BY <1>3, AtIs
    <3>2. e * (j - k) = e * (j - l) + e * (l - k) /\ e * (j - l) \in Nat /\ e * (l - k) \in Nat
      <4>1. e \in Nat /\ j - l \in Nat /\ l - k \in Nat /\ j - k = (j - l) + (l - k)
        BY <1>1, <1>3
      <4> QED  BY <4>1
    <3>3. R!Alpha(e * (j - k)) = R!Times(b, d)
      BY <3>2, AlphasMultiply
    <3>4. u[k] = R!Times(q, R!Times(z, R!Times(b, d))) /\ a = R!Times(z, b)
      BY <3>3
    <3>5. z \in R!Symbols /\ b \in R!Symbols
      BY <1>3, <2>1
    <3> HIDE DEF b, d, e, q, z, p, u
    <3>6. R!Times(b, d) \in R!Symbols /\ R!Times(z, R!Times(b, d)) = R!Times(R!Times(z, b), d)
      BY <3>1, <3>5, TimesIs
    <3>7. R!Times(q, R!Times(a, d)) = R!Times(a, R!Times(q, d))
      BY <2>2, <3>1, TimesAround
    <3> QED  BY <3>1, <3>4, <3>6, <3>7
  <2>4. R!Times(a, SumOver(K, p)) = SumOver(K, u)
    <3> HIDE DEF K, p, u, a
    <3> QED  BY <1>2, <2>2, <2>3, SumTimes
  <2>5. column[i] = R!Times(R!Times(x[i], SumOver(K, p)), R!Alpha(m[i] * (j - l)))
    BY DEF Powers, Located, ValueAt
  <2>6. SumOver(K, p) \in R!Symbols
    BY SumIs
  <2>7. R!Times(R!Times(x[i], SumOver(K, p)), R!Alpha(m[i] * (j - l))) = R!Times(a, SumOver(K, p))
    <3> DEFINE b == R!Alpha(m[i] * (j - l))
               q == SumOver(K, p)
               z == x[i]
    <3>1. b \in R!Symbols /\ q \in R!Symbols /\ z \in R!Symbols
      BY <1>3, <2>1, <2>6
    <3> HIDE DEF b, q, z
    <3>2. R!Times(R!Times(z, q), b) = R!Times(R!Times(z, b), q)
      BY <3>1, TimesAround
    <3> QED  BY <3>2 DEF b, q, z
  <2> QED  BY <2>4, <2>5, <2>7
<1>9. SumOver(K, row) = SumOver(S, column)
  <2>1. \A k \in K : row[k] = SumOver(S, g[k])
    BY <1>7
  <2>2. \A i \in S : column[i] = SumOver(K, h[i])
    BY <1>8
  <2> HIDE DEF K, g, h, row, column
  <2>3. Table(K, S, g, h, row, column)
    BY <1>6, <2>1, <2>2 DEF Table
  <2> QED  BY <1>2, <2>3, SumSwapped
<1> QED  BY <1>4, <1>9 DEF Mixed

\* A locator that predicts as many syndromes as there are causes predicts all of them,
\* and is nothing at the places of the causes.
LEMMA AllPredicted ==
    ASSUME NEW S, IsFiniteSet(S), NEW m \in [S -> Nat], Distinct(S, m), NEW x \in [S -> R!Symbols],
           NEW s \in SyndromeLists, Causes(S, m, x, s),
           NEW c \in Locators, NEW l \in 0..Parity, NEW n \in l..Parity,
           Cardinality(S) <= n - l, \A j \in l..(n - 1) : Mixed(c, s, l, j) = {}
    PROVE  /\ \A j \in l..(Parity - 1) : Mixed(c, s, l, j) = {}
           /\ \A i \in S : x[i] # {} => ValueAt(c, l, m[i]) = {}
<1> DEFINE y == Located(S, m, x, c, l)
<1>1. Parity \in Nat /\ Cardinality(S) \in Nat
  BY CodeSizes, FS_CardinalityType
<1>2. y \in [S -> R!Symbols]
  <2>1. CASE S = {}
    BY <2>1 DEF Located
  <2>2. CASE S # {}
    <3>1. Cardinality(S) # 0
      BY <2>2, FS_EmptySet
    <3>2. l \in l..(Parity - 1)
      BY <1>1, <3>1
    <3> QED  BY <3>2, MixedAt
  <2> QED  BY <2>1, <2>2
<1>3. ASSUME NEW q \in 0..(Cardinality(S) - 1)
      PROVE  SumOver(S, Powers(S, m, y, q)) = {}
  <2> DEFINE j == l + q
  <2>1. j \in l..(n - 1) /\ j \in l..(Parity - 1) /\ j - l = q
    BY <1>1
  <2> HIDE DEF y, j
  <2>2. Mixed(c, s, l, j) = SumOver(S, Powers(S, m, Located(S, m, x, c, l), j - l))
    BY <2>1, MixedAt
  <2> QED  BY <2>1, <2>2 DEF y
<1>4. \A i \in S : y[i] = {}
  <2>1. Vanish(S, m, y)
    BY <1>3 DEF Vanish
  <2> HIDE DEF y
  <2> QED  BY <1>2, <2>1, Vandermonde
<1>5. ASSUME NEW i \in S, x[i] # {}
      PROVE  ValueAt(c, l, m[i]) = {}
  <2>1. y[i] = R!Times(x[i], ValueAt(c, l, m[i])) /\ x[i] \in R!Symbols /\ m[i] \in Nat
    BY DEF Located
  <2>2. ValueAt(c, l, m[i]) \in R!Symbols
    BY <2>1, AtIs
  <2>3. R!Times(x[i], ValueAt(c, l, m[i])) = {}
    BY <1>4, <2>1
  <2> DEFINE a == x[i]
             b == ValueAt(c, l, m[i])
  <2>4. a # {} /\ a \in R!Symbols /\ b \in R!Symbols /\ R!Times(a, b) = {}
    BY <1>5, <2>1, <2>2, <2>3
  <2> HIDE DEF a, b
  <2>5. b = {}
    BY <2>4, NoDivisors
  <2> QED  BY <2>5 DEF b
<1>6. ASSUME NEW j \in l..(Parity - 1)
      PROVE  Mixed(c, s, l, j) = {}
  <2> DEFINE p == Powers(S, m, y, j - l)
  <2>1. \A i \in S : p[i] = {}
    <3> TAKE i \in S
    <3>1. m[i] \in Nat /\ j - l \in Nat
      BY <1>1
    <3>2. R!Alpha(m[i] * (j - l)) \in R!Symbols
      BY <3>1, AlphaSymbols
    <3>3. p[i] = R!Times(y[i], R!Alpha(m[i] * (j - l)))
      BY DEF Powers
    <3>4. y[i] = {}
      BY <1>4
    <3> HIDE DEF p, y
    <3> QED  BY <3>2, <3>3, <3>4, TimesIs
  <2>2. Mixed(c, s, l, j) = SumOver(S, p)
    BY MixedAt
  <2> HIDE DEF p
  <2>3. SumOver(S, p) = SumOver({}, p)
    BY <2>1, SumFewer
  <2> QED  BY <2>2, <2>3, SumEmpty
<1> QED  BY <1>5, <1>6
-----------------------------------------------------------------------------
(* The search, and what holds of it *)

LEMMA FactorIs ==
    ASSUME NEW d \in R!Symbols, NEW b \in R!Symbols, b # {}
    PROVE  /\ R!Times(d, R!Reciprocal(b)) \in R!Symbols
           /\ R!Times(R!Times(d, R!Reciprocal(b)), b) = d
<1> DEFINE a == R!Reciprocal(b)
<1>1. a \in R!Symbols /\ R!Times(b, a) = {0}
  BY ReciprocalIs
<1> HIDE DEF a
<1>2. R!Times(d, a) \in R!Symbols
  BY <1>1, TimesIs
<1>4. R!Times(d, {0}) = d
  BY TimesIs
<1>3. R!Times(R!Times(d, a), b) = R!Times(d, R!Times(a, b))
  BY <1>1, TimesIs
<1>5. R!Times(a, b) = R!Times(b, a)
  BY <1>1, TimesTurns
<1> QED  BY <1>1, <1>2, <1>3, <1>4, <1>5 DEF a

LEMMA AdjustedIs ==
    ASSUME NEW r, NEW f
    PROVE  R!Adjusted(r, f) = Later(r.locator, r.previous, f, r.distance)
<1> DEFINE g == [i \in 0..Parity |->
        IF i < r.distance THEN r.locator[i]
        ELSE R!Plus(r.locator[i], R!Times(f, r.previous[i - r.distance]))]
<1>1. R!Adjusted(r, f) = R!Evaluated(g)
  BY DEF R!Adjusted
<1>2. R!Evaluated(g) = g
  BY EvaluatedIs
<1> QED  BY <1>1, <1>2 DEF Later

\* What the locator becomes if the n-th syndrome is not the one it predicts.
LEMMA LocatorNext ==
    ASSUME NEW s \in SyndromeLists, NEW n \in 0..(Parity - 1), NEW v, NEW r, Searched(r, s, n, v),
           NEW most \in 0..Parity, r.degree <= most, n + 1 - r.degree <= most,
           most > n \/ r.degree > 0
    PROVE  Continues(Corrected(r, s, n), s, most, n)
<1> DEFINE d == Mixed(r.locator, s, r.degree, n)
           c == Corrected(r, s, n)
           f == R!Times(d, R!Reciprocal(r.last))
           l == r.degree
           m == r.distance
           k == Lag(r, n)
           old == r.locator
           b == r.previous
           last == r.last
<1>1. /\ old \in Locators /\ b \in Locators /\ last \in R!Symbols /\ last # {}
      /\ l \in 0..n /\ m \in Nat /\ m > 0 /\ k \in Nat
      /\ old[0] = {0}
      /\ \A i \in 0..Parity : i > l => old[i] = {}
      /\ \A i \in 0..Parity : i > k => b[i] = {}
      /\ \A j \in l..(n - 1) : Mixed(old, s, l, j) = {}
      /\ l > 0 => /\ Mixed(b, s, k, n - m) = last
                  /\ \A j \in k..(n - m - 1) : Mixed(b, s, k, j) = {}
  BY DEF Searched, Searches
<1>2. k = n + 1 - m - l /\ Parity \in Nat
  BY CodeSizes DEF Lag
<1>9. d \in R!Symbols
  BY SumIs DEF Mixed
<1>3. f \in R!Symbols /\ R!Times(f, last) = d
  BY <1>1, <1>9, FactorIs
<1>4. /\ l <= most /\ n + 1 - l <= most /\ (most > n \/ l > 0)
      /\ c = Later(old, b, f, m) /\ d = Mixed(old, s, l, n)
  BY DEF Corrected
<1> HIDE DEF c, d, f, l, m, k, old, b, last
<1>5. c \in Locators
  BY <1>1, <1>3, <1>4, LaterIs
<1>6. c[0] = {0}
  BY <1>1, <1>2, <1>4 DEF Later
<1>7. ASSUME NEW i \in 0..Parity, i > most
      PROVE  c[i] = {}
  <2>1. old[i] = {}
    BY <1>1, <1>2, <1>4, <1>7
  <2>2. CASE i < m
    BY <1>4, <2>1, <2>2 DEF Later
  <2>3. CASE ~(i < m)
    <3>1. i - m \in 0..Parity /\ i - m > k
      BY <1>1, <1>2, <1>4, <1>7, <2>3
    <3>2. b[i - m] = {}
      BY <1>1, <3>1
    <3>3. c[i] = R!Plus({}, R!Times(f, {}))
      BY <1>4, <2>1, <2>3, <3>2 DEF Later
    <3> QED  BY <1>3, <3>3, TimesIs, NothingIs, PlusIs
  <2> QED  BY <2>2, <2>3
<1>8. ASSUME NEW j \in most..n
      PROVE  Mixed(c, s, most, j) = {}
  <2>1. /\ l > 0 /\ j \in l..n /\ j - m \in k..(n - m) /\ j \in most..(Parity - 1)
        /\ l \in 0..Parity /\ k \in 0..Parity /\ k + m <= most
    BY <1>1, <1>2, <1>4
  <2>2. Mixed(c, s, most, j) = R!Plus(Mixed(old, s, l, j), R!Times(f, Mixed(b, s, k, j - m)))
    BY <1>1, <1>3, <1>4, <2>1, LaterMixes
  <2>3. CASE j = n
    <3>1. Mixed(old, s, l, j) = d /\ Mixed(b, s, k, j - m) = last
      BY <1>1, <1>4, <2>1, <2>3
    <3> QED  BY <1>3, <1>9, <2>2, <3>1, PlusIs
  <2>4. CASE j # n
    <3>1. j \in l..(n - 1) /\ j - m \in k..(n - m - 1)
      BY <1>1, <2>1, <2>4
    <3>2. Mixed(old, s, l, j) = {} /\ Mixed(b, s, k, j - m) = {}
      BY <1>1, <2>1, <3>1
    <3>3. R!Times(f, {}) = {} /\ R!Plus({}, {}) = {}
      BY <1>3, TimesIs, NothingIs, PlusIs
    <3> QED  BY <2>2, <3>2, <3>3
  <2> QED  BY <2>3, <2>4
<1>10. Continues(c, s, most, n)
  BY <1>5, <1>6, <1>7, <1>8 DEF Continues
<1> QED  BY <1>10 DEF c

LEMMA SearchedNext ==
    ASSUME NEW s \in SyndromeLists, NEW n \in 0..(Parity - 1), NEW r,
           NEW S, IsFiniteSet(S), NEW m \in [S -> Nat], Distinct(S, m), NEW x \in [S -> R!Symbols],
           Causes(S, m, x, s), Searched(r, s, n, Cardinality(S))
    PROVE  Searched(R!Locate(r, s, n), s, n + 1, Cardinality(S))
<1> DEFINE d == R!Discrepancy(r, s, n)
           f == R!Times(d, R!Reciprocal(r.last))
           c == R!Adjusted(r, f)
           l == r.degree
           v == Cardinality(S)
           next == R!Locate(r, s, n)
<1>1. /\ r \in Searches
      /\ r.locator \in Locators /\ r.previous \in Locators
      /\ r.last \in R!Symbols /\ r.last # {}
      /\ l \in 0..n /\ l <= v /\ r.distance \in Nat /\ r.distance > 0
      /\ Lag(r, n) = n + 1 - r.distance - l /\ Lag(r, n) \in Nat
      /\ r.locator[0] = {0}
      /\ \A i \in 0..Parity : i > l => r.locator[i] = {}
      /\ \A i \in 0..Parity : i > Lag(r, n) => r.previous[i] = {}
      /\ \A j \in l..(n - 1) : Mixed(r.locator, s, l, j) = {}
      /\ l > 0 => /\ Mixed(r.previous, s, Lag(r, n), n - r.distance) = r.last
                  /\ \A j \in Lag(r, n)..(n - r.distance - 1) : Mixed(r.previous, s, Lag(r, n), j) = {}
  BY DEF Searched, Searches, Lag
<1>2. Parity \in Nat /\ v \in Nat /\ n \in Nat /\ n + 1 \in Nat /\ l \in Nat
  BY <1>1, CodeSizes, FS_CardinalityType
<1>3. d = Mixed(r.locator, s, l, n)
  BY <1>1, DiscrepancyIs
<1>4. d \in R!Symbols
  BY <1>3, SumIs DEF Mixed
<1>5. c = Corrected(r, s, n)
  BY <1>3, AdjustedIs DEF Corrected
<1>6. next = CASE d = {} -> [r EXCEPT !.distance = @ + 1]
               [] d # {} /\ 2 * r.degree <= n ->
                     [locator |-> c, previous |-> r.locator, last |-> d,
                      degree |-> n + 1 - r.degree, distance |-> 1]
               [] OTHER -> [r EXCEPT !.locator = c, !.distance = @ + 1]
  BY DEF R!Locate
<1> HIDE DEF c, next, d, v
<1>7. CASE d = {}
  <2>1. next = [r EXCEPT !.distance = @ + 1]
    BY <1>6, <1>7
  <2>2. /\ next \in Searches /\ next.locator = r.locator /\ next.previous = r.previous /\ next.last = r.last
        /\ next.degree = l /\ next.distance = r.distance + 1
    BY <1>1, <2>1 DEF Searches
  <2> HIDE DEF next
  <2>3. Lag(next, n + 1) = Lag(r, n) /\ n + 1 - next.distance = n - r.distance
    BY <1>1, <1>2, <2>2 DEF Lag
  <2>4. \A j \in l..((n + 1) - 1) : Mixed(r.locator, s, l, j) = {}
    <3> TAKE j \in l..((n + 1) - 1)
    <3>1. j \in l..(n - 1) \/ j = n
      BY <1>2
    <3> QED  BY <1>1, <1>3, <1>7, <3>1
  <2>5. l \in 0..(n + 1) /\ next.distance > 0
    BY <1>1, <1>2, <2>2
  <2>6. next.degree > 0 =>
          /\ Mixed(next.previous, s, Lag(next, n + 1), (n + 1) - next.distance) = next.last
          /\ \A j \in Lag(next, n + 1)..((n + 1) - next.distance - 1) :
                Mixed(next.previous, s, Lag(next, n + 1), j) = {}
    BY <1>1, <2>2, <2>3
  <2> QED  BY <1>1, <2>2, <2>3, <2>4, <2>5, <2>6 DEF Searched, next
<1>8. CASE d # {} /\ 2 * l <= n
  <2> DEFINE most == n + 1 - l
  <2>1. next = [locator |-> c, previous |-> r.locator, last |-> d, degree |-> most, distance |-> 1]
    BY <1>6, <1>8
  <2>2. most \in 0..Parity /\ l <= most /\ n + 1 - l <= most /\ (most > n \/ l > 0) /\ most \in 0..(n + 1)
    BY <1>1, <1>2, <1>8
  <2> HIDE DEF most
  <2>3. /\ c \in Locators /\ c[0] = {0}
        /\ \A i \in 0..Parity : i > most => c[i] = {}
        /\ \A j \in most..n : Mixed(c, s, most, j) = {}
    <3>1. /\ r.degree <= most /\ n + 1 - r.degree <= most /\ (most > n \/ r.degree > 0)
          /\ most \in 0..Parity
      BY <1>2, <2>2
    <3>2. Continues(Corrected(r, s, n), s, most, n)
      BY <3>1, LocatorNext
    <3> QED  BY <1>5, <3>2 DEF Continues
  <2>4. /\ next \in Searches /\ next.locator = c /\ next.previous = r.locator /\ next.last = d
        /\ next.degree = most /\ next.distance = 1
    BY <1>1, <1>4, <1>8, <2>1, <2>2, <2>3 DEF Searches
  <2>5. Lag(next, n + 1) = l /\ (n + 1) - next.distance = n
    <3>1. Lag(next, n + 1) = (n + 1) + 1 - 1 - most /\ most = n + 1 - l
      BY <2>4 DEF Lag, most
    <3> QED  BY <1>2, <2>4, <3>1
  <2>6. most <= v
    <3>1. SUFFICES ASSUME v <= n - l
                   PROVE  FALSE
      BY <1>1, <1>2 DEF most
    <3>2. l \in 0..Parity /\ n \in l..Parity /\ n \in l..(Parity - 1)
      BY <1>1, <1>2
    <3>3. \A j \in l..(Parity - 1) : Mixed(r.locator, s, l, j) = {}
      BY <1>1, <3>1, <3>2, AllPredicted DEF v
    <3> QED  BY <1>3, <1>8, <3>2, <3>3
  <2>7. /\ Mixed(next.previous, s, Lag(next, n + 1), (n + 1) - next.distance) = next.last
        /\ \A j \in Lag(next, n + 1)..((n + 1) - next.distance - 1) :
              Mixed(next.previous, s, Lag(next, n + 1), j) = {}
    BY <1>1, <1>3, <2>4, <2>5
  <2>8. (n + 1) - 1 = n /\ next.distance > 0
    BY <1>2, <2>4
  <2> HIDE DEF next
  <2> QED  BY <1>1, <1>2, <2>2, <2>3, <2>4, <2>5, <2>6, <2>7, <2>8 DEF Searched, next, v
<1>9. CASE d # {} /\ ~(2 * l <= n)
  <2>1. next = [r EXCEPT !.locator = c, !.distance = @ + 1]
    BY <1>6, <1>9
  <2>2. l \in 0..Parity /\ n + 1 - l <= l /\ l > 0 /\ l \in 0..(n + 1)
    BY <1>1, <1>2, <1>9
  <2>3. /\ c \in Locators /\ c[0] = {0}
        /\ \A i \in 0..Parity : i > l => c[i] = {}
        /\ \A j \in l..n : Mixed(c, s, l, j) = {}
    <3>1. /\ r.degree <= l /\ n + 1 - r.degree <= l /\ (l > n \/ r.degree > 0)
          /\ l \in 0..Parity
      BY <1>2, <2>2
    <3>2. Continues(Corrected(r, s, n), s, l, n)
      BY <3>1, LocatorNext
    <3> QED  BY <1>5, <3>2 DEF Continues
  <2>4. /\ next \in Searches /\ next.locator = c /\ next.previous = r.previous /\ next.last = r.last
        /\ next.degree = l /\ next.distance = r.distance + 1
    <3>1. next = [locator |-> c, previous |-> r.previous, last |-> r.last,
                  degree |-> r.degree, distance |-> r.distance + 1]
      BY <1>1, <2>1 DEF Searches
    <3>2. r.last \in R!Symbols \ {{}} /\ r.degree \in Int /\ r.distance + 1 \in Nat
      BY <1>1
    <3> QED  BY <1>1, <2>3, <3>1, <3>2 DEF Searches
  <2>5. Lag(next, n + 1) = Lag(r, n) /\ n + 1 - next.distance = n - r.distance
    BY <1>1, <1>2, <2>4 DEF Lag
  <2>6. /\ Mixed(next.previous, s, Lag(next, n + 1), (n + 1) - next.distance) = next.last
        /\ \A j \in Lag(next, n + 1)..((n + 1) - next.distance - 1) :
              Mixed(next.previous, s, Lag(next, n + 1), j) = {}
    BY <1>1, <2>2, <2>4, <2>5
  <2>7. (n + 1) - 1 = n /\ next.distance > 0
    BY <1>1, <1>2, <2>4
  <2> HIDE DEF next
  <2> QED  BY <1>1, <1>2, <2>2, <2>3, <2>4, <2>5, <2>6, <2>7 DEF Searched, next, v
<1> QED  BY <1>7, <1>8, <1>9

LEMMA LocateSearches ==
    ASSUME NEW s \in SyndromeLists, NEW n \in 0..(Parity - 1), NEW r \in Searches
    PROVE  R!Locate(r, s, n) \in Searches
<1> DEFINE d == R!Discrepancy(r, s, n)
           f == R!Times(d, R!Reciprocal(r.last))
           c == R!Adjusted(r, f)
           next == R!Locate(r, s, n)
<1>1. /\ r.locator \in Locators /\ r.previous \in Locators
      /\ r.last \in R!Symbols /\ r.last # {} /\ r.degree \in Int /\ r.distance \in Nat
  BY DEF Searches
<1>2. d \in R!Symbols
  <2> DEFINE t == R!Total(1..r.degree, LAMBDA i : R!Times(r.locator[i], s[n - i]))
  <2>1. d = R!Plus(s[n], t)
    BY DEF R!Discrepancy
  <2>2. t \in R!Symbols
    BY DEF R!Total, R!Symbols
  <2>3. s[n] \in R!Symbols
    BY DEF SyndromeLists
  <2> HIDE DEF t
  <2> QED  BY <2>1, <2>2, <2>3, PlusIs
<1>3. next = CASE d = {} -> [r EXCEPT !.distance = @ + 1]
               [] d # {} /\ 2 * r.degree <= n ->
                     [locator |-> c, previous |-> r.locator, last |-> d,
                      degree |-> n + 1 - r.degree, distance |-> 1]
               [] OTHER -> [r EXCEPT !.locator = c, !.distance = @ + 1]
  BY DEF R!Locate
<1> HIDE DEF d
<1>4. c \in Locators
  <2>1. f \in R!Symbols
    BY <1>1, <1>2, FactorIs
  <2>2. c = Later(r.locator, r.previous, f, r.distance)
    BY AdjustedIs
  <2> HIDE DEF c, f
  <2> QED  BY <1>1, <2>1, <2>2, LaterIs
<1> HIDE DEF c, next
<1>5. n + 1 - r.degree \in Int /\ r.distance + 1 \in Nat
  BY <1>1, CodeSizes
<1>6. CASE d = {}
  <2>1. next = [locator |-> r.locator, previous |-> r.previous, last |-> r.last,
                degree |-> r.degree, distance |-> r.distance + 1]
    BY <1>3, <1>6 DEF Searches
  <2> QED  BY <1>1, <1>5, <2>1 DEF next, Searches
<1>7. CASE d # {} /\ 2 * r.degree <= n
  <2>1. next = [locator |-> c, previous |-> r.locator, last |-> d,
                degree |-> n + 1 - r.degree, distance |-> 1]
    BY <1>3, <1>7
  <2> QED  BY <1>1, <1>2, <1>4, <1>5, <1>7, <2>1 DEF next, Searches
<1>8. CASE d # {} /\ ~(2 * r.degree <= n)
  <2>1. next = [locator |-> c, previous |-> r.previous, last |-> r.last,
                degree |-> r.degree, distance |-> r.distance + 1]
    BY <1>3, <1>8 DEF Searches
  <2> QED  BY <1>1, <1>4, <1>5, <2>1 DEF next, Searches
<1> QED  BY <1>6, <1>7, <1>8

LEMMA StartIs ==
    ASSUME NEW s, NEW v \in Nat
    PROVE  Start \in Searches /\ Searched(Start, s, 0, v)
<1>1. Parity \in Nat
  BY CodeSizes
<1>2. Nothing \in Locators /\ Nothing[0] = {0} /\ \A i \in 0..Parity : i > 0 => Nothing[i] = {}
  BY <1>1, ZeroIs, NothingIs DEF Nothing, Locators
<1>3. Start \in Searches
  BY <1>2, ZeroIs DEF Start, Searches
<1>4. /\ Start.locator = Nothing /\ Start.previous = Nothing /\ Start.degree = 0 /\ Start.distance = 1
  BY DEF Start
<1>5. Lag(Start, 0) = 0
  BY <1>4 DEF Lag
<1>6. 0..(0 - 1) = {} /\ 0 \in 0..0 /\ 0 \in Nat
  OBVIOUS
<1>7. \A j \in Start.degree..(0 - 1) : Mixed(Start.locator, s, Start.degree, j) = {}
  BY <1>4, <1>6
<1> QED  BY <1>2, <1>3, <1>4, <1>5, <1>6, <1>7 DEF Searched

LEMMA LocatedUnfolds ==
    ASSUME NEW s
    PROVE  LET seq == [i \in 1..Parity |-> i - 1]
           IN R!Located(s) = (CHOOSE f : f = [i \in 0..Len(seq) |->
                  IF i = 0 THEN Start ELSE R!Locate(f[i - 1], s, seq[i])])[Len(seq)]
BY DEF R!Located, R!Fold, Start, Nothing

\* What the search finds if Cardinality(S) errors explain the syndromes.
LEMMA SearchEnds ==
    ASSUME NEW s \in SyndromeLists,
           NEW S, IsFiniteSet(S), NEW m \in [S -> Nat], Distinct(S, m), NEW x \in [S -> R!Symbols],
           Causes(S, m, x, s)
    PROVE  Searched(R!Located(s), s, Parity, Cardinality(S))
<1> DEFINE N == Parity
           seq == [i \in 1..N |-> i - 1]
           Eq(h) == h = [i \in 0..Len(seq) |-> IF i = 0 THEN Start ELSE R!Locate(h[i - 1], s, seq[i])]
           chosen == CHOOSE h : Eq(h)
           step == [i \in 1..N |-> [r \in Searches |-> R!Locate(r, s, i - 1)]]
           v == Cardinality(S)
<1>1. N \in Nat /\ v \in Nat
  BY CodeSizes, FS_CardinalityType
<1>2. \A i \in 1..N : i - 1 \in 0..(Parity - 1) /\ i - 1 \in Nat /\ i - 1 + 1 = i
  BY <1>1
<1>14. Len(seq) = N /\ \A i \in 1..N : seq[i] = i - 1
  BY <1>1
<1>3. R!Located(s) = chosen[N]
  <2>1. R!Located(s) = chosen[Len(seq)]
    BY LocatedUnfolds
  <2> HIDE DEF chosen, seq
  <2> QED  BY <1>14, <2>1
<1> HIDE DEF seq
<1>4. step \in [1..N -> [Searches -> Searches]]
  BY <1>2, LocateSearches
<1>5. PICK f \in [0..N -> Searches] : Loop(f, N, Start, step)
  <2>1. Start \in Searches
    BY <1>1, StartIs
  <2> HIDE DEF step
  <2> QED  BY <1>1, <1>4, <2>1, Rounds
<1>6. f[0] = Start /\ \A i \in 1..N : f[i] = R!Locate(f[i - 1], s, i - 1)
  <2>1. \A i \in 1..N : f[i - 1] \in Searches
    BY <1>1
  <2> QED  BY <1>5, <2>1 DEF Loop
<1>7. Eq(f)
  <2>1. \A i \in 0..N : i # 0 => i \in 1..N
    BY <1>1
  <2>2. f = [i \in 0..N |-> f[i]]
    OBVIOUS
  <2>3. \A i \in 0..N : f[i] = IF i = 0 THEN Start ELSE R!Locate(f[i - 1], s, seq[i])
    BY <1>6, <1>14, <2>1
  <2> QED  BY <1>14, <2>2, <2>3
<1>8. Eq(chosen)
  <2> HIDE DEF Eq
  <2> QED  BY <1>7
<1> HIDE DEF chosen, v
<1>9. 0 \in 0..N /\ \A i \in 1..N : i \in 0..N /\ i # 0
  BY <1>1
<1>10. chosen[0] = Start /\ \A i \in 1..N : chosen[i] = R!Locate(chosen[i - 1], s, i - 1)
  BY <1>8, <1>9, <1>14
<1> DEFINE Good == {i \in 0..N : Searched(chosen[i], s, i, v)}
<1>11. 0 \in Good
  BY <1>1, <1>9, <1>10, StartIs
<1>12. ASSUME NEW i \in 1..N, i - 1 \in Good
       PROVE  i \in Good
  <2>1. Searched(chosen[i - 1], s, i - 1, v)
    BY <1>12
  <2>2. Searched(R!Locate(chosen[i - 1], s, i - 1), s, i - 1 + 1, v)
    BY <1>2, <2>1, SearchedNext DEF v
  <2> QED  BY <1>2, <1>9, <1>10, <2>2
<1> HIDE DEF Good, Eq
<1>13. \A i \in 0..N : i \in Good
  BY <1>1, <1>11, <1>12, UpTo, Zenon
<1>15. Searched(chosen[N], s, N, v)
  BY <1>1, <1>13 DEF Good
<1> QED  BY <1>3, <1>15 DEF v
-----------------------------------------------------------------------------
(* The places of the errors *)

\* Multiples of Order are no power at all.
LEMMA WholeTurns ==
    ASSUME NEW u \in Nat, NEW b \in Nat
    PROVE  R!Alpha(R!Order * u + b) = R!Alpha(b)
<1>1. R!Order \in Nat /\ R!Order > 0 /\ R!Order * u \in Nat
  BY SizesAre
<1>2. (R!Order * u + 0) % R!Order = 0 /\ (R!Order * 0 + 0) % R!Order = 0
  BY <1>1, RemainderIs
<1>3. R!Order * u + 0 = R!Order * u /\ R!Order * 0 + 0 = 0
  BY <1>1
<1>4. R!Alpha(R!Order * u) = R!Alpha(0)
  BY <1>1, <1>2, <1>3, AlphaIs
<1>5. R!Alpha(R!Order * u + b) = R!Times(R!Alpha(R!Order * u), R!Alpha(b))
  BY <1>1, AlphasMultiply
<1>6. R!Alpha(0) = {0} /\ R!Alpha(b) \in R!Symbols
  BY AlphaIs
<1>7. R!Times({0}, R!Alpha(b)) = R!Alpha(b)
  BY <1>6, TimesIs
<1> QED  BY <1>4, <1>5, <1>6, <1>7

LEMMA ValueSums ==
    ASSUME NEW n \in Nat, NEW p \in [1..n -> R!Symbols], NEW m \in Nat
    PROVE  /\ R!Value(p, R!Alpha(m)) \in R!Symbols
           /\ R!Value(p, R!Alpha(m)) = SumOver(1..n, Terms(p, n, m))
           /\ IsFiniteSet(1..n)
           /\ \A k \in 1..n : /\ Terms(p, n, m)[k] = R!Times(p[k], R!Alpha(m * (n - k)))
                              /\ Terms(p, n, m)[k] \in R!Symbols
<1>1. p \in Seq(R!Symbols) /\ Len(p) = n /\ \A k \in 1..n : p[k] \in R!Symbols
  OBVIOUS
<1>2. R!Alpha(m) \in R!Symbols
  BY AlphaIs
<1>3. R!Value(p, R!Alpha(m)) \in R!Symbols
  BY <1>1, <1>2, ValueIs
<1>4. PICK f : Horner(f, p, n, R!Alpha(m)) /\ R!Value(p, R!Alpha(m)) = f[n]
  BY <1>1, <1>2, ValueIs
<1>5. \A k \in 0..n : f[k] = SumOver(1..k, Terms(p, k, m))
  BY <1>1, <1>4, HornerSums
<1>6. n \in 0..n
  OBVIOUS
<1>7. \A j \in 0..n :
        /\ IsFiniteSet(1..j)
        /\ \A k \in 1..j : /\ Terms(p, j, m)[k] = R!Times(p[k], R!Alpha(m * (j - k)))
                           /\ Terms(p, j, m)[k] \in R!Symbols
  <2> TAKE j \in 0..n
  <2> QED  BY <1>1, TermsAre
<1> QED  BY <1>3, <1>4, <1>5, <1>6, <1>7

\* The locator's polynomial at the reciprocal of a symbol.
LEMMA Reversed ==
    ASSUME NEW c \in Locators, NEW l \in 0..Parity, NEW e \in Nat,
           NEW p, p = [k \in 1..(l + 1) |-> c[l + 1 - k]]
    PROVE  R!Value(p, R!Alpha(R!Order - (e % R!Order))) = {} <=> ValueAt(c, l, e) = {}
<1> DEFINE N == R!Order
           z == N - (e % N)
           top == l + 1
           g == Terms(p, top, z)
           lead == R!Alpha(e * l)
           h == [k \in 1..top |-> R!Times(lead, g[k])]
           q == Shares(c, l, e)
           to == [k \in 1..top |-> top - k]
           All == 1..top
           K == 0..l
<1>1. N \in Nat /\ N > 0 /\ Parity \in Nat /\ l \in Nat /\ top \in Nat /\ e * l \in Nat
  BY SizesAre, CodeSizes
<1>2. PICK u \in Nat : z + e = N * u /\ z \in Nat
  <2>1. e % N \in 0..(N - 1)
    BY <1>1, Divided
  <2>2. PICK t \in Nat : e = N * t + (e % N)
    BY <1>1, Divided, Zenon
  <2>3. N * (t + 1) = N * t + N /\ N * t \in Nat
    BY <1>1
  <2>4. z + e = N * (t + 1) /\ z \in Nat
    BY <1>1, <2>1, <2>2, <2>3
  <2> QED  BY <2>4
<1>3. \A k \in All : p[k] = c[top - k] /\ top - k \in K /\ p[k] \in R!Symbols
  BY <1>1 DEF Locators
<1> HIDE DEF z, N
<1>4. lead \in R!Symbols /\ lead # {}
  BY <1>1, AlphaIs
<1>5. p \in [1..top -> R!Symbols] /\ z \in Nat
  BY <1>2, <1>3
<1>6. /\ R!Value(p, R!Alpha(z)) = SumOver(All, g) /\ R!Value(p, R!Alpha(z)) \in R!Symbols
      /\ IsFiniteSet(All)
      /\ \A k \in All : g[k] = R!Times(p[k], R!Alpha(z * (top - k))) /\ g[k] \in R!Symbols
  BY <1>1, <1>5, ValueSums
<1>7. R!Times(lead, SumOver(All, g)) = SumOver(All, h)
  <2>1. \A k \in All : g[k] \in R!Symbols /\ h[k] = R!Times(lead, g[k])
    BY <1>6
  <2> HIDE DEF lead, All, g, h
  <2> QED  BY <1>4, <1>6, <2>1, SumTimes
<1>8. ASSUME NEW k \in All
      PROVE  h[k] = q[to[k]]
  <2> DEFINE t == top - k
             a == R!Alpha(z * t)
             b == R!Alpha(e * (l - t))
             d == c[t]
  <2>1. t \in K /\ l - t \in Nat /\ t \in Nat /\ to[k] = t
    BY <1>1, <1>3
  <2>2. d \in R!Symbols /\ b \in R!Symbols /\ q[t] = R!Times(d, b)
    BY <2>1, AtIs
  <2>3. h[k] = R!Times(lead, R!Times(d, a))
    BY <1>3, <1>6
  <2> HIDE DEF t, top
  <2>4. z * t \in Nat /\ e * (l - t) \in Nat /\ u * t \in Nat
    BY <1>2, <2>1
  <2>5. e * l + z * t = N * (u * t) + e * (l - t)
    <3>1. e * l = e * t + e * (l - t)
      <4> DEFINE w == l - t
      <4>1. w \in Nat /\ l = t + w
        BY <1>1, <2>1
      <4> HIDE DEF w
      <4>2. e * (t + w) = e * t + e * w
        BY <2>1, <4>1
      <4> QED  BY <4>1, <4>2 DEF w
    <3>2. e * t + z * t = (z + e) * t
      BY <1>2, <2>1
    <3>3. (N * u) * t = N * (u * t)
      BY <1>1, <1>2, <2>1
    <3>4. e * t \in Nat /\ N * (u * t) \in Nat
      BY <1>1, <2>1, <2>4
    <3>5. (z + e) * t = (N * u) * t
      BY <1>2
    <3>6. e * t + z * t = N * (u * t)
      BY <3>2, <3>3, <3>5
    <3> QED  BY <1>1, <2>4, <3>1, <3>4, <3>6
  <2>6. R!Times(lead, a) = b
    <3>1. R!Times(lead, a) = R!Alpha(e * l + z * t)
      BY <1>1, <2>4, AlphasMultiply
    <3>2. R!Alpha(N * (u * t) + e * (l - t)) = b
      BY <2>4, WholeTurns DEF N
    <3> QED  BY <2>5, <3>1, <3>2
  <2>7. a \in R!Symbols
    BY <2>4, AlphaIs
  <2> HIDE DEF lead, a, b, d, h, q
  <2>8. R!Times(lead, R!Times(d, a)) = R!Times(d, R!Times(lead, a))
    BY <1>4, <2>2, <2>7, TimesAround
  <2> QED  BY <2>1, <2>2, <2>3, <2>6, <2>8
<1>9. SumOver(All, h) = SumOver(K, q)
  <2>1. to \in [All -> K]
    BY <1>3
  <2>2. \A i, k \in All : to[i] = to[k] => i = k
    BY <1>1
  <2>3. ASSUME NEW i \in K
        PROVE  \E k \in All : to[k] = i
    <3>1. top - i \in All /\ top - (top - i) = i
      BY <1>1
    <3> QED  BY <3>1
  <2>4. \A i \in K : \E k \in All : to[k] = i
    BY <2>3
  <2>5. \A k \in All : h[k] = q[to[k]]
    BY <1>8
  <2> HIDE DEF to, All, K, h, q
  <2> QED  BY <1>6, <2>1, <2>2, <2>4, <2>5, SumRenamed
<1>10. R!Times(lead, R!Value(p, R!Alpha(z))) = ValueAt(c, l, e)
  BY <1>6, <1>7, <1>9 DEF ValueAt
<1> DEFINE value == R!Value(p, R!Alpha(z))
<1>11. value \in R!Symbols
  BY <1>6
<1> HIDE DEF value, lead
<1>12. R!Times(lead, value) = {} <=> value = {}
  BY <1>4, <1>11, NoDivisors, TimesNothing
<1> QED  BY <1>10, <1>12 DEF value, z, N

LEMMA IsRootIs ==
    ASSUME NEW r, r.locator \in Locators, r.degree \in 0..Parity, NEW i \in 1..R!CodewordSymbols
    PROVE  R!IsRoot(r, i) <=> ValueAt(r.locator, r.degree, R!Place(i)) = {}
<1> DEFINE p == [k \in 1..(r.degree + 1) |-> r.locator[r.degree + 1 - k]]
<1>1. R!IsRoot(r, i) <=> {} = R!Value(p, R!Alpha(R!Order - (R!Place(i) % R!Order)))
  BY DEF R!IsRoot
<1>2. R!Place(i) \in Nat
  BY PlacesAre, CodeSizes
<1>3. p = [k \in 1..(r.degree + 1) |-> r.locator[r.degree + 1 - k]]
  OBVIOUS
<1> HIDE DEF p
<1>4. R!Value(p, R!Alpha(R!Order - (R!Place(i) % R!Order))) = {} <=> ValueAt(r.locator, r.degree, R!Place(i)) = {}
  BY <1>2, <1>3, Reversed
<1> QED  BY <1>1, <1>4

\* A locator is nothing at no more places than its degree.
LEMMA FewPlaces ==
    ASSUME NEW c \in Locators, NEW l \in 0..Parity, c[0] = {0},
           NEW U \in SUBSET (1..R!CodewordSymbols), \A i \in U : ValueAt(c, l, R!Place(i)) = {}
    PROVE  IsFiniteSet(U) /\ Cardinality(U) <= l
<1> DEFINE p == [k \in 1..(l + 1) |-> c[k - 1]]
           f == [i \in U |-> R!Alpha(R!Place(i))]
           Z == {R!Alpha(R!Place(i)) : i \in U}
           top == l + 1
<1>1. Parity \in Nat /\ l \in Nat
  BY CodeSizes
<1>2. p \in [1..(l + 1) -> R!Symbols] /\ p[1] = {0}
  BY <1>1 DEF Locators
<1>3. \A i \in U : i \in 1..R!CodewordSymbols /\ R!Place(i) \in Nat /\ R!Alpha(R!Place(i)) \in R!Symbols
  BY PlacesAre, CodeSizes
<1>4. Z \in SUBSET R!Symbols
  BY <1>3
<1>5. ASSUME NEW i \in U
      PROVE  Vanishes(p, l + 1, R!Alpha(R!Place(i)))
  <2> DEFINE e == R!Place(i)
             g == Terms(p, top, e)
             q == Shares(c, l, e)
             All == 1..top
             K == 0..l
             to == [k \in All |-> k - 1]
  <2>1. e \in Nat
    BY <1>3
  <2>2. SUFFICES ASSUME NEW h, Horner(h, p, top, R!Alpha(e))
                 PROVE  h[top] = {}
    BY DEF Vanishes
  <2>3. top \in Nat /\ top \in 0..top /\ \A k \in All : p[k] \in R!Symbols
    BY <1>1, <1>2
  <2>4. h[top] = SumOver(All, g)
    <3>1. \A k \in 0..top : h[k] = SumOver(1..k, Terms(p, k, e))
      <4> HIDE DEF p, top, e
      <4> QED  BY <2>1, <2>2, <2>3, HornerSums
    <3> QED  BY <2>3, <3>1
  <2>5. ASSUME NEW k \in All
        PROVE  g[k] = q[to[k]]
    <3>1. k - 1 \in K /\ top - k = l - (k - 1)
      BY <1>1
    <3>2. g[k] = R!Times(c[k - 1], R!Alpha(e * (top - k)))
      BY DEF Terms
    <3>3. q[k - 1] = R!Times(c[k - 1], R!Alpha(e * (l - (k - 1))))
      BY <3>1 DEF Shares
    <3> QED  BY <3>1, <3>2, <3>3
  <2>6. to \in [All -> K] /\ \A k, n \in All : to[k] = to[n] => k = n
    BY <1>1
  <2>7. ASSUME NEW n \in K
        PROVE  \E k \in All : to[k] = n
    <3>1. n + 1 \in All /\ n + 1 - 1 = n
      BY <1>1
    <3> QED  BY <3>1
  <2>8. SumOver(All, g) = SumOver(K, q)
    <3>1. IsFiniteSet(All)
      BY <2>3, FS_Interval
    <3>2. \A n \in K : \E k \in All : to[k] = n
      BY <2>7
    <3>3. \A k \in All : g[k] = q[to[k]]
      BY <2>5
    <3> HIDE DEF to, All, K, g, q
    <3> QED  BY <2>6, <3>1, <3>2, <3>3, SumRenamed
  <2>9. ValueAt(c, l, e) = {}
    OBVIOUS
  <2> QED  BY <2>4, <2>8, <2>9 DEF ValueAt
<1>6. Cardinality(Z) <= l
  <2>1. \A y \in Z : Vanishes(p, l + 1, y)
    BY <1>5
  <2> HIDE DEF p, Z
  <2> QED  BY <1>1, <1>2, <1>4, <2>1, FewRoots
<1>7. IsFiniteSet(Z)
  BY <1>4, SizesAre, FS_Subset
<1>8. f \in Injection(U, Z)
  <2>1. f \in [U -> Z]
    OBVIOUS
  <2>2. \A i, k \in U : f[i] = f[k] => i = k
    BY <1>3, PlacesDiffer
  <2> HIDE DEF f, Z
  <2> QED  BY <2>1, <2>2 DEF Injection, IsInjective
<1>9. IsFiniteSet(U) /\ Cardinality(U) <= Cardinality(Z)
  <2> HIDE DEF f, Z
  <2> QED  BY <1>7, <1>8, FS_Injection
<1>10. Cardinality(U) \in Nat /\ Cardinality(Z) \in Nat
  BY <1>7, <1>9, FS_CardinalityType
<1> HIDE DEF Z
<1> QED  BY <1>1, <1>6, <1>9, <1>10

\* The search ends with a locator of the errors: as many as its degree, at its roots.
LEMMA ErrorsLocated ==
    ASSUME NEW S \in SUBSET (1..R!CodewordSymbols), NEW x \in [S -> R!Symbols], \A i \in S : x[i] # {},
           Cardinality(S) <= R!Radius,
           NEW s \in SyndromeLists, Causes(S, PlacesOf(S), x, s)
    PROVE  R!Located(s).degree = Cardinality(S) /\ R!Positions(R!Located(s)) = S
<1> DEFINE r == R!Located(s)
           m == PlacesOf(S)
           v == Cardinality(S)
           c == r.locator
           l == r.degree
           U == R!Positions(r)
<1>1. IsFiniteSet(S) /\ m \in [S -> Nat] /\ Distinct(S, m) /\ v \in Nat
  BY PlacesOfAre, FS_CardinalityType
<1>2. Parity \in Nat /\ Parity = R!Radius + R!Radius /\ R!Radius \in Nat
  BY CodeSizes
<1>3. Searched(r, s, Parity, v)
  BY <1>1, SearchEnds
<1> HIDE DEF r
<1>4. /\ c \in Locators /\ l \in 0..Parity /\ l <= v /\ c[0] = {0}
      /\ \A j \in l..(Parity - 1) : Mixed(c, s, l, j) = {}
  BY <1>3 DEF Searched, Searches
<1>5. Parity \in l..Parity /\ v <= Parity - l
  BY <1>1, <1>2, <1>4
<1>6. \A i \in S : ValueAt(c, l, m[i]) = {}
  <2> HIDE DEF c, l, m
  <2>1. \A i \in S : x[i] # {} => ValueAt(c, l, m[i]) = {}
    BY <1>1, <1>4, <1>5, AllPredicted DEF m
  <2> QED  BY <2>1
<1>7. \A i \in 1..R!CodewordSymbols : i \in U <=> ValueAt(c, l, R!Place(i)) = {}
  BY <1>4, IsRootIs DEF R!Positions
<1>8. U \in SUBSET (1..R!CodewordSymbols)
  BY DEF R!Positions
<1> HIDE DEF U
<1>9. S \subseteq U
  BY <1>6, <1>7 DEF PlacesOf
<1>10. IsFiniteSet(U) /\ Cardinality(U) <= l
  <2>1. \A i \in U : ValueAt(c, l, R!Place(i)) = {}
    BY <1>7, <1>8
  <2> HIDE DEF c, l
  <2> QED  BY <1>4, <1>8, <2>1, FewPlaces
<1>11. Cardinality(S) <= Cardinality(U) /\ (Cardinality(S) = Cardinality(U) => S = U)
  BY <1>9, <1>10, FS_Subset
<1>12. Cardinality(U) \in Nat
  BY <1>10, FS_CardinalityType
<1>13. l = v /\ Cardinality(S) = Cardinality(U)
  BY <1>1, <1>4, <1>10, <1>11, <1>12
<1> QED  BY <1>11, <1>13 DEF r, U
-----------------------------------------------------------------------------
(* The errors at these places *)

LEMMA WeightedIs ==
    ASSUME NEW S \in SUBSET (1..R!CodewordSymbols), NEW e \in [S -> R!Symbols]
    PROVE  /\ Weighted(e, S) \in [S -> R!Symbols]
           /\ \A i \in S, j \in Nat :
                 Powers(S, PlacesOf(S), Weighted(e, S), j)[i] = R!Times(e[i], PlaceIn(j, i))
<1>1. ASSUME NEW i \in S
      PROVE  /\ i \in 1..R!CodewordSymbols /\ e[i] \in R!Symbols
             /\ R!Alpha(R!Place(i) * FirstRoot) \in R!Symbols
             /\ R!Times(e[i], R!Alpha(R!Place(i) * FirstRoot)) \in R!Symbols
  <2>1. R!Alpha(R!Place(i) * FirstRoot) \in R!Symbols /\ e[i] \in R!Symbols
    BY PlacesAre, CodeSizes
  <2> QED  BY <2>1, TimesIs
<1>2. ASSUME NEW i \in S, NEW j \in Nat
      PROVE  Powers(S, PlacesOf(S), Weighted(e, S), j)[i] = R!Times(e[i], PlaceIn(j, i))
  <2> DEFINE a == e[i]
             b == R!Alpha(R!Place(i) * FirstRoot)
             c == R!Alpha(R!Place(i) * j)
  <2>1. a \in R!Symbols /\ b \in R!Symbols
    BY <1>1
  <2>2. c \in R!Symbols /\ PlaceIn(j, i) = R!Times(b, c)
    BY <1>1, PlacesAre
  <2>3. Powers(S, PlacesOf(S), Weighted(e, S), j)[i] = R!Times(R!Times(a, b), c)
    BY DEF Powers, PlacesOf, Weighted
  <2> HIDE DEF a, b, c
  <2>4. R!Times(a, R!Times(b, c)) = R!Times(R!Times(a, b), c)
    BY <2>1, <2>2, TimesAround
  <2> QED  BY <2>2, <2>3, <2>4 DEF a
<1> QED  BY <1>1, <1>2 DEF Weighted

LEMMA ExplainsIs ==
    ASSUME NEW S \in SUBSET (1..R!CodewordSymbols), NEW e \in [S -> R!Symbols], NEW s
    PROVE  R!Explains(e, s, S) <=>
               \A j \in 0..(Cardinality(S) - 1) :
                   s[j] = SumOver(S, Powers(S, PlacesOf(S), Weighted(e, S), j))
<1>1. R!Cardinality(S) = Cardinality(S) /\ Cardinality(S) \in Nat
  BY SameCardinality, PlacesOfAre, FS_CardinalityType
<1>2. ASSUME NEW j \in Nat
      PROVE  R!Total(S, LAMBDA i : R!Times(e[i], R!Alpha((FirstRoot + j) * PrimitiveStep * (R!CodewordSymbols - i))))
                 = SumOver(S, Powers(S, PlacesOf(S), Weighted(e, S), j))
  <2> DEFINE g == Powers(S, PlacesOf(S), Weighted(e, S), j)
             f(i) == R!Times(e[i], R!Alpha((FirstRoot + j) * PrimitiveStep * (R!CodewordSymbols - i)))
  <2>1. R!Total(S, LAMBDA i : R!Times(e[i], R!Alpha((FirstRoot + j) * PrimitiveStep * (R!CodewordSymbols - i))))
            = {p \in 0..(Degree - 1) : R!Cardinality({i \in S : p \in f(i)}) % 2 = 1}
    BY DEF R!Total
  <2>2. \A i \in S : g[i] = f(i)
    BY WeightedIs DEF PlaceIn
  <2> HIDE DEF f, g
  <2>3. \A p : {i \in S : p \in f(i)} = {i \in S : p \in g[i]}
    BY <2>2
  <2>4. \A p : R!Cardinality({i \in S : p \in f(i)}) % 2 = 1 <=> OddMany({i \in S : p \in g[i]})
    BY <2>3, SameCardinality DEF OddMany
  <2>5. {p \in 0..(Degree - 1) : R!Cardinality({i \in S : p \in f(i)}) % 2 = 1} = SumOver(S, g)
    BY <2>4 DEF SumOver
  <2> QED  BY <2>1, <2>5 DEF g
<1>3. R!Explains(e, s, S) <=>
          \A j \in 0..(R!Cardinality(S) - 1) :
              s[j] = R!Total(S, LAMBDA i : R!Times(e[i], R!Alpha((FirstRoot + j) * PrimitiveStep * (R!CodewordSymbols - i))))
  BY DEF R!Explains
<1>4. \A j \in 0..(Cardinality(S) - 1) : j \in Nat
  BY <1>1
<1> DEFINE total(j) == R!Total(S, LAMBDA i : R!Times(e[i], R!Alpha((FirstRoot + j) * PrimitiveStep * (R!CodewordSymbols - i))))
<1>5. \A j \in Nat : total(j) = SumOver(S, Powers(S, PlacesOf(S), Weighted(e, S), j))
  BY <1>2
<1>6. R!Explains(e, s, S) <=> \A j \in 0..(R!Cardinality(S) - 1) : s[j] = total(j)
  BY <1>3
<1> HIDE DEF total
<1> QED  BY <1>1, <1>4, <1>5, <1>6

\* There are no two errors at these places with the same syndromes.
LEMMA OneExplanation ==
    ASSUME NEW S \in SUBSET (1..R!CodewordSymbols), NEW s,
           NEW e \in [S -> R!Symbols], R!Explains(e, s, S),
           NEW f \in [S -> R!Symbols], R!Explains(f, s, S)
    PROVE  e = f
<1> DEFINE m == PlacesOf(S)
           y == [i \in S |-> R!Plus(Weighted(e, S)[i], Weighted(f, S)[i])]
<1>1. IsFiniteSet(S) /\ m \in [S -> Nat] /\ Distinct(S, m)
  BY PlacesOfAre
<1>2. Weighted(e, S) \in [S -> R!Symbols] /\ Weighted(f, S) \in [S -> R!Symbols]
  BY WeightedIs
<1>3. y \in [S -> R!Symbols]
  BY <1>2, PlusIs
<1>4. ASSUME NEW j \in 0..(Cardinality(S) - 1)
      PROVE  SumOver(S, Powers(S, m, y, j)) = {}
  <2> DEFINE g == Powers(S, m, Weighted(e, S), j)
             h == Powers(S, m, Weighted(f, S), j)
             k == Powers(S, m, y, j)
  <2>1. s[j] = SumOver(S, g) /\ s[j] = SumOver(S, h)
    BY ExplainsIs
  <2>2. ASSUME NEW i \in S
        PROVE  k[i] = R!Plus(g[i], h[i])
    <3> DEFINE a == Weighted(e, S)[i]
               b == Weighted(f, S)[i]
               c == R!Alpha(m[i] * j)
    <3>1. a \in R!Symbols /\ b \in R!Symbols
      BY <1>2
    <3>2. c \in R!Symbols
      <4>1. Cardinality(S) \in Nat
        BY <1>1, FS_CardinalityType
      <4>2. j \in Nat /\ m[i] \in Nat
        BY <1>1, <4>1
      <4> HIDE DEF m
      <4> QED  BY <4>2, AlphaSymbols
    <3>3. k[i] = R!Times(R!Plus(a, b), c) /\ g[i] = R!Times(a, c) /\ h[i] = R!Times(b, c)
      BY DEF Powers
    <3> HIDE DEF a, b, c, g, h, k
    <3> QED  BY <3>1, <3>2, <3>3, TimesIs
  <2> HIDE DEF g, h, k
  <2>3. SumOver(S, k) = R!Plus(SumOver(S, g), SumOver(S, h))
    <3>1. IsFiniteSet(S) /\ \A i \in S : k[i] = R!Plus(g[i], h[i])
      BY <1>1, <2>2
    <3> HIDE DEF y, m
    <3> QED  BY <3>1, SumPlus
  <2>4. SumOver(S, g) \in R!Symbols
    BY SumIs
  <2> QED  BY <2>1, <2>3, <2>4, PlusIs DEF k
<1>5. Vanish(S, m, y)
  BY <1>4 DEF Vanish
<1> HIDE DEF m
<1>6. \A i \in S : y[i] = {}
  <2> HIDE DEF y
  <2> QED  BY <1>1, <1>3, <1>5, Vandermonde
<1>7. ASSUME NEW i \in S
      PROVE  e[i] = f[i]
  <2> DEFINE a == e[i]
             b == f[i]
             c == R!Alpha(R!Place(i) * FirstRoot)
             d == R!Plus(a, b)
  <2>1. a \in R!Symbols /\ b \in R!Symbols
    OBVIOUS
  <2>2. c \in R!Symbols /\ c # {}
    <3>1. i \in 1..R!CodewordSymbols
      OBVIOUS
    <3> QED  BY <3>1, PlacesAre, CodeSizes
  <2>3. R!Plus(R!Times(a, c), R!Times(b, c)) = {}
    BY <1>6 DEF Weighted
  <2> HIDE DEF a, b, c
  <2>4. R!Times(d, c) = {}
    BY <2>1, <2>2, <2>3, TimesIs
  <2>5. d \in R!Symbols /\ (d = {} => a = b)
    BY <2>1, PlusIs
  <2> HIDE DEF d
  <2>6. d = {}
    BY <2>2, <2>4, <2>5, NoDivisors
  <2> QED  BY <2>5, <2>6 DEF a, b
<1>8. e = [i \in S |-> e[i]] /\ f = [i \in S |-> f[i]]
  OBVIOUS
<1> QED  BY <1>7, <1>8
-----------------------------------------------------------------------------
(* Correcting a lane *)

LEMMA SyndromesOf ==
    ASSUME NEW word \in LaneWords
    PROVE  /\ R!Syndromes(word) \in SyndromeLists
           /\ \A j \in 0..(Parity - 1) : R!Syndromes(word)[j] = R!Value(word, R!Root(j))
           /\ Flawless(word) <=> R!IsCodeword(word)
<1>1. R!Syndromes(word) = [j \in 0..(Parity - 1) |-> R!Value(word, R!Root(j))]
  BY SyndromesAre
<1>2. \A j \in 0..(Parity - 1) : j \in Nat
  BY CodeSizes
<1>3. \A j \in Nat : R!Value(word, R!Root(j)) \in R!Symbols
  <2> TAKE j \in Nat
  <2> DEFINE g == [i \in 1..R!CodewordSymbols |-> R!Times(word[i], PlaceIn(j, i))]
  <2>1. \A i \in 1..R!CodewordSymbols : g[i] = R!Times(word[i], PlaceIn(j, i))
    OBVIOUS
  <2> HIDE DEF g
  <2> QED  BY <2>1, SyndromeIs
<1>4. R!Syndromes(word) \in SyndromeLists
  BY <1>1, <1>2, <1>3 DEF SyndromeLists
<1>5. Flawless(word) <=> R!IsCodeword(word)
  BY <1>1 DEF Flawless, R!IsCodeword
<1> QED  BY <1>1, <1>4, <1>5

LEMMA ErrorsFound ==
    ASSUME NEW word \in LaneWords, NEW c \in LaneWords, R!IsCodeword(c),
           Cardinality(Changed(word, c)) <= R!Radius
    PROVE  /\ Suspected(word).degree = Cardinality(Changed(word, c))
           /\ Suspects(word) = Changed(word, c)
           /\ Explained(word) = {Wrong(word, c)}
           /\ \A i \in Changed(word, c) : Wrong(word, c)[i] # {}
<1> DEFINE S == Changed(word, c)
           e == Wrong(word, c)
           x == Seen(word, c, S)
           s == R!Syndromes(word)
<1>1. S \in SUBSET (1..R!CodewordSymbols)
  BY LaneWordIs DEF Changed
<1>2. \A i \in 1..R!CodewordSymbols : word[i] \in R!Symbols /\ c[i] \in R!Symbols
  BY DEF LaneWords
<1>3. \A i \in S : word[i] # c[i]
  BY DEF Changed
<1>4. \A i \in (1..R!CodewordSymbols) \ S : word[i] = c[i]
  BY LaneWordIs DEF Changed
<1> HIDE DEF S
<1>5. e \in [S -> R!Symbols] /\ \A i \in S : e[i] # {}
  <2>1. e = [i \in S |-> R!Plus(word[i], c[i])]
    BY DEF Wrong, S
  <2>2. ASSUME NEW i \in S
        PROVE  R!Plus(word[i], c[i]) \in R!Symbols /\ R!Plus(word[i], c[i]) # {}
    BY <1>1, <1>2, <1>3, PlusIs
  <2> HIDE DEF e
  <2> QED  BY <2>1, <2>2
<1>6. x \in [S -> R!Symbols] /\ \A i \in S : x[i] # {}
  <2>1. x \in [S -> R!Symbols] /\ \A i \in S : x[i] = {} => word[i] = c[i]
    BY <1>1, SeenIs
  <2> HIDE DEF x
  <2> QED  BY <1>3, <2>1
<1>7. s \in SyndromeLists
  BY SyndromesOf
<1>8. \A j \in 0..(Parity - 1) : s[j] = SumOver(S, Powers(S, PlacesOf(S), x, j))
  <2> TAKE j \in 0..(Parity - 1)
  <2>1. j \in Nat
    BY CodeSizes
  <2>2. s[j] = R!Value(word, R!Root(j))
    BY SyndromesOf
  <2>3. R!Value(c, R!Root(j)) = {}
    BY DEF R!IsCodeword
  <2>4. R!Plus(R!Value(word, R!Root(j)), R!Value(c, R!Root(j))) = SumOver(S, Powers(S, PlacesOf(S), x, j))
    BY <1>1, <1>4, <2>1, SyndromesDiffer
  <2>5. s[j] \in R!Symbols
    BY <1>7 DEF SyndromeLists
  <2> HIDE DEF s, x
  <2> QED  BY <2>2, <2>3, <2>4, <2>5, NothingIs, PlusIs
<1>9. R!Located(s).degree = Cardinality(S) /\ R!Positions(R!Located(s)) = S
  <2>1. Causes(S, PlacesOf(S), x, s)
    BY <1>8 DEF Causes
  <2>2. Cardinality(S) <= R!Radius
    BY DEF S
  <2> HIDE DEF s, x
  <2> QED  BY <1>1, <1>6, <1>7, <2>1, <2>2, ErrorsLocated
<1>10. R!Explains(e, s, S)
  <2>1. Weighted(e, S) = x
    <3>1. \A i \in S : e[i] = R!Plus(word[i], c[i])
      BY DEF Wrong, S
    <3> HIDE DEF e
    <3> QED  BY <3>1 DEF Weighted, Seen
  <2>2. Cardinality(S) \in Nat /\ Cardinality(S) <= R!Radius
    <3>1. IsFiniteSet(S)
      BY <1>1, PlacesOfAre
    <3> QED  BY <3>1, FS_CardinalityType DEF S
  <2>3. \A j \in 0..(Cardinality(S) - 1) : j \in 0..(Parity - 1)
    BY <2>2, CodeSizes
  <2> HIDE DEF s, x, e
  <2>4. \A j \in 0..(Cardinality(S) - 1) : s[j] = SumOver(S, Powers(S, PlacesOf(S), Weighted(e, S), j))
    BY <1>8, <2>1, <2>3
  <2> QED  BY <1>1, <1>5, <2>4, ExplainsIs
<1>11. R!Solutions(s, S) = {e}
  <2>1. R!Solutions(s, S) = {f \in [S -> R!Symbols] : R!Explains(f, s, S)}
    BY DEF R!Solutions
  <2>2. \A f \in [S -> R!Symbols] : R!Explains(f, s, S) => f = e
    <3> HIDE DEF e, s
    <3> QED  BY <1>1, <1>5, <1>10, OneExplanation
  <2> HIDE DEF e, s
  <2> QED  BY <1>5, <1>10, <2>1, <2>2
<1>12. Suspects(word) = S /\ Suspected(word).degree = Cardinality(S)
  BY <1>9 DEF Suspects, Suspected
<1>13. Explained(word) = {e}
  BY <1>11, <1>12 DEF Explained
<1> QED  BY <1>5, <1>12, <1>13 DEF S

\* A codeword is what `correct` makes of any word that has at most Radius errors.
THEOREM CodewordsAreRestored ==
    ASSUME NEW word \in LaneWords, NEW c \in LaneWords, R!IsCodeword(c),
           Cardinality(Changed(word, c)) <= R!Radius
    PROVE  R!Corrections(word) = {c}
<1> DEFINE S == Changed(word, c)
           e == Wrong(word, c)
           n == R!CodewordSymbols
<1>1. S \in SUBSET (1..n) /\ DOMAIN word = 1..n
  BY LaneWordIs DEF Changed
<1>2. IsFiniteSet(S) /\ Cardinality(S) \in Nat
  BY <1>1, PlacesOfAre, FS_CardinalityType
<1>3. \A i \in (1..n) \ S : word[i] = c[i]
  BY LaneWordIs DEF Changed
<1>4. R!Corrections(word) =
          IF Flawless(word) THEN {word}
          ELSE IF /\ Suspected(word).degree \in 1..R!Radius
                  /\ Cardinality(Suspects(word)) = Suspected(word).degree
                  /\ Cardinality(Explained(word)) = 1
               THEN {w \in Repairs(word) : R!Verified(w)} ELSE {}
  BY CorrectionsAre
<1>5. /\ Suspected(word).degree = Cardinality(S) /\ Suspects(word) = S
      /\ Explained(word) = {e} /\ \A i \in S : e[i] # {}
  BY ErrorsFound
<1>6. CASE Flawless(word)
  <2>1. R!IsCodeword(word)
    BY <1>6, SyndromesOf
  <2>2. Cardinality(S) <= Parity
    BY <1>2, CodeSizes
  <2> HIDE DEF S
  <2>3. word = c
    BY <1>1, <1>3, <2>1, <2>2, CodewordsAreApart
  <2> QED  BY <1>4, <1>6, <2>3
<1>7. CASE ~Flawless(word)
  <2>1. S # {}
    <3>1. SUFFICES ASSUME S = {}
                   PROVE  FALSE
      OBVIOUS
    <3>2. word = [i \in 1..n |-> word[i]] /\ c = [i \in 1..n |-> c[i]]
      BY DEF LaneWords
    <3>3. word = c
      BY <1>3, <3>1, <3>2
    <3> QED  BY <1>7, <3>3, SyndromesOf
  <2>2. Cardinality(S) \in 1..R!Radius
    <3>1. Cardinality(S) # 0
      BY <1>2, <2>1, FS_EmptySet
    <3>2. Cardinality(S) <= R!Radius /\ R!Radius \in Nat
      BY CodeSizes
    <3> HIDE DEF S
    <3> QED  BY <1>2, <3>1, <3>2
  <2>3. Cardinality({e}) = 1
    BY FS_Singleton
  <2>4. R!Repaired(word, e) = c
    <3> DEFINE w == [i \in DOMAIN word |-> IF i \in DOMAIN e THEN R!Plus(word[i], e[i]) ELSE word[i]]
    <3>1. DOMAIN e = S /\ \A i \in S : e[i] = R!Plus(word[i], c[i])
      BY DEF Wrong
    <3>2. ASSUME NEW i \in 1..n
          PROVE  (IF i \in DOMAIN e THEN R!Plus(word[i], e[i]) ELSE word[i]) = c[i]
      <4>1. word[i] \in R!Symbols /\ c[i] \in R!Symbols
        BY DEF LaneWords
      <4>2. CASE i \in S
        <5>1. e[i] = R!Plus(word[i], c[i])
          BY <3>1, <4>2
        <5>2. R!Plus(word[i], R!Plus(word[i], c[i])) = c[i]
          BY DEF R!Plus
        <5> QED  BY <3>1, <4>2, <5>1, <5>2
      <4>3. CASE i \notin S
        BY <1>3, <3>1, <4>3
      <4> QED  BY <4>2, <4>3
    <3>3. c = [i \in 1..n |-> c[i]]
      BY DEF LaneWords
    <3>4. w = c
      BY <1>1, <3>2, <3>3
    <3>5. R!Repaired(word, e) = R!Written(w)
      BY DEF R!Repaired
    <3>6. R!Written(c) = c
      BY LaneWordIs, ConcatEmptySeq DEF R!Written
    <3> HIDE DEF w
    <3> QED  BY <3>4, <3>5, <3>6
  <2>5. Repairs(word) = {c}
    <3>1. Repairs(word) = {R!Repaired(word, f) : f \in {g \in Explained(word) : \A i \in Suspects(word) : g[i] # {}}}
      BY DEF Repairs
    <3> HIDE DEF e, S
    <3>2. {g \in Explained(word) : \A i \in Suspects(word) : g[i] # {}} = {e}
      BY <1>5
    <3> QED  BY <2>4, <3>1, <3>2
  <2>6. R!Verified(c)
    BY DEF R!Verified
  <2>7. /\ Suspected(word).degree \in 1..R!Radius
        /\ Cardinality(Suspects(word)) = Suspected(word).degree
        /\ Cardinality(Explained(word)) = 1
    <3> HIDE DEF e, S
    <3> QED  BY <1>5, <2>2, <2>3
  <2>8. R!Corrections(word) = {w \in Repairs(word) : R!Verified(w)}
    BY <1>4, <1>7, <2>7
  <2> QED  BY <2>5, <2>6, <2>8
<1> QED  BY <1>6, <1>7
-----------------------------------------------------------------------------
(* The generator *)

LEMMA ValueAdds ==
    ASSUME NEW n \in Nat, NEW p \in [1..n -> R!Symbols], NEW q \in [1..n -> R!Symbols],
           NEW r \in [1..n -> R!Symbols], NEW a \in R!Symbols, NEW y \in R!Symbols,
           Summed(r, p, a, q, n)
    PROVE  R!Value(r, y) = R!Plus(R!Value(p, y), R!Times(a, R!Value(q, y)))
<1>1. /\ p \in Seq(R!Symbols) /\ Len(p) = n /\ q \in Seq(R!Symbols) /\ Len(q) = n
      /\ r \in Seq(R!Symbols) /\ Len(r) = n
  OBVIOUS
<1>2. PICK f : Horner(f, p, n, y) /\ R!Value(p, y) = f[n]
  BY <1>1, ValueIs
<1>3. PICK g : Horner(g, q, n, y) /\ R!Value(q, y) = g[n]
  BY <1>1, ValueIs
<1>4. PICK h : Horner(h, r, n, y) /\ R!Value(r, y) = h[n]
  BY <1>1, ValueIs
<1> DEFINE S == {k \in 0..n : h[k] = R!Plus(f[k], R!Times(a, g[k]))}
<1>5. 0 \in S
  <2>1. f[0] = {} /\ g[0] = {} /\ h[0] = {} /\ 0 \in 0..n
    BY <1>2, <1>3, <1>4 DEF Horner
  <2>2. R!Times(a, {}) = {} /\ R!Plus({}, {}) = {}
    BY TimesIs, PlusIs, NothingIs
  <2> QED  BY <2>1, <2>2
<1>6. ASSUME NEW k \in 1..n, k - 1 \in S
      PROVE  k \in S
  <2> DEFINE fo == f[k - 1]
             go == g[k - 1]
             pk == p[k]
             qk == q[k]
             ag == R!Times(a, go)
  <2>1. k - 1 \in 0..n /\ k \in 0..n
    OBVIOUS
  <2>2. /\ f[k] = R!Plus(R!Times(fo, y), pk) /\ fo \in R!Symbols
        /\ g[k] = R!Plus(R!Times(go, y), qk) /\ go \in R!Symbols
        /\ h[k] = R!Plus(R!Times(h[k - 1], y), r[k])
    BY <1>2, <1>3, <1>4, <2>1 DEF Horner
  <2>3. h[k - 1] = R!Plus(fo, ag) /\ r[k] = R!Plus(pk, R!Times(a, qk))
    BY <1>6 DEF Summed
  <2>4. pk \in R!Symbols /\ qk \in R!Symbols
    OBVIOUS
  <2> HIDE DEF fo, go, pk, qk
  <2>5. ag \in R!Symbols
    BY <2>2, TimesIs
  <2>6. R!Times(R!Plus(fo, ag), y) = R!Plus(R!Times(fo, y), R!Times(ag, y))
    BY <2>2, <2>5, TimesIs
  <2>7. R!Times(go, y) \in R!Symbols
    BY <2>2, TimesIs
  <2>8. R!Times(a, g[k]) = R!Plus(R!Times(a, R!Times(go, y)), R!Times(a, qk))
    BY <2>2, <2>4, <2>7, TimesIs
  <2>9. R!Times(a, R!Times(go, y)) = R!Times(ag, y)
    BY <2>2, TimesAround
  <2> HIDE DEF ag
  <2>10. h[k] = R!Plus(f[k], R!Times(a, g[k]))
    <3>1. h[k] = R!Plus(R!Plus(R!Times(fo, y), R!Times(ag, y)), R!Plus(pk, R!Times(a, qk)))
      BY <2>2, <2>3, <2>6
    <3>2. R!Plus(f[k], R!Times(a, g[k]))
              = R!Plus(R!Plus(R!Times(fo, y), pk), R!Plus(R!Times(ag, y), R!Times(a, qk)))
      BY <2>2, <2>8, <2>9
    <3> QED  BY <3>1, <3>2 DEF R!Plus
  <2> QED  BY <2>1, <2>10
<1> HIDE DEF S
<1>7. \A k \in 0..n : k \in S
  BY <1>5, <1>6, UpTo, Zenon
<1> QED  BY <1>2, <1>3, <1>4, <1>7 DEF S

LEMMA TimesRootIs ==
    ASSUME NEW n \in Nat, NEW g \in [1..n -> R!Symbols], NEW x \in R!Symbols
    PROVE  /\ R!TimesRoot(g, x) \in [1..(n + 1) -> R!Symbols]
           /\ \A i \in 1..(n + 1) :
                 R!TimesRoot(g, x)[i] = R!Plus(IF i <= n THEN g[i] ELSE {},
                                               IF i > 1 THEN R!Times(g[i - 1], x) ELSE {})
           /\ n > 0 => R!TimesRoot(g, x)[1] = g[1]
<1>1. Len(g) = n
  OBVIOUS
<1>2. ASSUME NEW i \in 1..(n + 1)
      PROVE  R!Plus(IF i <= n THEN g[i] ELSE {}, IF i > 1 THEN R!Times(g[i - 1], x) ELSE {}) \in R!Symbols
  <2>1. (IF i <= n THEN g[i] ELSE {}) \in R!Symbols
    BY NothingIs
  <2>2. i > 1 => g[i - 1] \in R!Symbols
    OBVIOUS
  <2>3. (IF i > 1 THEN R!Times(g[i - 1], x) ELSE {}) \in R!Symbols
    BY <2>2, NothingIs, TimesIs
  <2> QED  BY <2>1, <2>3, PlusIs
<1>3. R!TimesRoot(g, x) = [i \in 1..(n + 1) |->
          R!Plus(IF i <= n THEN g[i] ELSE {}, IF i > 1 THEN R!Times(g[i - 1], x) ELSE {})]
  BY <1>1 DEF R!TimesRoot
<1>4. ASSUME n > 0
      PROVE  R!TimesRoot(g, x)[1] = g[1]
  <2>1. 1 \in 1..(n + 1) /\ g[1] \in R!Symbols /\ 1 <= n
    BY <1>4
  <2>2. R!TimesRoot(g, x)[1] = R!Plus(g[1], {})
    BY <1>3, <2>1
  <2> QED  BY <2>1, <2>2, PlusIs, NothingIs
<1> QED  BY <1>2, <1>3, <1>4

LEMMA TimesRootValue ==
    ASSUME NEW n \in Nat, NEW g \in [1..n -> R!Symbols], n > 0, NEW x \in R!Symbols, NEW y \in R!Symbols
    PROVE  R!Value(R!TimesRoot(g, x), y) = R!Times(R!Value(g, y), R!Plus(y, x))
<1> DEFINE t == R!TimesRoot(g, x)
<1>1. t \in [1..(n + 1) -> R!Symbols] /\ t[1] = g[1]
  BY TimesRootIs
<1>2. \A i \in 1..(n + 1) : t[i] = R!Plus(IF i <= n THEN g[i] ELSE {},
                                          IF i > 1 THEN R!Times(g[i - 1], x) ELSE {})
  BY TimesRootIs
<1> HIDE DEF t
<1>3. g \in Seq(R!Symbols) /\ Len(g) = n /\ t \in Seq(R!Symbols) /\ Len(t) = n + 1
  BY <1>1
<1>4. PICK h : Horner(h, g, n, y) /\ R!Value(g, y) = h[n]
  BY <1>3, ValueIs
<1>5. PICK k : Horner(k, t, n + 1, y) /\ R!Value(t, y) = k[n + 1]
  BY <1>3, ValueIs
<1> DEFINE S == {i \in 0..(n - 1) : k[i + 1] = R!Plus(h[i + 1], R!Times(h[i], x))}
<1>6. 0 \in S
  <2>1. 0 \in 0..(n - 1) /\ 1 \in 1..n /\ 1 \in 1..(n + 1) /\ 1 - 1 = 0 /\ 0 + 1 = 1
    OBVIOUS
  <2>2. k[1] = R!Plus(R!Times({}, y), g[1]) /\ h[1] = R!Plus(R!Times({}, y), g[1]) /\ h[0] = {}
    BY <1>1, <1>4, <1>5, <2>1 DEF Horner
  <2>3. R!Times({}, x) = {} /\ h[1] \in R!Symbols
    BY <1>4, <2>1, TimesIs DEF Horner
  <2>4. R!Plus(h[1], {}) = h[1]
    BY <2>3, NothingIs, PlusIs
  <2> QED  BY <2>1, <2>2, <2>3, <2>4
<1>7. ASSUME NEW i \in 1..(n - 1), i - 1 \in S
      PROVE  i \in S
  <2> DEFINE a == h[i - 1]
             b == h[i]
             c == g[i]
             d == g[i + 1]
  <2>1. i \in 0..(n - 1) /\ i \in 1..n /\ i + 1 \in 1..n /\ i + 1 \in 1..(n + 1) /\ i + 1 - 1 = i /\ i - 1 + 1 = i
        /\ i + 1 <= n /\ i + 1 > 1 /\ i - 1 \in 0..n
    OBVIOUS
  <2>2. k[i] = R!Plus(b, R!Times(a, x))
    BY <1>7, <2>1
  <2>3. /\ k[i + 1] = R!Plus(R!Times(k[i], y), t[i + 1])
        /\ b = R!Plus(R!Times(a, y), c) /\ h[i + 1] = R!Plus(R!Times(b, y), d)
        /\ a \in R!Symbols /\ b \in R!Symbols
    BY <1>4, <1>5, <2>1 DEF Horner
  <2>4. t[i + 1] = R!Plus(d, R!Times(c, x)) /\ c \in R!Symbols /\ d \in R!Symbols
    BY <1>2, <2>1
  <2> HIDE DEF a, b, c, d
  <2>5. R!Times(a, x) \in R!Symbols /\ R!Times(a, y) \in R!Symbols
    BY <2>3, TimesIs
  <2>6. R!Times(R!Plus(b, R!Times(a, x)), y) = R!Plus(R!Times(b, y), R!Times(R!Times(a, x), y))
    BY <2>3, <2>5, TimesIs
  <2>7. R!Times(R!Plus(R!Times(a, y), c), x) = R!Plus(R!Times(R!Times(a, y), x), R!Times(c, x))
    BY <2>4, <2>5, TimesIs
  <2>8. R!Times(R!Times(a, x), y) = R!Times(R!Times(a, y), x)
    BY <2>3, TimesAround
  <2>9. R!Times(b, x) = R!Plus(R!Times(R!Times(a, x), y), R!Times(c, x))
    BY <2>3, <2>7, <2>8
  <2>10. k[i + 1] = R!Plus(R!Plus(R!Times(b, y), R!Times(R!Times(a, x), y)), R!Plus(d, R!Times(c, x)))
    BY <2>2, <2>3, <2>4, <2>6
  <2>11. R!Plus(h[i + 1], R!Times(b, x))
             = R!Plus(R!Plus(R!Times(b, y), d), R!Plus(R!Times(R!Times(a, x), y), R!Times(c, x)))
    BY <2>3, <2>9
  <2>12. k[i + 1] = R!Plus(h[i + 1], R!Times(b, x))
    BY <2>10, <2>11 DEF R!Plus
  <2> QED  BY <2>1, <2>12 DEF b
<1> HIDE DEF S
<1>8. n - 1 \in S
  <2>1. n - 1 \in Nat /\ n - 1 \in 0..(n - 1)
    OBVIOUS
  <2> DEFINE last == n - 1
  <2>2. \A i \in 1..last : i - 1 \in S => i \in S
    BY <1>7
  <2> HIDE DEF last
  <2>3. \A i \in 0..last : i \in S
    BY <1>6, <2>1, <2>2, UpTo, Zenon DEF last
  <2> QED  BY <2>1, <2>3 DEF last
<1> DEFINE a == h[n - 1]
           b == h[n]
           c == g[n]
<1>9. k[n] = R!Plus(b, R!Times(a, x))
  <2>1. n - 1 + 1 = n
    OBVIOUS
  <2> QED  BY <1>8, <2>1 DEF S
<1>10. /\ k[n + 1] = R!Plus(R!Times(k[n], y), t[n + 1])
       /\ b = R!Plus(R!Times(a, y), c)
       /\ a \in R!Symbols /\ b \in R!Symbols
  <2>1. n + 1 \in 1..(n + 1) /\ n + 1 - 1 = n /\ n \in 1..n /\ n - 1 \in 0..n /\ n \in 0..n
    OBVIOUS
  <2> QED  BY <1>4, <1>5, <2>1 DEF Horner
<1>11. t[n + 1] = R!Times(c, x) /\ c \in R!Symbols
  <2>1. n + 1 \in 1..(n + 1) /\ ~(n + 1 <= n) /\ n + 1 > 1 /\ n + 1 - 1 = n /\ c \in R!Symbols
    OBVIOUS
  <2>2. t[n + 1] = R!Plus({}, R!Times(c, x))
    BY <1>2, <2>1
  <2>3. R!Times(c, x) \in R!Symbols
    BY <2>1, TimesIs
  <2> HIDE DEF c
  <2> QED  BY <2>1, <2>2, <2>3, NothingIs, PlusIs
<1> HIDE DEF a, b, c
<1>12. R!Times(a, x) \in R!Symbols /\ R!Times(a, y) \in R!Symbols
  BY <1>10, TimesIs
<1>13. R!Times(R!Plus(b, R!Times(a, x)), y) = R!Plus(R!Times(b, y), R!Times(R!Times(a, x), y))
  BY <1>10, <1>12, TimesIs
<1>14. R!Times(b, x) = R!Plus(R!Times(R!Times(a, y), x), R!Times(c, x))
  BY <1>10, <1>11, <1>12, TimesIs
<1>15. R!Times(R!Times(a, x), y) = R!Times(R!Times(a, y), x)
  BY <1>10, TimesAround
<1>16. k[n + 1] = R!Plus(R!Plus(R!Times(b, y), R!Times(R!Times(a, y), x)), R!Times(c, x))
  BY <1>9, <1>10, <1>11, <1>13, <1>15
<1>17. k[n + 1] = R!Plus(R!Times(b, y), R!Times(b, x))
  BY <1>14, <1>16 DEF R!Plus
<1>18. R!Times(b, R!Plus(y, x)) = R!Plus(R!Times(b, y), R!Times(b, x))
  BY <1>10, TimesIs
<1> QED  BY <1>4, <1>5, <1>17, <1>18 DEF b, t

LEMMA RootsAre ==
    ASSUME NEW j \in Nat
    PROVE  R!Root(j) \in R!Symbols
<1>1. (FirstRoot + j) * PrimitiveStep \in Nat
  BY CodeSizes
<1> QED  BY <1>1, AlphaIs DEF R!Root

LEMMA MonicFirst == Monic(<<{0}>>, 0)
<1>1. <<{0}>> \in [1..(0 + 1) -> R!Symbols] /\ <<{0}>>[1] = {0}
  BY ZeroIs
<1>2. 0..(0 - 1) = {}
  OBVIOUS
<1> QED  BY <1>1, <1>2 DEF Monic

LEMMA MonicNext ==
    ASSUME NEW k \in Nat, NEW g, Monic(g, k)
    PROVE  Monic(R!TimesRoot(g, R!Root(k)), k + 1)
<1> DEFINE x == R!Root(k)
           t == R!TimesRoot(g, x)
           n == k + 1
<1>1. x \in R!Symbols /\ n \in Nat /\ n > 0 /\ g \in [1..n -> R!Symbols] /\ g[1] = {0}
  BY RootsAre DEF Monic
<1>2. t \in [1..(n + 1) -> R!Symbols] /\ t[1] = {0}
  <2> HIDE DEF x, n
  <2> QED  BY <1>1, TimesRootIs
<1>3. ASSUME NEW j \in 0..(n - 1)
      PROVE  R!Value(t, R!Root(j)) = {}
  <2> DEFINE y == R!Root(j)
             v == R!Value(g, y)
             d == R!Plus(y, x)
  <2>1. y \in R!Symbols
    BY RootsAre
  <2>2. R!Value(t, y) = R!Times(v, d)
    <3> HIDE DEF x, y, n
    <3> QED  BY <1>1, <2>1, TimesRootValue
  <2>3. v \in R!Symbols /\ d \in R!Symbols
    <3>1. g \in Seq(R!Symbols)
      BY <1>1
    <3> HIDE DEF x, y
    <3> QED  BY <1>1, <2>1, <3>1, ValueIs, PlusIs
  <2>4. v = {} \/ d = {}
    <3>1. CASE j = k
      BY <3>1 DEF R!Plus
    <3>2. CASE j # k
      <4>1. j \in 0..(k - 1)
        BY <3>2
      <4> QED  BY <4>1 DEF Monic
    <3> QED  BY <3>1, <3>2
  <2> HIDE DEF v, d
  <2> QED  BY <2>2, <2>3, <2>4, TimesIs, NothingIs
<1> QED  BY <1>2, <1>3 DEF Monic

LEMMA GeneratorUnfolds ==
    LET seq == [j \in 1..Parity |-> j - 1]
    IN R!Generator = (CHOOSE f : f = [i \in 0..Len(seq) |->
           IF i = 0 THEN <<{0}>> ELSE R!TimesRoot(f[i - 1], R!Root(seq[i]))])[Len(seq)]
BY DEF R!Generator, R!Fold

LEMMA GeneratorIs == Monic(R!Generator, Parity)
<1> DEFINE N == Parity
           T == Seq(R!Symbols) \ {<<>>}
           seq == [i \in 1..N |-> i - 1]
           Eq(h) == h = [i \in 0..Len(seq) |->
                            IF i = 0 THEN <<{0}>> ELSE R!TimesRoot(h[i - 1], R!Root(seq[i]))]
           chosen == CHOOSE h : Eq(h)
           step == [i \in 1..N |-> [g \in T |-> R!TimesRoot(g, R!Root(i - 1))]]
<1>1. N \in Nat
  BY CodeSizes
<1>2. \A i \in 1..N : i - 1 \in 0..(N - 1) /\ i - 1 \in Nat /\ i - 1 + 1 = i
  BY <1>1
<1>3. Len(seq) = N /\ \A i \in 1..N : seq[i] = i - 1
  BY <1>1
<1>4. R!Generator = chosen[N]
  <2>1. R!Generator = chosen[Len(seq)]
    BY GeneratorUnfolds
  <2> HIDE DEF chosen, seq
  <2> QED  BY <1>3, <2>1
<1> HIDE DEF seq
<1>5. step \in [1..N -> [T -> T]]
  <2>1. ASSUME NEW i \in 1..N, NEW g \in T
        PROVE  R!TimesRoot(g, R!Root(i - 1)) \in T
    <3>1. Len(g) \in Nat /\ g \in [1..Len(g) -> R!Symbols]
      OBVIOUS
    <3>2. R!Root(i - 1) \in R!Symbols
      BY <1>2, RootsAre
    <3>3. R!TimesRoot(g, R!Root(i - 1)) \in [1..(Len(g) + 1) -> R!Symbols]
      BY <3>1, <3>2, TimesRootIs
    <3> DEFINE t == R!TimesRoot(g, R!Root(i - 1))
               m == Len(g) + 1
    <3>4. m \in Nat /\ m > 0
      BY <3>1
    <3> HIDE DEF t, m
    <3>5. t \in Seq(R!Symbols) /\ Len(t) = m
      BY <3>3, <3>4 DEF t, m
    <3> QED  BY <3>4, <3>5 DEF t
  <2> QED  BY <2>1
<1>6. PICK f \in [0..N -> T] : Loop(f, N, <<{0}>>, step)
  <2>1. <<{0}>> \in T
    BY ZeroIs
  <2> HIDE DEF step, T
  <2> QED  BY <1>1, <1>5, <2>1, Rounds
<1>7. f[0] = <<{0}>> /\ \A i \in 1..N : f[i] = R!TimesRoot(f[i - 1], R!Root(i - 1))
  <2>1. \A i \in 1..N : f[i - 1] \in T
    BY <1>1
  <2> HIDE DEF T
  <2> QED  BY <1>6, <2>1 DEF Loop
<1> HIDE DEF T
<1>8. Eq(f)
  <2>1. \A i \in 0..N : i # 0 => i \in 1..N
    BY <1>1
  <2>2. f = [i \in 0..N |-> f[i]]
    OBVIOUS
  <2>3. \A i \in 0..N : f[i] = IF i = 0 THEN <<{0}>> ELSE R!TimesRoot(f[i - 1], R!Root(seq[i]))
    BY <1>3, <1>7, <2>1
  <2> QED  BY <1>3, <2>2, <2>3
<1>9. Eq(chosen)
  <2> HIDE DEF Eq
  <2> QED  BY <1>8
<1> HIDE DEF chosen
<1>10. 0 \in 0..N /\ \A i \in 1..N : i \in 0..N /\ i # 0
  BY <1>1
<1>11. chosen[0] = <<{0}>> /\ \A i \in 1..N : chosen[i] = R!TimesRoot(chosen[i - 1], R!Root(i - 1))
  BY <1>3, <1>9, <1>10
<1> DEFINE Good == {i \in 0..N : Monic(chosen[i], i)}
<1>12. 0 \in Good
  BY <1>10, <1>11, MonicFirst
<1>13. ASSUME NEW i \in 1..N, i - 1 \in Good
       PROVE  i \in Good
  <2>1. Monic(R!TimesRoot(chosen[i - 1], R!Root(i - 1)), i - 1 + 1)
    BY <1>2, <1>13, MonicNext
  <2> QED  BY <1>2, <1>10, <1>11, <2>1
<1> HIDE DEF Good, Eq
<1>14. \A i \in 0..N : i \in Good
  BY <1>1, <1>12, <1>13, UpTo, Zenon
<1> QED  BY <1>1, <1>4, <1>14 DEF Good

LEMMA MovedIs ==
    ASSUME NEW k \in Nat, NEW g \in [1..(k + 1) -> R!Symbols], NEW n \in Nat,
           NEW i \in 1..n, i + k <= n
    PROVE  /\ Moved(g, i, k, n) \in [1..n -> R!Symbols]
           /\ \A j \in 1..n : Moved(g, i, k, n)[j]
                  = IF i <= j /\ j <= i + k THEN g[j - i + 1] ELSE {}
<1>1. ASSUME NEW j \in 1..n
      PROVE  (IF i <= j /\ j <= i + k THEN g[j - i + 1] ELSE {}) \in R!Symbols
  <2>1. i <= j /\ j <= i + k => j - i + 1 \in 1..(k + 1)
    OBVIOUS
  <2> QED  BY <2>1, NothingIs
<1> QED  BY <1>1 DEF Moved

LEMMA MovedVanishes ==
    ASSUME NEW k \in Nat, NEW g \in [1..(k + 1) -> R!Symbols], NEW n \in Nat,
           NEW i \in 1..n, i + k <= n, NEW y \in R!Symbols, R!Value(g, y) = {}
    PROVE  R!Value(Moved(g, i, k, n), y) = {}
<1> DEFINE p == Moved(g, i, k, n)
<1>1. p \in [1..n -> R!Symbols]
  BY MovedIs
<1>2. \A j \in 1..n : p[j] = IF i <= j /\ j <= i + k THEN g[j - i + 1] ELSE {}
  BY MovedIs
<1> HIDE DEF p
<1>3. p \in Seq(R!Symbols) /\ Len(p) = n
  BY <1>1
<1>4. g \in Seq(R!Symbols) /\ Len(g) = k + 1 /\ k + 1 \in Nat
  OBVIOUS
<1>5. PICK h : Horner(h, p, n, y) /\ R!Value(p, y) = h[n]
  BY <1>3, ValueIs
<1>6. PICK f : Horner(f, g, k + 1, y) /\ f[k + 1] = {}
  BY <1>4, ValueIs
<1>7. R!Times({}, y) = {} /\ R!Plus({}, {}) = {}
  BY TimesIs, PlusIs, NothingIs
<1> DEFINE S == {j \in 0..n : h[j] = IF i <= j /\ j <= i + k THEN f[j - i + 1] ELSE {}}
<1>8. 0 \in S
  <2>1. h[0] = {} /\ ~(i <= 0) /\ 0 \in 0..n
    BY <1>5 DEF Horner
  <2> QED  BY <2>1
<1>9. ASSUME NEW j \in 1..n, j - 1 \in S
      PROVE  j \in S
  <2>1. h[j] = R!Plus(R!Times(h[j - 1], y), p[j]) /\ j \in 0..n
    BY <1>5 DEF Horner
  <2>2. h[j - 1] = IF i <= j - 1 /\ j - 1 <= i + k THEN f[j - 1 - i + 1] ELSE {}
    BY <1>9
  <2>3. p[j] = IF i <= j /\ j <= i + k THEN g[j - i + 1] ELSE {}
    BY <1>2
  <2>4. f[0] = {} /\ \A l \in 1..(k + 1) : f[l] = R!Plus(R!Times(f[l - 1], y), g[l])
    BY <1>6 DEF Horner
  <2>5. CASE j < i
    <3>1. h[j - 1] = {} /\ p[j] = {} /\ ~(i <= j)
      BY <2>2, <2>3, <2>5
    <3> QED  BY <1>7, <2>1, <3>1
  <2>6. CASE i <= j /\ j <= i + k
    <3>1. j - i + 1 \in 1..(k + 1) /\ j - 1 - i + 1 = j - i + 1 - 1
      BY <2>6
    <3>2. f[j - i + 1] = R!Plus(R!Times(f[j - i + 1 - 1], y), g[j - i + 1])
      BY <2>4, <3>1
    <3>3. p[j] = g[j - i + 1]
      BY <2>3, <2>6
    <3>4. h[j - 1] = f[j - i + 1 - 1]
      <4>1. CASE i = j
        <5>1. j - i + 1 - 1 = 0 /\ ~(i <= j - 1)
          BY <4>1
        <5> QED  BY <2>2, <2>4, <5>1
      <4>2. CASE i # j
        <5>1. i <= j - 1 /\ j - 1 <= i + k
          BY <2>6, <4>2
        <5> QED  BY <2>2, <3>1, <5>1
      <4> QED  BY <4>1, <4>2
    <3> QED  BY <2>1, <2>6, <3>2, <3>3, <3>4
  <2>7. CASE j > i + k
    <3>1. p[j] = {} /\ ~(j <= i + k)
      BY <2>3, <2>7
    <3>2. h[j - 1] = {}
      <4>1. CASE j - 1 = i + k
        <5>1. i <= j - 1 /\ j - 1 <= i + k /\ j - 1 - i + 1 = k + 1
          BY <4>1
        <5> QED  BY <1>6, <2>2, <5>1
      <4>2. CASE j - 1 # i + k
        <5>1. ~(j - 1 <= i + k)
          BY <2>7, <4>2
        <5> QED  BY <2>2, <5>1
      <4> QED  BY <4>1, <4>2
    <3> QED  BY <1>7, <2>1, <3>1, <3>2
  <2> QED  BY <2>5, <2>6, <2>7
<1> HIDE DEF S
<1>10. \A j \in 0..n : j \in S
  BY <1>8, <1>9, UpTo, Zenon
<1>11. h[n] = {}
  <2>1. n \in S /\ i <= n
    BY <1>10
  <2>2. h[n] = IF i <= n /\ n <= i + k THEN f[n - i + 1] ELSE {}
    BY <2>1 DEF S
  <2>3. n <= i + k => n - i + 1 = k + 1
    OBVIOUS
  <2> QED  BY <1>6, <2>2, <2>3
<1> QED  BY <1>5, <1>11 DEF p
-----------------------------------------------------------------------------
(* Encoding a lane *)

LEMMA AfterIs ==
    ASSUME NEW p \in LaneWords, NEW i \in Int
    PROVE  /\ After(p, i) \in LaneWords
           /\ \A k \in 1..R!CodewordSymbols : After(p, i)[k] = IF k <= i THEN {} ELSE p[k]
           /\ After(p, 0) = p
<1>1. After(p, i) \in LaneWords
  BY NothingIs DEF After, LaneWords
<1>2. p = [k \in 1..R!CodewordSymbols |-> p[k]]
  BY DEF LaneWords
<1>3. \A k \in 1..R!CodewordSymbols : ~(k <= 0)
  BY CodeSizes
<1>4. After(p, 0) = p
  BY <1>2, <1>3 DEF After
<1> QED  BY <1>1, <1>4 DEF After

LEMMA DivisionStep ==
    ASSUME NEW p \in LaneWords, NEW i \in 1..R!DataSymbols
    PROVE  /\ Division(p, i) \in LaneWords
           /\ \A k \in 1..R!CodewordSymbols :
                 Division(p, i)[k] = IF i < k /\ k <= i + Parity
                                     THEN R!Plus(p[k], R!Times(p[i], R!Generator[k - i + 1]))
                                     ELSE p[k]
<1> DEFINE n == R!CodewordSymbols
           G == R!Generator
           value(k) == IF i < k /\ k <= i + Parity THEN R!Plus(p[k], R!Times(p[i], G[k - i + 1]))
                                                    ELSE p[k]
           d == [k \in 1..n |-> value(k)]
<1>1. n \in Nat /\ Parity \in Nat /\ n = R!DataSymbols + Parity /\ R!DataSymbols \in Nat
  BY CodeSizes
<1>2. G \in [1..(Parity + 1) -> R!Symbols]
  BY GeneratorIs DEF Monic
<1>3. DOMAIN p = 1..n /\ i \in 1..n
  BY <1>1, LaneWordIs
<1> HIDE DEF G, n
<1>4. G \in Seq(R!Symbols) /\ Len(G) = Parity + 1
  BY <1>1, <1>2
<1>5. R!Written(G) = G
  BY <1>4, ConcatEmptySeq DEF R!Written
<1>6. \A k \in 1..n : value(k) \in R!Symbols
  <2> TAKE k \in 1..n
  <2>1. p[k] \in R!Symbols /\ p[i] \in R!Symbols
    BY <1>3 DEF LaneWords, n
  <2>2. ASSUME i < k, k <= i + Parity
        PROVE  R!Plus(p[k], R!Times(p[i], G[k - i + 1])) \in R!Symbols
    <3>1. k - i + 1 \in 1..(Parity + 1)
      BY <1>1, <1>3, <2>2
    <3>2. G[k - i + 1] \in R!Symbols
      BY <1>2, <3>1
    <3>3. R!Times(p[i], G[k - i + 1]) \in R!Symbols
      BY <2>1, <3>2, TimesIs
    <3> QED  BY <2>1, <3>3, PlusIs
  <2> QED  BY <2>1, <2>2
<1>7. R!Divide(p, G, i) = d
  <2>1. R!Divide(p, G, i) =
            [k \in 1..n |-> IF i < k /\ k < i + Len(G) THEN R!Plus(p[k], R!Times(p[i], G[k - i + 1]))
                                                        ELSE p[k]]
    BY <1>3 DEF R!Divide
  <2>2. \A k \in 1..n : k < i + Len(G) <=> k <= i + Parity
    BY <1>1, <1>3, <1>4
  <2> QED  BY <2>1, <2>2
<1> HIDE DEF value
<1>8. d \in LaneWords
  BY <1>6 DEF LaneWords, n
<1>9. \A k \in 1..n : d[k] = value(k)
  OBVIOUS
<1> HIDE DEF d
<1>10. R!Written(d) = d
  BY <1>8, LaneWordIs, ConcatEmptySeq DEF R!Written
<1>11. Division(p, i) = d
  BY <1>5, <1>7, <1>10 DEF Division, G
<1> QED  BY <1>8, <1>9, <1>11 DEF value, n, G

\* A step of the division does not change the value at a root.
LEMMA DivisionKeeps ==
    ASSUME NEW p \in LaneWords, NEW i \in 1..R!DataSymbols, NEW j \in 0..(Parity - 1)
    PROVE  R!Value(After(Division(p, i), i), R!Root(j)) = R!Value(After(p, i - 1), R!Root(j))
<1> DEFINE n == R!CodewordSymbols
           G == R!Generator
           d == Division(p, i)
           q == After(p, i - 1)
           r == After(d, i)
           m == Moved(G, i, Parity, n)
           a == p[i]
           y == R!Root(j)
<1>1. /\ n \in Nat /\ Parity \in Nat /\ i \in 1..n /\ i + Parity <= n /\ j \in Nat
      /\ i \in Int /\ i - 1 \in Int
  BY CodeSizes
<1>2. G \in [1..(Parity + 1) -> R!Symbols] /\ G[1] = {0} /\ R!Value(G, y) = {}
  BY GeneratorIs DEF Monic
<1>3. y \in R!Symbols
  BY <1>1, RootsAre
<1>4. d \in LaneWords
  BY DivisionStep
<1>5. q \in LaneWords /\ r \in LaneWords
  BY <1>1, <1>4, AfterIs
<1>6. \A k \in 1..n : d[k] = IF i < k /\ k <= i + Parity THEN R!Plus(p[k], R!Times(a, G[k - i + 1]))
                                                           ELSE p[k]
  BY DivisionStep
<1>7. \A k \in 1..n : q[k] = (IF k <= i - 1 THEN {} ELSE p[k]) /\ r[k] = IF k <= i THEN {} ELSE d[k]
  BY <1>1, <1>4, AfterIs
<1>8. a \in R!Symbols /\ \A k \in 1..n : p[k] \in R!Symbols
  BY <1>1 DEF LaneWords
<1> HIDE DEF n, G, d, q, r, y
<1>9. m \in [1..n -> R!Symbols] /\ R!Value(m, y) = {}
  BY <1>1, <1>2, <1>3, MovedIs, MovedVanishes
<1>10. \A k \in 1..n : m[k] = IF i <= k /\ k <= i + Parity THEN G[k - i + 1] ELSE {}
  BY <1>1, <1>2, MovedIs
<1> HIDE DEF m, a
<1>11. R!Times(a, {}) = {} /\ R!Times(a, {0}) = a /\ R!Plus(a, a) = {} /\ R!Plus({}, {}) = {}
  BY <1>8, TimesIs, NothingIs DEF R!Plus
<1>12. ASSUME NEW k \in 1..n
       PROVE  r[k] = R!Plus(q[k], R!Times(a, m[k]))
  <2>1. CASE k < i
    <3>1. k <= i - 1 /\ k <= i /\ ~(i <= k)
      BY <1>1, <2>1
    <3>2. q[k] = {} /\ r[k] = {} /\ m[k] = {}
      BY <1>7, <1>10, <3>1
    <3> QED  BY <1>11, <3>2
  <2>2. CASE k = i
    <3>1. ~(k <= i - 1) /\ k <= i /\ i <= k /\ k <= i + Parity /\ k - i + 1 = 1
      BY <1>1, <2>2
    <3>2. r[k] = {} /\ m[k] = {0} /\ q[k] = a
      BY <1>2, <1>7, <1>10, <2>2, <3>1 DEF a
    <3> QED  BY <1>11, <3>2
  <2>3. CASE i < k /\ k <= i + Parity
    <3>1. ~(k <= i - 1) /\ ~(k <= i) /\ i <= k
      BY <1>1, <2>3
    <3>2. r[k] = d[k] /\ q[k] = p[k] /\ m[k] = G[k - i + 1]
      BY <1>7, <1>10, <2>3, <3>1
    <3>3. d[k] = R!Plus(p[k], R!Times(a, G[k - i + 1]))
      BY <1>6, <2>3
    <3> QED  BY <3>2, <3>3
  <2>4. CASE k > i + Parity
    <3>1. ~(k <= i - 1) /\ ~(k <= i) /\ ~(k <= i + Parity)
      BY <1>1, <2>4
    <3>2. r[k] = p[k] /\ q[k] = p[k] /\ m[k] = {}
      BY <1>6, <1>7, <1>10, <3>1
    <3>3. R!Plus(p[k], {}) = p[k]
      BY <1>8, PlusIs, NothingIs
    <3> QED  BY <1>11, <3>2, <3>3
  <2>5. k < i \/ k = i \/ (i < k /\ k <= i + Parity) \/ k > i + Parity
    BY <1>1
  <2> QED  BY <2>1, <2>2, <2>3, <2>4, <2>5
<1>13. q \in [1..n -> R!Symbols] /\ r \in [1..n -> R!Symbols]
  BY <1>5 DEF LaneWords, n
<1>14. R!Value(r, y) = R!Plus(R!Value(q, y), R!Times(a, R!Value(m, y)))
  <2>1. Summed(r, q, a, m, n)
    BY <1>12 DEF Summed
  <2>2. n \in Nat /\ a \in R!Symbols /\ m \in [1..n -> R!Symbols]
    BY <1>1, <1>8, <1>9
  <2> QED  BY <1>3, <1>13, <2>1, <2>2, ValueAdds
<1>15. R!Value(q, y) \in R!Symbols
  <2>1. q \in Seq(R!Symbols)
    BY <1>5, LaneWordIs
  <2> QED  BY <1>3, <2>1, ValueIs
<1>16. R!Value(r, y) = R!Value(q, y)
  <2> DEFINE v == R!Value(q, y)
  <2>1. R!Value(r, y) = R!Plus(v, {})
    BY <1>9, <1>11, <1>14
  <2> HIDE DEF v
  <2>2. R!Plus(v, {}) = v
    BY <1>15, PlusIs, NothingIs DEF v
  <2> QED  BY <2>1, <2>2 DEF v
<1> QED  BY <1>16 DEF r, q, d, y

LEMMA EncodeLaneUnfolds ==
    ASSUME NEW data
    PROVE  R!EncodeLane(data)
               = data \o SubSeq(Remaining(data), R!DataSymbols + 1, R!CodewordSymbols)
BY DEF R!EncodeLane, Remaining, Padded

LEMMA RemainingUnfolds ==
    ASSUME NEW data
    PROVE  LET seq == [i \in 1..R!DataSymbols |-> i]
           IN Remaining(data) = (CHOOSE f : f = [i \in 0..Len(seq) |->
                  IF i = 0 THEN Padded(data) ELSE Division(f[i - 1], seq[i])])[Len(seq)]
BY DEF Remaining, R!Fold, Division

LEMMA PaddedIs ==
    ASSUME NEW data \in LaneData
    PROVE  /\ Padded(data) \in LaneWords
           /\ \A k \in 1..R!CodewordSymbols :
                 Padded(data)[k] = IF k <= R!DataSymbols THEN data[k] ELSE {}
<1> DEFINE K == R!DataSymbols
           n == R!CodewordSymbols
           zeros == [i \in 1..Parity |-> {}]
<1>1. K \in Nat /\ n \in Nat /\ Parity \in Nat /\ n = K + Parity
  BY CodeSizes
<1>2. data \in [1..K -> R!Symbols]
  BY DEF LaneData
<1>3. zeros \in Seq(R!Symbols) /\ Len(zeros) = Parity /\ \A i \in 1..Parity : zeros[i] = {}
  BY <1>1, NothingIs
<1> HIDE DEF K, n, zeros
<1>4. data \in Seq(R!Symbols) /\ Len(data) = K /\ \A i \in 1..K : data[i] \in R!Symbols
  BY <1>1, <1>2
<1>5. /\ data \o zeros \in Seq(R!Symbols) /\ Len(data \o zeros) = n
      /\ \A k \in 1..n : (data \o zeros)[k] = IF k <= K THEN data[k] ELSE zeros[k - K]
  BY <1>1, <1>3, <1>4
<1>6. \A k \in 1..n : ~(k <= K) => k - K \in 1..Parity
  BY <1>1
<1>7. \A k \in 1..n : (data \o zeros)[k] = IF k <= K THEN data[k] ELSE {}
  BY <1>3, <1>5, <1>6
<1>8. data \o zeros \in [1..n -> R!Symbols]
  <2> DEFINE u == data \o zeros
  <2>1. u \in Seq(R!Symbols) /\ Len(u) = n
    BY <1>5
  <2> HIDE DEF u
  <2>2. u \in [1..n -> R!Symbols]
    BY <2>1
  <2> QED  BY <2>2 DEF u
<1>9. Padded(data) = data \o zeros
  BY DEF Padded, zeros
<1> QED  BY <1>7, <1>8, <1>9 DEF LaneWords, K, n

LEMMA RemainingIs ==
    ASSUME NEW data \in LaneData
    PROVE  /\ Remaining(data) \in LaneWords
           /\ \A j \in 0..(Parity - 1) :
                 R!Value(After(Remaining(data), R!DataSymbols), R!Root(j))
                     = R!Value(Padded(data), R!Root(j))
<1> DEFINE N == R!DataSymbols
           T == LaneWords
           base == Padded(data)
           seq == [i \in 1..N |-> i]
           Eq(h) == h = [i \in 0..Len(seq) |-> IF i = 0 THEN base ELSE Division(h[i - 1], seq[i])]
           chosen == CHOOSE h : Eq(h)
           step == [i \in 1..N |-> [p \in T |-> Division(p, i)]]
<1>1. N \in Nat
  BY CodeSizes
<1>2. Len(seq) = N /\ \A i \in 1..N : seq[i] = i
  BY <1>1
<1>3. Remaining(data) = chosen[N]
  <2>1. Remaining(data) = chosen[Len(seq)]
    BY RemainingUnfolds
  <2> HIDE DEF chosen, seq
  <2> QED  BY <1>2, <2>1
<1> HIDE DEF seq
<1>4. step \in [1..N -> [T -> T]]
  BY DivisionStep
<1>5. base \in T
  BY PaddedIs
<1> HIDE DEF base
<1>6. PICK f \in [0..N -> T] : Loop(f, N, base, step)
  <2> HIDE DEF step, T
  <2> QED  BY <1>1, <1>4, <1>5, Rounds
<1>7. f[0] = base /\ \A i \in 1..N : f[i] = Division(f[i - 1], i)
  <2>1. \A i \in 1..N : f[i - 1] \in T
    BY <1>1
  <2> HIDE DEF T
  <2> QED  BY <1>6, <2>1 DEF Loop
<1> HIDE DEF T
<1>8. Eq(f)
  <2>1. \A i \in 0..N : i # 0 => i \in 1..N
    BY <1>1
  <2>2. f = [i \in 0..N |-> f[i]]
    OBVIOUS
  <2>3. \A i \in 0..N : f[i] = IF i = 0 THEN base ELSE Division(f[i - 1], seq[i])
    BY <1>2, <1>7, <2>1
  <2> QED  BY <1>2, <2>2, <2>3
<1>9. Eq(chosen)
  <2> HIDE DEF Eq
  <2> QED  BY <1>8
<1> HIDE DEF chosen
<1>10. 0 \in 0..N /\ \A i \in 1..N : i \in 0..N /\ i # 0
  BY <1>1
<1>11. chosen[0] = base /\ \A i \in 1..N : chosen[i] = Division(chosen[i - 1], i)
  BY <1>2, <1>9, <1>10
<1> DEFINE Same(p, i) == /\ p \in T
                         /\ \A j \in 0..(Parity - 1) :
                               R!Value(After(p, i), R!Root(j)) = R!Value(base, R!Root(j))
           Good == {i \in 0..N : Same(chosen[i], i)}
<1>12. 0 \in Good
  <2>1. After(base, 0) = base
    BY <1>5, AfterIs DEF T
  <2> QED  BY <1>5, <1>10, <1>11, <2>1
<1>13. ASSUME NEW i \in 1..N, i - 1 \in Good
       PROVE  i \in Good
  <2> DEFINE p == chosen[i - 1]
  <2>1. p \in LaneWords /\ \A j \in 0..(Parity - 1) :
                               R!Value(After(p, i - 1), R!Root(j)) = R!Value(base, R!Root(j))
    BY <1>13 DEF T
  <2>2. chosen[i] = Division(p, i)
    BY <1>11
  <2> HIDE DEF p
  <2>3. Division(p, i) \in LaneWords
    BY <2>1, DivisionStep
  <2>4. \A j \in 0..(Parity - 1) :
            R!Value(After(Division(p, i), i), R!Root(j)) = R!Value(base, R!Root(j))
    BY <2>1, DivisionKeeps
  <2>5. Same(chosen[i], i)
    BY <2>2, <2>3, <2>4 DEF T
  <2> HIDE DEF Same
  <2> QED  BY <1>10, <2>5
<1> HIDE DEF Good, Eq
<1>14. \A i \in 0..N : i \in Good
  BY <1>1, <1>12, <1>13, UpTo, Zenon
<1>15. Same(chosen[N], N)
  BY <1>1, <1>14 DEF Good
<1> QED  BY <1>3, <1>15 DEF T, base

\* What the encoder makes of the data of a lane is a codeword, and begins with them.
LEMMA EncodeLaneIs ==
    ASSUME NEW data \in LaneData
    PROVE  /\ R!EncodeLane(data) \in LaneWords
           /\ R!IsCodeword(R!EncodeLane(data))
           /\ \A k \in 1..R!DataSymbols : R!EncodeLane(data)[k] = data[k]
<1> DEFINE K == R!DataSymbols
           n == R!CodewordSymbols
           d == Remaining(data)
           rest == SubSeq(d, K + 1, n)
           w == R!EncodeLane(data)
           p == Padded(data)
           q == After(d, K)
<1>1. K \in Nat /\ n \in Nat /\ Parity \in Nat /\ n = K + Parity /\ K \in Int
  BY CodeSizes
<1>2. data \in [1..K -> R!Symbols]
  BY DEF LaneData
<1>3. d \in LaneWords /\ \A j \in 0..(Parity - 1) : R!Value(q, R!Root(j)) = R!Value(p, R!Root(j))
  BY RemainingIs
<1>4. q \in LaneWords /\ \A k \in 1..n : q[k] = IF k <= K THEN {} ELSE d[k]
  BY <1>1, <1>3, AfterIs
<1>5. p \in LaneWords /\ \A k \in 1..n : p[k] = IF k <= K THEN data[k] ELSE {}
  BY PaddedIs
<1>6. d \in Seq(R!Symbols) /\ Len(d) = n
  BY <1>3, LaneWordIs
<1>7. w = data \o rest
  BY EncodeLaneUnfolds
<1> HIDE DEF K, n, d, w, p, q
<1>8. /\ rest \in Seq(R!Symbols) /\ Len(rest) = Parity
      /\ \A k \in 1..Parity : rest[k] = d[K + k]
  <2>1. \A k \in (K + 1)..n : d[k] \in R!Symbols
    BY <1>1, <1>6
  <2>2. K + 1 \in Int /\ n \in Int /\ K + 1 <= n /\ n - (K + 1) + 1 = Parity
    BY <1>1, CodeSizes
  <2>3. /\ rest \in Seq(R!Symbols) /\ Len(rest) = Parity
        /\ \A k \in 1..Parity : rest[k] = d[K + 1 + k - 1]
    BY <2>1, <2>2, SubSeqProperties
  <2>4. \A k \in 1..Parity : K + 1 + k - 1 = K + k
    BY <1>1
  <2> QED  BY <2>3, <2>4
<1> HIDE DEF rest
<1>9. data \in Seq(R!Symbols) /\ Len(data) = K
  BY <1>1, <1>2
<1>10. /\ w \in Seq(R!Symbols) /\ Len(w) = n
       /\ \A k \in 1..n : w[k] = IF k <= K THEN data[k] ELSE rest[k - K]
  <2>1. /\ data \o rest \in Seq(R!Symbols) /\ Len(data \o rest) = n
        /\ \A k \in 1..n : (data \o rest)[k] = IF k <= K THEN data[k] ELSE rest[k - K]
    BY <1>1, <1>8, <1>9
  <2> QED  BY <1>7, <2>1
<1>11. \A k \in 1..n : w[k] = IF k <= K THEN data[k] ELSE d[k]
  <2>1. \A k \in 1..n : ~(k <= K) => k - K \in 1..Parity /\ K + (k - K) = k
    BY <1>1
  <2> QED  BY <1>8, <1>10, <2>1
<1>12. w \in [1..n -> R!Symbols]
  BY <1>1, <1>10
<1>13. ASSUME NEW j \in 0..(Parity - 1)
       PROVE  R!Value(w, R!Root(j)) = {}
  <2> DEFINE y == R!Root(j)
             v == R!Value(p, y)
  <2>1. y \in R!Symbols
    BY <1>1, RootsAre
  <2> HIDE DEF y
  <2>2. \A k \in 1..n : w[k] = R!Plus(p[k], R!Times({0}, q[k]))
    <3> TAKE k \in 1..n
    <3>1. p[k] \in R!Symbols /\ q[k] \in R!Symbols
      BY <1>4, <1>5 DEF LaneWords, n
    <3>2. R!Times({0}, q[k]) = q[k]
      BY <3>1, TimesIs
    <3>3. CASE k <= K
      <4>1. w[k] = p[k] /\ q[k] = {}
        BY <1>4, <1>5, <1>11, <3>3
      <4> QED  BY <3>1, <3>2, <4>1, PlusIs
    <3>4. CASE ~(k <= K)
      <4>1. w[k] = q[k] /\ p[k] = {}
        BY <1>4, <1>5, <1>11, <3>4
      <4> QED  BY <3>1, <3>2, <4>1, PlusIs
    <3> QED  BY <3>3, <3>4
  <2>3. p \in [1..n -> R!Symbols] /\ q \in [1..n -> R!Symbols]
    BY <1>4, <1>5 DEF LaneWords, n
  <2>4. R!Value(w, y) = R!Plus(R!Value(p, y), R!Times({0}, R!Value(q, y)))
    <3>1. n \in Nat /\ Summed(w, p, {0}, q, n)
      BY <1>1, <2>2 DEF Summed
    <3> HIDE DEF v
    <3> QED  BY <1>12, <2>1, <2>3, <3>1, ZeroIs, ValueAdds
  <2>5. R!Value(q, y) = v
    BY <1>3 DEF y
  <2>6. v \in R!Symbols
    <3>1. p \in Seq(R!Symbols)
      BY <1>5, LaneWordIs
    <3> QED  BY <2>1, <3>1, ValueIs
  <2>7. R!Value(w, y) = R!Plus(v, R!Times({0}, v))
    BY <2>4, <2>5
  <2> HIDE DEF v
  <2>8. R!Value(w, y) = {}
    BY <2>6, <2>7, TimesIs, PlusIs
  <2> QED  BY <2>8 DEF y
<1>14. R!IsCodeword(w)
  BY <1>13 DEF R!IsCodeword
<1>15. \A k \in 1..K : w[k] = data[k]
  <2>1. \A k \in 1..K : k \in 1..n /\ k <= K
    BY <1>1
  <2> QED  BY <1>11, <2>1
<1> QED  BY <1>12, <1>14, <1>15 DEF LaneWords, n, K, w
-----------------------------------------------------------------------------
(* The lanes of a block *)

LEMMA QuotientIs ==
    ASSUME NEW N \in Nat, N > 0, NEW q \in Int, NEW r \in 0..(N - 1)
    PROVE  (N * q + r) \div N = q
OBVIOUS

\* The i-th symbol of lane l in what is interleaved, and back.
LEMMA PlacesInLanes ==
    ASSUME NEW N \in Nat, N > 0, NEW k \in Nat
    PROVE  /\ \A l \in 1..N, i \in 1..k :
                 /\ (i - 1) * N + l \in 1..(N * k)
                 /\ ((((i - 1) * N + l) - 1) % N) + 1 = l
                 /\ ((((i - 1) * N + l) - 1) \div N) + 1 = i
           /\ \A p \in 1..(N * k) :
                 /\ ((p - 1) % N) + 1 \in 1..N
                 /\ ((p - 1) \div N) + 1 \in 1..k
                 /\ (((p - 1) \div N) + 1 - 1) * N + (((p - 1) % N) + 1) = p
<1>1. ASSUME NEW l \in 1..N, NEW i \in 1..k
      PROVE  /\ (i - 1) * N + l \in 1..(N * k)
             /\ ((((i - 1) * N + l) - 1) % N) + 1 = l
             /\ ((((i - 1) * N + l) - 1) \div N) + 1 = i
  <2> DEFINE a == i - 1
             c == k - i
             p == a * N + l
  <2>1. a \in Nat /\ c \in Nat /\ k = a + c + 1 /\ i = a + 1 /\ l - 1 \in 0..(N - 1) /\ a \in Int
    OBVIOUS
  <2> HIDE DEF a, c
  <2>2. N * k = N * a + N * c + N /\ a * N = N * a /\ N * a \in Nat /\ N * c \in Nat
    BY <2>1
  <2>3. p \in 1..(N * k) /\ p - 1 = N * a + (l - 1)
    BY <2>2
  <2>4. (N * a + (l - 1)) % N = l - 1 /\ (N * a + (l - 1)) \div N = a
    BY <2>1, RemainderIs, QuotientIs
  <2> HIDE DEF p
  <2>5. (p - 1) % N = l - 1 /\ (p - 1) \div N = a
    BY <2>3, <2>4
  <2>6. p \in 1..(N * k) /\ ((p - 1) % N) + 1 = l /\ ((p - 1) \div N) + 1 = i
    BY <2>1, <2>3, <2>5
  <2> QED  BY <2>6 DEF p, a
<1>2. ASSUME NEW p \in 1..(N * k)
      PROVE  /\ ((p - 1) % N) + 1 \in 1..N
             /\ ((p - 1) \div N) + 1 \in 1..k
             /\ (((p - 1) \div N) + 1 - 1) * N + (((p - 1) % N) + 1) = p
  <2> DEFINE n == p - 1
             r == n % N
  <2>1. n \in Nat /\ n + 1 = p /\ N * k \in Nat /\ n < N * k
    OBVIOUS
  <2> HIDE DEF n
  <2>2. r \in 0..(N - 1) /\ \E q \in Nat : n = N * q + r
    BY <2>1, Divided, Zenon
  <2>3. PICK q \in Nat : n = N * q + r
    BY <2>2
  <2> HIDE DEF r
  <2>4. n \div N = q
    <3>1. (N * q + r) \div N = q
      BY <2>2, QuotientIs
    <3> QED  BY <2>3, <3>1
  <2>5. q < k
    <3>1. SUFFICES ASSUME k <= q
                   PROVE  FALSE
      OBVIOUS
    <3> DEFINE c == q - k
    <3>2. c \in Nat /\ q = k + c
      BY <3>1
    <3> HIDE DEF c
    <3>3. N * q = N * k + N * c /\ N * c \in Nat
      BY <3>2
    <3> QED  BY <2>1, <2>2, <2>3, <3>3
  <2>6. q + 1 \in 1..k /\ r + 1 \in 1..N
    BY <2>2, <2>5
  <2>7. (q + 1 - 1) * N + (r + 1) = p
    <3>1. q + 1 - 1 = q /\ q * N = N * q /\ N * q \in Nat /\ r \in Nat
      BY <2>2
    <3> QED  BY <2>1, <2>3, <3>1
  <2> QED  BY <2>4, <2>6, <2>7 DEF n, r
<1> QED  BY <1>1, <1>2

LEMMA LanesAre == Lanes \in Nat /\ Lanes > 0
BY ReceiversAssumption DEF R!CodeAssumption

LEMMA LaneIs ==
    ASSUME NEW k \in Nat, NEW bytes \in Blocks(k), NEW l \in 1..Lanes
    PROVE  /\ R!Lane(bytes, l) \in [1..k -> R!Symbols]
           /\ \A i \in 1..k : R!Lane(bytes, l)[i] = bytes[(i - 1) * Lanes + l]
<1> DEFINE N == Lanes
           f == [i \in 1..k |-> bytes[(i - 1) * N + l]]
<1>1. N \in Nat /\ N > 0 /\ l \in 1..N
  BY LanesAre
<1>2. bytes \in [1..(N * k) -> R!Symbols]
  BY DEF Blocks
<1>3. R!Lane(bytes, l) = R!Written([i \in 1..(Len(bytes) \div N) |-> bytes[(i - 1) * N + l]])
  BY DEF R!Lane
<1> HIDE DEF N
<1>4. N * k \in Nat
  BY <1>1
<1>5. Len(bytes) = N * k
  <2> DEFINE m == N * k
  <2>1. bytes \in [1..m -> R!Symbols] /\ m \in Nat
    BY <1>2, <1>4
  <2> HIDE DEF m
  <2>2. Len(bytes) = m
    BY <2>1
  <2> QED  BY <2>2 DEF m
<1>6. Len(bytes) \div N = k
  <2>1. (N * k + 0) \div N = k
    <3>1. 0 \in 0..(N - 1) /\ k \in Int
      BY <1>1
    <3> QED  BY <1>1, <3>1, QuotientIs
  <2>2. N * k + 0 = N * k
    BY <1>4
  <2> QED  BY <1>5, <2>1, <2>2
<1>7. f \in [1..k -> R!Symbols]
  <2>1. \A i \in 1..k : (i - 1) * N + l \in 1..(N * k)
    BY <1>1, PlacesInLanes
  <2> QED  BY <1>2, <2>1
<1>8. R!Lane(bytes, l) = R!Written(f)
  BY <1>3, <1>6
<1>9. \A i \in 1..k : f[i] = bytes[(i - 1) * N + l]
  OBVIOUS
<1> HIDE DEF f
<1>10. f \in Seq(R!Symbols)
  BY <1>7
<1>11. R!Written(f) = f
  BY <1>10, ConcatEmptySeq DEF R!Written
<1> QED  BY <1>7, <1>8, <1>9, <1>11 DEF N

LEMMA InterleavedIs ==
    ASSUME NEW k \in Nat, NEW lanes \in LaneSets(k)
    PROVE  /\ R!Interleaved(lanes) \in Blocks(k)
           /\ \A p \in 1..(Lanes * k) :
                 R!Interleaved(lanes)[p] = lanes[((p - 1) % Lanes) + 1][((p - 1) \div Lanes) + 1]
<1> DEFINE N == Lanes
           at(p) == lanes[((p - 1) % N) + 1][((p - 1) \div N) + 1]
           m == N * k
           f == [p \in 1..m |-> at(p)]
<1>1. N \in Nat /\ N > 0
  BY LanesAre
<1>2. lanes \in [1..N -> [1..k -> R!Symbols]]
  BY DEF LaneSets
<1>3. R!Interleaved(lanes) = R!Written([p \in 1..(N * Len(lanes[1])) |-> at(p)])
  BY DEF R!Interleaved
<1> HIDE DEF N
<1>4. Len(lanes[1]) = k
  <2>1. 1 \in 1..N
    BY <1>1
  <2>2. lanes[1] \in [1..k -> R!Symbols]
    BY <1>2, <2>1
  <2> QED  BY <2>2
<1>5. m \in Nat
  BY <1>1
<1>6. \A p \in 1..m : at(p) \in R!Symbols
  <2>1. \A p \in 1..m : ((p - 1) % N) + 1 \in 1..N /\ ((p - 1) \div N) + 1 \in 1..k
    BY <1>1, PlacesInLanes
  <2> QED  BY <1>2, <2>1
<1>7. R!Interleaved(lanes) = R!Written(f)
  BY <1>3, <1>4
<1> HIDE DEF at
<1>8. f \in [1..m -> R!Symbols] /\ \A p \in 1..m : f[p] = at(p)
  BY <1>6
<1> HIDE DEF f, m
<1>9. f \in Seq(R!Symbols)
  BY <1>5, <1>8
<1>10. R!Written(f) = f
  BY <1>9, ConcatEmptySeq DEF R!Written
<1> QED  BY <1>7, <1>8, <1>10 DEF N, m, at, Blocks

\* Interleaving and taking the lanes again are inverse to each other.
LEMMA LaneOfInterleaved ==
    ASSUME NEW k \in Nat, NEW lanes \in LaneSets(k), NEW l \in 1..Lanes
    PROVE  R!Lane(R!Interleaved(lanes), l) = lanes[l]
<1> DEFINE N == Lanes
           b == R!Interleaved(lanes)
           u == R!Lane(b, l)
<1>1. N \in Nat /\ N > 0 /\ l \in 1..N
  BY LanesAre
<1>2. b \in Blocks(k) /\ \A p \in 1..(N * k) : b[p] = lanes[((p - 1) % N) + 1][((p - 1) \div N) + 1]
  BY InterleavedIs
<1> HIDE DEF b
<1>3. u \in [1..k -> R!Symbols] /\ \A i \in 1..k : u[i] = b[(i - 1) * N + l]
  BY <1>2, LaneIs
<1>4. lanes[l] \in [1..k -> R!Symbols]
  BY DEF LaneSets
<1> HIDE DEF N, u
<1>5. \A i \in 1..k : u[i] = lanes[l][i]
  <2> TAKE i \in 1..k
  <2> DEFINE p == (i - 1) * N + l
  <2>1. p \in 1..(N * k) /\ ((p - 1) % N) + 1 = l /\ ((p - 1) \div N) + 1 = i
    BY <1>1, PlacesInLanes
  <2>2. u[i] = b[p]
    BY <1>3
  <2> HIDE DEF p
  <2>3. b[p] = lanes[((p - 1) % N) + 1][((p - 1) \div N) + 1]
    BY <1>2, <2>1
  <2> QED  BY <2>1, <2>2, <2>3
<1>6. u = [i \in 1..k |-> u[i]] /\ lanes[l] = [i \in 1..k |-> lanes[l][i]]
  BY <1>3, <1>4
<1>7. u = lanes[l]
  BY <1>5, <1>6
<1> QED  BY <1>7 DEF u, b

LEMMA InterleavedLanes ==
    ASSUME NEW k \in Nat, NEW bytes \in Blocks(k), NEW lanes \in LaneSets(k),
           \A l \in 1..Lanes : lanes[l] = R!Lane(bytes, l)
    PROVE  R!Interleaved(lanes) = bytes
<1> DEFINE N == Lanes
           m == N * k
           b == R!Interleaved(lanes)
<1>1. N \in Nat /\ N > 0
  BY LanesAre
<1>2. b \in Blocks(k) /\ \A p \in 1..m : b[p] = lanes[((p - 1) % N) + 1][((p - 1) \div N) + 1]
  BY InterleavedIs
<1>3. \A l \in 1..N, i \in 1..k : lanes[l][i] = bytes[(i - 1) * N + l]
  BY LaneIs
<1>4. b \in [1..m -> R!Symbols] /\ bytes \in [1..m -> R!Symbols]
  BY <1>2 DEF Blocks
<1> HIDE DEF N, b
<1>5. \A p \in 1..m : b[p] = bytes[p]
  <2> TAKE p \in 1..m
  <2> DEFINE l == ((p - 1) % N) + 1
             i == ((p - 1) \div N) + 1
  <2>1. l \in 1..N /\ i \in 1..k /\ (i - 1) * N + l = p
    BY <1>1, PlacesInLanes
  <2>2. b[p] = lanes[l][i]
    BY <1>2
  <2> HIDE DEF l, i
  <2> QED  BY <1>3, <2>1, <2>2
<1> HIDE DEF m
<1>6. b = [p \in 1..m |-> b[p]] /\ bytes = [p \in 1..m |-> bytes[p]]
  BY <1>4
<1>7. b = bytes
  BY <1>5, <1>6
<1> QED  BY <1>7 DEF b
-----------------------------------------------------------------------------
(* Encoding and decoding a block *)

LEMMA EncodeIs ==
    ASSUME NEW data \in Data
    PROVE  /\ R!Encode(data) \in Received
           /\ \A l \in 1..Lanes : /\ R!Lane(data, l) \in LaneData
                                  /\ R!Lane(R!Encode(data), l) = R!EncodeLane(R!Lane(data, l))
<1> DEFINE lanes == [l \in 1..Lanes |-> R!EncodeLane(R!Lane(data, l))]
           n == R!CodewordSymbols
<1>1. n \in Nat /\ R!DataSymbols \in Nat /\ Lanes \in Nat
  BY CodeSizes, LanesAre
<1>2. ASSUME NEW l \in 1..Lanes
      PROVE  R!Lane(data, l) \in LaneData
  BY <1>1, LaneIs DEF Data, LaneData
<1>3. ASSUME NEW l \in 1..Lanes
      PROVE  R!EncodeLane(R!Lane(data, l)) \in LaneWords
  BY <1>2, EncodeLaneIs
<1>4. lanes \in [1..Lanes -> LaneWords]
  BY <1>3
<1>5. R!Encode(data) = R!Interleaved(R!Written(lanes))
  BY DEF R!Encode
<1>6. \A l \in 1..Lanes : lanes[l] = R!EncodeLane(R!Lane(data, l))
  OBVIOUS
<1> HIDE DEF lanes
<1>7. R!Written(lanes) = lanes
  <2>1. lanes \in Seq(LaneWords)
    BY <1>1, <1>4
  <2> QED  BY <2>1, ConcatEmptySeq DEF R!Written
<1>8. lanes \in LaneSets(n)
  BY <1>4 DEF LaneSets, LaneWords
<1> HIDE DEF n
<1>9. R!Interleaved(lanes) \in Blocks(n)
  BY <1>1, <1>8, InterleavedIs
<1>10. \A l \in 1..Lanes : R!Lane(R!Interleaved(lanes), l) = lanes[l]
  BY <1>1, <1>8, LaneOfInterleaved
<1> QED  BY <1>2, <1>5, <1>6, <1>7, <1>9, <1>10 DEF Received, n

LEMMA ReceivedLanes ==
    ASSUME NEW received \in Received, NEW l \in 1..Lanes
    PROVE  R!Lane(received, l) \in LaneWords
BY CodeSizes, LaneIs DEF Received, LaneWords

LEMMA WithinIs ==
    ASSUME NEW s \in Received, NEW received \in Received
    PROVE  R!Within(s, received) <=>
               \A l \in 1..Lanes :
                   Cardinality(Changed(R!Lane(received, l), R!Lane(s, l))) <= R!Radius
<1>1. ASSUME NEW l \in 1..Lanes
      PROVE  R!Errors(R!Lane(s, l), R!Lane(received, l))
                 = Changed(R!Lane(received, l), R!Lane(s, l))
  <2> DEFINE u == R!Lane(s, l)
             w == R!Lane(received, l)
  <2>1. DOMAIN u = 1..R!CodewordSymbols /\ DOMAIN w = 1..R!CodewordSymbols
    BY ReceivedLanes, LaneWordIs
  <2> HIDE DEF u, w
  <2>2. R!Errors(u, w) = Changed(w, u)
    BY <2>1 DEF R!Errors, Changed
  <2> QED  BY <2>2 DEF u, w
<1>2. R!Within(s, received) <=>
          \A l \in 1..Lanes :
              R!Cardinality(R!Errors(R!Lane(s, l), R!Lane(received, l))) <= R!Radius
  BY DEF R!Within
<1>3. \A l \in 1..Lanes :
          R!Cardinality(R!Errors(R!Lane(s, l), R!Lane(received, l)))
              = Cardinality(Changed(R!Lane(received, l), R!Lane(s, l)))
  BY <1>1, SameCardinality
<1> QED  BY <1>2, <1>3

LEMMA PrefixIs ==
    ASSUME NEW w \in LaneWords
    PROVE  Prefix(w) \in LaneData /\ \A i \in 1..R!DataSymbols : Prefix(w)[i] = w[i]
<1> DEFINE K == R!DataSymbols
           n == R!CodewordSymbols
           p == Prefix(w)
<1>1. K \in Nat /\ K > 0 /\ n \in Nat /\ K <= n /\ 1 \in Int /\ K \in Int
  BY CodeSizes
<1>2. \A i \in 1..n : w[i] \in R!Symbols
  BY DEF LaneWords
<1>3. p = SubSeq(w, 1, K)
  BY DEF Prefix
<1> HIDE DEF K, n, p
<1>4. \A i \in 1..K : w[i] \in R!Symbols
  BY <1>1, <1>2
<1>5. p \in Seq(R!Symbols) /\ Len(p) = K - 1 + 1 /\ \A i \in 1..(K - 1 + 1) : p[i] = w[1 + i - 1]
  <2>1. 1 <= K
    BY <1>1
  <2> QED  BY <1>1, <1>3, <1>4, <2>1, SubSeqProperties
<1>6. K - 1 + 1 = K /\ \A i \in 1..K : 1 + i - 1 = i
  BY <1>1
<1>7. p \in [1..K -> R!Symbols]
  BY <1>1, <1>5, <1>6
<1>8. \A i \in 1..K : p[i] = w[i]
  BY <1>5, <1>6
<1> QED  BY <1>7, <1>8 DEF LaneData, p, K

LEMMA PrefixOfCodeword ==
    ASSUME NEW data \in LaneData
    PROVE  Prefix(R!EncodeLane(data)) = data
<1> DEFINE w == R!EncodeLane(data)
           K == R!DataSymbols
           p == Prefix(w)
<1>1. w \in LaneWords /\ \A i \in 1..K : w[i] = data[i]
  BY EncodeLaneIs
<1> HIDE DEF w
<1>2. p \in LaneData /\ \A i \in 1..K : p[i] = w[i]
  BY <1>1, PrefixIs
<1> HIDE DEF p
<1>3. p = [i \in 1..K |-> p[i]] /\ data = [i \in 1..K |-> data[i]]
  BY <1>2 DEF LaneData
<1>4. p = data
  BY <1>1, <1>2, <1>3
<1> QED  BY <1>4 DEF p, w

\* A codeword is what the encoder makes of the data it begins with.
LEMMA EncodedPrefix ==
    ASSUME NEW w \in LaneWords, R!IsCodeword(w)
    PROVE  R!EncodeLane(Prefix(w)) = w
<1> DEFINE K == R!DataSymbols
           n == R!CodewordSymbols
           d == Prefix(w)
           u == R!EncodeLane(d)
           S == (K + 1)..n
<1>1. K \in Nat /\ n \in Nat /\ Parity \in Nat /\ Parity > 0 /\ n = K + Parity
  BY CodeSizes
<1>2. d \in LaneData /\ \A i \in 1..K : d[i] = w[i]
  BY PrefixIs
<1> HIDE DEF d
<1>3. u \in LaneWords /\ R!IsCodeword(u) /\ \A i \in 1..K : u[i] = d[i]
  BY <1>2, EncodeLaneIs
<1> HIDE DEF u, K, n
<1>4. Cardinality(S) = Parity
  <2>1. K + 1 \in Int /\ n \in Int /\ ~(K + 1 > n) /\ n - (K + 1) + 1 = Parity
    BY <1>1
  <2> QED  BY <2>1, FS_Interval
<1>5. S \in SUBSET (1..n) /\ \A i \in (1..n) \ S : i \in 1..K
  BY <1>1
<1>6. \A i \in (1..n) \ S : u[i] = w[i]
  BY <1>2, <1>3, <1>5
<1>7. Cardinality(S) <= Parity
  BY <1>1, <1>4
<1> HIDE DEF S
<1>8. u = w
  BY <1>3, <1>5, <1>6, <1>7, CodewordsAreApart DEF n
<1> QED  BY <1>8 DEF u, d

LEMMA DecodesTo ==
    ASSUME NEW received
    PROVE  R!Decode(received) =
               {R!Interleaved(lanes) : lanes \in
                   {f \in [1..Lanes -> UNION {Prefixes(received, l) : l \in 1..Lanes}] :
                       \A l \in 1..Lanes : f[l] \in Prefixes(received, l)}}
BY DEF R!Decode, Prefixes, Prefix

LEMMA CorrectionsOf ==
    ASSUME NEW received \in Received, NEW l \in 1..Lanes, NEW w \in R!Corrections(R!Lane(received, l))
    PROVE  /\ w \in LaneWords /\ R!IsCodeword(w)
           /\ Cardinality(Changed(R!Lane(received, l), w)) <= R!Radius
<1> DEFINE word == R!Lane(received, l)
           n == R!CodewordSymbols
<1>1. word \in LaneWords
  BY ReceivedLanes
<1>2. word \in Seq(R!Symbols) /\ Len(word) = n
  BY <1>1, LaneWordIs
<1>3. w \in R!Corrections(word)
  OBVIOUS
<1> HIDE DEF word
<1>4. /\ w \in Seq(R!Symbols) /\ Len(w) = Len(word)
      /\ R!IsCodeword(w) /\ Cardinality(Changed(word, w)) <= R!Radius
  BY <1>2, <1>3, CorrectionsAreNear
<1>5. n \in Nat
  BY CodeSizes
<1> HIDE DEF n
<1>6. w \in [1..n -> R!Symbols]
  BY <1>2, <1>4, <1>5
<1> QED  BY <1>4, <1>6 DEF LaneWords, n, word

\* `decode` returns what was encoded if each lane has at most Radius errors, for every field
\* and every code that `validate` admits.
THEOREM SentIsReturned ==
    ASSUME NEW data \in Data, NEW received \in Received, R!Within(R!Encode(data), received)
    PROVE  R!Decode(received) = {data}
<1> DEFINE lanes == [l \in 1..Lanes |-> R!Lane(data, l)]
           choices == {f \in [1..Lanes -> UNION {Prefixes(received, l) : l \in 1..Lanes}] :
                          \A l \in 1..Lanes : f[l] \in Prefixes(received, l)}
<1>1. R!Encode(data) \in Received /\ \A l \in 1..Lanes :
          R!Lane(data, l) \in LaneData /\ R!Lane(R!Encode(data), l) = R!EncodeLane(R!Lane(data, l))
  BY EncodeIs
<1>2. \A l \in 1..Lanes : Cardinality(Changed(R!Lane(received, l), R!Lane(R!Encode(data), l))) <= R!Radius
  BY <1>1, WithinIs
<1>3. ASSUME NEW l \in 1..Lanes
      PROVE  Prefixes(received, l) = {lanes[l]}
  <2> DEFINE d == R!Lane(data, l)
             c == R!EncodeLane(d)
             word == R!Lane(received, l)
  <2>1. d \in LaneData /\ Cardinality(Changed(word, c)) <= R!Radius
    BY <1>1, <1>2
  <2>2. word \in LaneWords
    BY ReceivedLanes
  <2>3. lanes[l] = d
    OBVIOUS
  <2>4. Prefixes(received, l) = {Prefix(w) : w \in R!Corrections(word)}
    BY DEF Prefixes
  <2> HIDE DEF d, word, lanes
  <2>5. c \in LaneWords /\ R!IsCodeword(c) /\ Prefix(c) = d
    BY <2>1, EncodeLaneIs, PrefixOfCodeword
  <2> HIDE DEF c
  <2>6. R!Corrections(word) = {c}
    BY <2>1, <2>2, <2>5, CodewordsAreRestored
  <2> QED  BY <2>3, <2>4, <2>5, <2>6
<1>4. \A l \in 1..Lanes : lanes[l] = R!Lane(data, l) /\ lanes[l] \in LaneData
  BY <1>1
<1>5. lanes = [l \in 1..Lanes |-> lanes[l]]
  OBVIOUS
<1> HIDE DEF lanes
<1>6. choices = {lanes}
  <2>1. lanes \in choices
    BY <1>3, <1>5
  <2>2. ASSUME NEW f \in choices
        PROVE  f = lanes
    <3>1. f = [l \in 1..Lanes |-> f[l]]
      OBVIOUS
    <3>2. \A l \in 1..Lanes : f[l] = lanes[l]
      BY <1>3
    <3> HIDE DEF choices
    <3> QED  BY <1>5, <3>1, <3>2
  <2> HIDE DEF choices
  <2> QED  BY <2>1, <2>2
<1>7. R!Decode(received) = {R!Interleaved(f) : f \in choices}
  BY DecodesTo
<1> HIDE DEF choices
<1>8. R!Interleaved(lanes) = data
  <2> DEFINE K == R!DataSymbols
  <2>1. K \in Nat /\ data \in Blocks(K)
    BY CodeSizes DEF Data
  <2>2. lanes \in LaneSets(K)
    BY <1>4, <1>5 DEF LaneSets, LaneData
  <2> HIDE DEF K
  <2> QED  BY <1>4, <2>1, <2>2, InterleavedLanes
<1> QED  BY <1>6, <1>7, <1>8

\* What `decode` returns, of any symbols received, is at most Radius errors away in each lane:
\* it never makes up a block that the symbols do not bear out.
THEOREM ReturnedIsNear ==
    ASSUME NEW received \in Received, NEW d \in R!Decode(received)
    PROVE  R!Within(R!Encode(d), received)
<1> DEFINE K == R!DataSymbols
<1>1. PICK f : /\ DOMAIN f = 1..Lanes /\ f = [l \in 1..Lanes |-> f[l]]
               /\ \A l \in 1..Lanes : f[l] \in Prefixes(received, l)
               /\ d = R!Interleaved(f)
  BY DecodesTo
<1>2. ASSUME NEW l \in 1..Lanes
      PROVE  /\ f[l] \in LaneData
             /\ Cardinality(Changed(R!Lane(received, l), R!EncodeLane(f[l]))) <= R!Radius
  <2>1. PICK w \in R!Corrections(R!Lane(received, l)) : f[l] = Prefix(w)
    BY <1>1 DEF Prefixes
  <2>2. /\ w \in LaneWords /\ R!IsCodeword(w)
        /\ Cardinality(Changed(R!Lane(received, l), w)) <= R!Radius
    BY CorrectionsOf
  <2>3. Prefix(w) \in LaneData /\ R!EncodeLane(Prefix(w)) = w
    BY <2>2, PrefixIs, EncodedPrefix
  <2> QED  BY <2>1, <2>2, <2>3
<1>3. K \in Nat
  BY CodeSizes
<1>4. f \in LaneSets(K)
  BY <1>1, <1>2 DEF LaneSets, LaneData
<1> HIDE DEF K
<1>5. d \in Blocks(K) /\ \A l \in 1..Lanes : R!Lane(d, l) = f[l]
  BY <1>1, <1>3, <1>4, InterleavedIs, LaneOfInterleaved
<1>6. d \in Data
  BY <1>5 DEF Data, K
<1>7. R!Encode(d) \in Received /\ \A l \in 1..Lanes : R!Lane(R!Encode(d), l) = R!EncodeLane(f[l])
  BY <1>5, <1>6, EncodeIs
<1>8. \A l \in 1..Lanes : Cardinality(Changed(R!Lane(received, l), R!Lane(R!Encode(d), l))) <= R!Radius
  BY <1>2, <1>7
<1> QED  BY <1>7, <1>8, WithinIs

\* Both, of every block of data and all symbols received: what the runs check of a few.
THEOREM BlocksAreCorrected ==
    ASSUME NEW data \in Data, NEW received \in Received
    PROVE  R!ErrorsAreCorrected(data, received)
BY SentIsReturned, ReturnedIsNear DEF R!ErrorsAreCorrected
-----------------------------------------------------------------------------
(* The trials *)

LEMMA FrameSendable ==
    ASSUME NEW f \in Frame
    PROVE  Sendable(f)
<1>1. PICK n \in MinBytes..MaxBytes : f \in [1..(n * ByteBits) -> H!Bits] /\ Intact(f)
  BY DEF Frame, Words
<1>2. n \in Nat /\ ByteBits \in Nat /\ ByteBits > 0
  BY ReceiversAssumption DEF H!HdlcAssumption
<1> DEFINE m == n * ByteBits
<1>3. m \in Nat
  BY <1>2
<1>4. m % ByteBits = 0 /\ m \div ByteBits = n
  BY <1>2
<1> HIDE DEF m
<1>5. f \in Seq(H!Bits) /\ Len(f) = m
  BY <1>1, <1>3, BitsAreSeq DEF m
<1> QED  BY <1>1, <1>4, <1>5 DEF Sendable

LEMMA FramingIs ==
    ASSUME NEW fs \in {<<f>> : f \in Frame} \cup Frame \X Second
    PROVE  fs \in Framing
<1>1. CASE fs \in {<<f>> : f \in Frame}
  <2>1. PICK f \in Frame : fs = <<f>>
    BY <1>1
  <2>2. Sendable(f) /\ f \in Seq(H!Bits)
    BY FrameSendable DEF Sendable
  <2> QED  BY <2>1, <2>2 DEF Framing
<1>2. CASE fs \in Frame \X Second
  <2>1. PICK f \in Frame, g \in Frame : fs = <<f, g>>
    BY <1>2 DEF Second
  <2>2. Sendable(f) /\ f \in Seq(H!Bits) /\ Sendable(g) /\ g \in Seq(H!Bits)
    BY FrameSendable DEF Sendable
  <2>3. fs \in Seq(Seq(H!Bits)) /\ Len(fs) = 2 /\ fs[1] = f /\ fs[2] = g
    BY <2>1, <2>2
  <2>4. \A k \in 1..2 : k = 1 \/ k = 2
    OBVIOUS
  <2>5. fs # <<>>
    BY <2>1
  <2> QED  BY <2>2, <2>3, <2>4, <2>5 DEF Framing
<1> QED  BY <1>1, <1>2

LEMMA NoiseIs ==
    ASSUME NEW n \in Noise
    PROVE  n \in Seq(H!Bits)
<1>1. CASE n \in Words(H!Bits, 0..2)
  <2>1. PICK k \in 0..2 : n \in [1..k -> H!Bits]
    BY <1>1 DEF Words
  <2> QED  BY <2>1, BitsAreSeq
<1>2. CASE n \in {<<0, 1, 1, 1>>, <<1, 1, 0, 1, 1, 1>>, <<1, 0, 1, 1, 0, 0, 1, 0>>}
  <2>1. 0 \in H!Bits /\ 1 \in H!Bits
    BY DEF H!Bits
  <2>2. <<0, 1, 1, 1>> \in Seq(H!Bits)
    BY <2>1
  <2>3. <<1, 1, 0, 1, 1, 1>> \in Seq(H!Bits)
    BY <2>1
  <2>4. <<1, 0, 1, 1, 0, 0, 1, 0>> \in Seq(H!Bits)
    BY <2>1
  <2> QED  BY <1>2, <2>2, <2>3, <2>4
<1> QED  BY <1>1, <1>2 DEF Noise

LEMMA BetweenIs ==
    ASSUME NEW g \in Between
    PROVE  g \in Gaps
<1> DEFINE flag == H!Flag
           size == H!FlagLength
<1>1. /\ flag \in Seq(H!Bits) /\ Len(flag) = size /\ size \in Nat /\ size >= 3
      /\ flag[1] = 0 /\ flag[size] = 0 /\ <<>> \in Seq(H!Bits) /\ 0 \in H!Bits /\ 1 \in H!Bits
  BY FlagIs, Taps DEF H!Bits
<1> HIDE DEF flag, size
<1>2. CASE g = flag
  <2>1. At(flag, 0, flag) /\ Len(flag) - size = 0
    BY <1>1 DEF At
  <2> QED  BY <1>1, <1>2, <2>1 DEF Gaps, flag, size
<1>3. CASE g = flag \o flag
  <2>1. g \in Seq(H!Bits) /\ Len(g) = size + size /\ At(g, 0, flag) /\ At(g, size, flag)
    BY <1>1, <1>3, JoinedStand
  <2>2. Len(g) - size = size
    BY <1>1, <2>1
  <2> QED  BY <2>1, <2>2 DEF Gaps, flag, size
<1>4. CASE g = flag \o Tail(flag)
  <2> DEFINE rest == Tail(flag)
  <2>1. rest \in Seq(H!Bits) /\ Len(rest) = size - 1 /\ \A j \in 1..(size - 1) : rest[j] = flag[j + 1]
    BY <1>1
  <2> HIDE DEF rest
  <2>2. g = flag \o rest
    BY <1>4 DEF rest
  <2>3. /\ g \in Seq(H!Bits) /\ Len(g) = size + (size - 1)
        /\ At(g, 0, flag) /\ At(g, size, rest)
    BY <1>1, <2>1, <2>2, JoinedStand
  <2>4. Len(g) - size = size - 1
    BY <1>1, <2>3
  <2>5. ASSUME NEW j \in 1..size
        PROVE  g[size - 1 + j] = flag[j]
    <3>1. CASE j = 1
      <4>1. g[0 + size] = flag[size]
        BY <1>1, <2>3 DEF At
      <4> QED  BY <1>1, <3>1, <4>1
    <3>2. CASE j # 1
      <4>1. j - 1 \in 1..(size - 1) /\ size + (j - 1) = size - 1 + j /\ j - 1 + 1 = j
        BY <1>1, <3>2
      <4>2. g[size + (j - 1)] = rest[j - 1]
        BY <2>1, <2>3, <4>1 DEF At
      <4> QED  BY <2>1, <4>1, <4>2
    <3> QED  BY <3>1, <3>2
  <2>6. At(g, size - 1, flag)
    BY <1>1, <2>3, <2>5 DEF At
  <2> QED  BY <2>3, <2>4, <2>6 DEF Gaps, flag, size
<1>5. CASE g = flag \o <<1, 1, 1, 1>> \o flag
  <2> DEFINE idle == <<1, 1, 1, 1>>
  <2>1. idle \in Seq(H!Bits) /\ Len(idle) = 4
    BY <1>1
  <2> HIDE DEF idle
  <2>2. g = flag \o idle \o flag
    BY <1>5 DEF idle
  <2>5. /\ g \in Seq(H!Bits) /\ Len(g) = Len(flag) + Len(idle) + Len(flag)
        /\ At(g, 0, flag) /\ At(g, Len(flag) + Len(idle), flag)
    BY <1>1, <2>1, <2>2, ThreeStand, Zenon
  <2>3. /\ g \in Seq(H!Bits) /\ Len(g) = size + 4 + size
        /\ At(g, 0, flag) /\ At(g, size + 4, flag)
    BY <1>1, <2>1, <2>5
  <2>4. Len(g) - size = size + 4
    BY <1>1, <2>3
  <2> QED  BY <2>3, <2>4 DEF Gaps, flag, size
<1> QED  BY <1>2, <1>3, <1>4, <1>5 DEF Between, flag

LEMMA PairIs ==
    ASSUME NEW a, NEW b
    PROVE  <<a, b>>[1] = a /\ <<a, b>>[2] = b
OBVIOUS

LEMMA ScramblersAre ==
    ASSUME NEW s \in Scramblers
    PROVE  s[1] \in BOOLEAN /\ s[2] \in [1..TapB -> H!Bits]
<1>1. Silence \in [1..TapB -> H!Bits] /\ Chatter \in [1..TapB -> H!Bits]
  BY DEF Silence, Chatter, H!Bits
<1>2. s = <<FALSE, Silence>> \/ s = <<TRUE, Silence>> \/ s = <<TRUE, Chatter>>
  BY DEF Scramblers
<1>3. PICK a \in BOOLEAN, h \in {Silence, Chatter} : s = <<a, h>>
  BY <1>2, Zenon
<1>4. s[1] = a /\ s[2] = h
  BY <1>3, PairIs, Zenon
<1> QED  BY <1>1, <1>3, <1>4

LEMMA InitTrialOK == ReceiversInit => TrialOK
BY DEF ReceiversInit, NoTrial, TrialOK

LEMMA LevelsStep ==
    ASSUME TrialOK, LevelTrials
    PROVE  TrialOK'
<1>1. CASE trial = NoTrial /\ \E l \in [1..5 -> H!Bits] : trial' = [kind |-> "levels", levels |-> l]
  <2>1. PICK l \in [1..5 -> H!Bits] : trial' = [kind |-> "levels", levels |-> l]
    BY <1>1
  <2>2. l \in Seq(H!Bits)
    BY BitsAreSeq
  <2> QED  BY <2>1, <2>2 DEF TrialOK
<1>2. CASE /\ trial.kind = "levels"
           /\ \E l \in [1..8 -> H!Bits] : trial' = [trial EXCEPT !.levels = @ \o l]
  <2>1. PICK l \in [1..8 -> H!Bits] : trial' = [trial EXCEPT !.levels = @ \o l]
    BY <1>2
  <2>2. trial \in [kind : {"levels"}, levels : Seq(H!Bits)]
    BY <1>2 DEF TrialOK
  <2>3. trial.levels \o l \in Seq(H!Bits)
    BY <2>2, BitsAreSeq, ConcatProperties
  <2>4. trial' \in [kind : {"levels"}, levels : Seq(H!Bits)]
    BY <2>1, <2>2, <2>3
  <2>5. trial'.kind = "levels"
    BY <2>4
  <2> QED  BY <2>4, <2>5 DEF TrialOK
<1> QED  BY <1>1, <1>2 DEF LevelTrials

LEMMA SoftStep ==
    ASSUME TrialOK, SoftTrials
    PROVE  TrialOK'
<1> DEFINE soft == IF trial = NoTrial THEN <<>> ELSE trial.soft
<1>1. soft \in Pairs
  BY DEF TrialOK, SoftTrials, Pairs, NoTrial
<1>2. PICK x, y \in IF Len(soft) < 3 THEN {-2, 0, 1} ELSE {-1, 1} :
          trial' = [kind |-> "soft", soft |-> Append(soft, <<x, y>>)]
  BY DEF SoftTrials
<1>3. <<x, y>> \in Int \X Int
  BY <1>2
<1> HIDE DEF soft
<1>4. Append(soft, <<x, y>>) \in Pairs
  BY <1>1, <1>3, AppendProperties DEF Pairs
<1> QED  BY <1>2, <1>4 DEF TrialOK

LEMMA FrameStep ==
    ASSUME TrialOK, FrameTrials
    PROVE  TrialOK'
<1>1. ASSUME NEW n \in Noise, NEW f \in {<<f>> : f \in Frame} \cup Frame \X Second,
             trial' = [kind |-> "sending", noise |-> n, frames |-> f]
      PROVE  TrialOK'
  <2>1. n \in Seq(H!Bits) /\ f \in Framing
    BY NoiseIs, FramingIs
  <2>2. trial'.kind = "sending" /\ trial'.noise = n /\ trial'.frames = f
    BY <1>1
  <2> QED  BY <2>1, <2>2 DEF TrialOK
<1>2. ASSUME trial.kind = "sending", NEW gap \in Between, NEW initial \in H!Bits,
             NEW s \in Scramblers, NEW modes \in {{s[1]}, BOOLEAN},
             trial' = [kind |-> "frames", noise |-> trial.noise, frames |-> trial.frames,
                       gap |-> gap, initial |-> initial, g3ruh |-> s[1],
                       history |-> s[2], modes |-> modes]
      PROVE  TrialOK'
  <2>1. trial.noise \in Seq(H!Bits) /\ trial.frames \in Framing
    BY <1>2 DEF TrialOK
  <2>2. /\ trial'.kind = "frames" /\ trial'.noise = trial.noise /\ trial'.frames = trial.frames
        /\ trial'.gap = gap /\ trial'.initial = initial
        /\ trial'.history = s[2] /\ trial'.modes = modes
    BY <1>2
  <2>3. trial'.g3ruh = s[1]
    BY <1>2, Zenon
  <2>4. gap \in Gaps
    BY BetweenIs
  <2>5. Sending(trial)'
    BY <2>1, <2>2, <2>4 DEF Sending, Framing, Gaps
  <2>6. s[1] \in BOOLEAN /\ s[2] \in [1..TapB -> H!Bits]
    BY ScramblersAre
  <2>7. s[1] \in modes
    BY <2>6
  <2> QED  BY <2>2, <2>3, <2>5, <2>6, <2>7 DEF TrialOK
<1> QED  BY <1>1, <1>2 DEF FrameTrials

\* A symbol more or less, of a block.
LEMMA HitIs ==
    ASSUME NEW b \in Received, NEW k, NEW s \in R!Symbols
    PROVE  Hit(b, k, s) \in Received
<1> DEFINE S == 1..(Lanes * R!CodewordSymbols)
           f == Hit(b, k, s)
<1>1. b \in [S -> R!Symbols]
  BY DEF Received, Blocks
<1> HIDE DEF S
<1>2. f = [i \in S |-> IF i = k THEN R!Plus(b[k], s) ELSE b[i]]
  BY <1>1 DEF Hit
<1>3. \A i \in S : (IF i = k THEN R!Plus(b[k], s) ELSE b[i]) \in R!Symbols
  BY <1>1, PlusIs
<1> HIDE DEF f
<1>4. f \in [S -> R!Symbols]
  BY <1>2, <1>3
<1> QED  BY <1>4 DEF Received, Blocks, S, f

LEMMA BlockStep ==
    ASSUME TrialOK, BlockTrials
    PROVE  TrialOK'
<1>1. ASSUME NEW d \in BlockData, trial' = [kind |-> "sent", data |-> d, block |-> R!Encode(d)]
      PROVE  TrialOK'
  <2>1. d \in Data
    BY DEF Data, Blocks, BlockData
  <2>2. R!Encode(d) \in Received
    BY <2>1, EncodeIs
  <2> QED  BY <1>1, <2>1, <2>2 DEF TrialOK
<1>2. ASSUME trial.kind = "sent", NEW i, NEW j, NEW k, NEW third \in R!Symbols,
             trial' = [kind |-> "hit", data |-> trial.data, at |-> <<i, j>>,
                       block |-> Hit(trial.block, k, third)]
      PROVE  TrialOK'
  <2>1. trial.data \in Data /\ trial.block \in Received
    BY <1>2 DEF TrialOK
  <2>2. Hit(trial.block, k, third) \in Received
    BY HitIs, <2>1
  <2> QED  BY <1>2, <2>1, <2>2 DEF TrialOK
<1>3. ASSUME trial.kind = "hit", NEW a \in R!Symbols, NEW b \in R!Symbols,
             trial' = [kind |-> "block", data |-> trial.data,
                       block |-> Hit(Hit(trial.block, trial.at[1], a), trial.at[2], b)]
      PROVE  TrialOK'
  <2>1. trial.data \in Data /\ trial.block \in Received
    BY <1>3 DEF TrialOK
  <2>2. Hit(Hit(trial.block, trial.at[1], a), trial.at[2], b) \in Received
    BY HitIs, <2>1
  <2> QED  BY <1>3, <2>1, <2>2 DEF TrialOK
<1>4. CASE trial = NoTrial /\
           \E d \in {<<{}, {}, {}, {}>>, <<{0, 1}, {2}, {}, {1}>>} \cap BlockData :
               trial' = [kind |-> "sent", data |-> d, block |-> R!Encode(d)]
  <2>1. PICK d \in BlockData : trial' = [kind |-> "sent", data |-> d, block |-> R!Encode(d)]
    BY <1>4, Zenon
  <2> QED  BY <1>1, <2>1
<1>5. CASE trial.kind = "sent" /\
           \E i, j \in {1, 3, 5, 7, 9, 11}, k \in {2, 5, 12}, third \in {{}, {1}} \cap R!Symbols :
              /\ i < j /\ j # k /\ k # i
              /\ trial' = [kind |-> "hit", data |-> trial.data, at |-> <<i, j>>,
                           block |-> Hit(trial.block, k, third)]
  <2>1. PICK i \in {1, 3, 5, 7, 9, 11}, j \in {1, 3, 5, 7, 9, 11}, k \in {2, 5, 12},
             third \in {{}, {1}} \cap R!Symbols :
                 /\ i < j /\ j # k /\ k # i
                 /\ trial' = [kind |-> "hit", data |-> trial.data, at |-> <<i, j>>,
                              block |-> Hit(trial.block, k, third)]
    BY <1>5
  <2>2. third \in R!Symbols
    BY <2>1
  <2> QED  BY <1>2, <1>5, <2>1, <2>2
<1>6. CASE trial.kind = "hit" /\
           \E a \in {{}, {0}, {0, 2}} \cap R!Symbols, b \in R!Symbols :
              trial' = [kind |-> "block", data |-> trial.data,
                        block |-> Hit(Hit(trial.block, trial.at[1], a), trial.at[2], b)]
  <2>1. PICK a \in R!Symbols, b \in R!Symbols :
              trial' = [kind |-> "block", data |-> trial.data,
                        block |-> Hit(Hit(trial.block, trial.at[1], a), trial.at[2], b)]
    BY <1>6, Zenon
  <2> QED  BY <1>3, <1>6, <2>1
<1> QED  BY <1>4, <1>5, <1>6 DEF BlockTrials

LEMMA NextTrialOK == TrialOK /\ [ReceiversNext]_<<vars, trial>> => TrialOK'
<1>1. UNCHANGED trial /\ TrialOK => TrialOK'
  BY DEF TrialOK, Sending
<1> QED  BY <1>1, LevelsStep, FrameStep, SoftStep, BlockStep DEF ReceiversNext

LEMMA TrialsOK == ReceiversSpec => []TrialOK
BY InitTrialOK, NextTrialOK, PTL DEF ReceiversSpec

\* In every trial the decoder of levels and the extractor of anchors find the same frames.
THEOREM DecodersAgreeAlways == ReceiversSpec => []DecodersAgree
<1>1. TrialOK => DecodersAgree
  BY DecodersAlwaysAgree, ReceiversAssumption DEF TrialOK, DecodersAgree
<1> QED  BY <1>1, TrialsOK, PTL

\* In every trial all frames that were sent are found, at their places.
THEOREM FramesFoundAlways == ReceiversSpec => []FramesAreFound
<1>1. TrialOK => FramesAreFound
  BY FramesAlwaysFound DEF TrialOK, FramesAreFound
<1> QED  BY <1>1, TrialsOK, PTL

\* In every trial the block is decoded to what was sent if there are at most Radius errors
\* in each lane, and never to anything the received symbols are too far from.
THEOREM ErrorsCorrectedAlways == ReceiversSpec => []ErrorsAreCorrected
<1>1. TrialOK => ErrorsAreCorrected
  BY BlocksAreCorrected DEF TrialOK, ErrorsAreCorrected
<1> QED  BY <1>1, TrialsOK, PTL

\* In every trial no path through the trellis is likelier than the decoded one.
THEOREM LikeliestAlways == ReceiversSpec => []PathIsMostLikely
<1>1. TrialOK => PathIsMostLikely
  BY DecodedIsLikeliest DEF TrialOK, PathIsMostLikely
<1> QED  BY <1>1, TrialsOK, PTL

\* Beside the trials the receiver is that of AosPackets: every step of it is one of
\* `push`, of the reader or none, so what is proved of AosPackets holds here.
THEOREM ReceiversReceive == ReceiversSpec => Spec
<1>1. ReceiversInit => Init
  BY DEF ReceiversInit
<1>2. [ReceiversNext]_<<vars, trial>> => [Next]_vars
  BY DEF ReceiversNext
<1> QED  BY <1>1, <1>2, PTL DEF ReceiversSpec, Spec
=============================================================================
