----------------------------- MODULE HdlcFrames -----------------------------
(* AX.25 frames among the level decisions of a demodulator: decode_nrzi_initial_zero
   and frames_from_bits of src/rust/protocol.rs, and validated_spans of
   src/rust/anchors.rs, which finds the same frames again with their places. The
   level before the first symbol is not known, so both are tried: the one by
   decoding twice, the other by flipping the bits that the first level reaches.

   A byte is its bits, the first to be sent first; whether a frame is intact, which
   its checksum and its address fields say, is the constant Intact. *)
EXTENDS Integers, SequencesExt, StepFold

CONSTANTS
    TapA, TapB,   \* the G3RUH scrambler's delays (12, 17)
    Ones,         \* ones in a row after which a zero is stuffed (5)
    ByteBits,     \* 8
    MinBytes, MaxBytes,
    Intact(_)

HdlcAssumption ==
    /\ TapA \in Nat /\ TapB \in Nat /\ 0 < TapA /\ TapA < TapB
    /\ Ones \in Nat /\ Ones > 0
    /\ ByteBits \in Nat /\ ByteBits > 0
    /\ MinBytes \in Nat /\ MinBytes > 0 /\ MaxBytes \in Nat

Bits == {0, 1}
Xor(a, b) == IF a = b THEN 0 ELSE 1
-----------------------------------------------------------------------------
(* From levels to bits *)

\* NRZI: a one keeps the level.
Nrzi(levels, initial) ==
    [i \in DOMAIN levels |->
        IF levels[i] = (IF i = 1 THEN initial ELSE levels[i - 1]) THEN 1 ELSE 0]

Delayed(bits, i, n) == IF i > n THEN bits[i - n] ELSE 0

\* The taps read received bits, not descrambled ones.
Descramble(bits) ==
    [i \in DOMAIN bits |->
        Xor(bits[i], Xor(Delayed(bits, i, TapA), Delayed(bits, i, TapB)))]

\* What the level before the first symbol reaches.
Reached_First(g3ruh) == {1}
Reached(g3ruh) == IF g3ruh THEN {1, TapA + 1, TapB + 1} ELSE {1}

FlipInitial(bits, g3ruh) ==
    [i \in DOMAIN bits |-> IF i \in Reached(g3ruh) THEN 1 - bits[i] ELSE bits[i]]

\* The bits of either first level: descrambled once and flipped, as protocol.rs does
\* it, and descrambled twice, as anchors.rs does it.
FlippedStreams(nrzi, g3ruh) ==
    LET zero == IF g3ruh THEN Descramble(nrzi) ELSE nrzi
    IN {zero, FlipInitial(zero, g3ruh)}

DecodedStreams(levels, g3ruh) ==
    {IF g3ruh THEN Descramble(Nrzi(levels, initial)) ELSE Nrzi(levels, initial) :
        initial \in Bits}
-----------------------------------------------------------------------------
(* From bits to frames *)

FlagLength == Ones + 3
Flag == [i \in 1..FlagLength |-> IF i \in {1, FlagLength} THEN 0 ELSE 1]

FlagsIn(bits) ==
    {i \in 1..(Len(bits) - FlagLength + 1) :
        SubSeq(bits, i, i + FlagLength - 1) = Flag}

\* One more bit between flags: the zero after Ones ones is dropped.
UnstuffBit_Early(s, bit) ==
    CASE bit = 1 -> [ones |-> s.ones + 1, out |-> Append(s.out, 1),
                     ok |-> s.ok /\ s.ones < Ones]
      [] bit = 0 /\ s.ones >= Ones - 1 -> [s EXCEPT !.ones = 0]
      [] OTHER -> [ones |-> 0, out |-> Append(s.out, 0), ok |-> s.ok]
UnstuffBit(s, bit) ==
    CASE bit = 1 -> [ones |-> s.ones + 1, out |-> Append(s.out, 1),
                     ok |-> s.ok /\ s.ones < Ones]
      [] bit = 0 /\ s.ones = Ones -> [s EXCEPT !.ones = 0]
      [] OTHER -> [ones |-> 0, out |-> Append(s.out, 0), ok |-> s.ok]

Unstuff(bits) == Fold(UnstuffBit, [ones |-> 0, out |-> <<>>, ok |-> TRUE], bits)

\* Stuffing adds no more than a zero per Ones bits.
MaxStuffed == MaxBytes * ByteBits + (MaxBytes * ByteBits + Ones - 1) \div Ones

IsFrame(region) ==
    LET u == Unstuff(region) IN
    /\ Len(region) <= MaxStuffed
    /\ u.ok
    /\ Len(u.out) % ByteBits = 0
    /\ Len(u.out) \div ByteBits \in MinBytes..MaxBytes
    /\ Intact(u.out)

\* Neighbours among the flags; two may share a zero.
Neighbours(flags) ==
    {p \in flags \X flags : /\ p[1] + FlagLength < p[2]
                            /\ \A f \in flags : f <= p[1] \/ f >= p[2]}

\* A frame with its place: from the symbol after a flag up to the next flag.
Spans(bits) ==
    LET region(p) == SubSeq(bits, p[1] + FlagLength, p[2] - 1)
    IN {[start |-> p[1] + FlagLength, end |-> p[2], frame |-> Unstuff(region(p)).out] :
            p \in {q \in Neighbours(FlagsIn(bits)) : IsFrame(region(q))}}

\* Those of some bit streams.
SpansIn(streams) == UNION {Spans(Written(b)) : b \in streams}

DecodeAx25(levels, modes) ==
    UNION {{s.frame : s \in SpansIn(FlippedStreams(Nrzi(levels, 0), g3ruh))} : g3ruh \in modes}

ValidatedSpans(levels, g3ruh) == SpansIn(DecodedStreams(levels, g3ruh))
-----------------------------------------------------------------------------
(* The sender, for reference: bit stuffing, NRZI and the scrambler of G3RUH modems *)

StuffBit(s, bit) ==
    LET ones == IF bit = 1 THEN s.ones + 1 ELSE 0
    IN IF ones = Ones THEN [ones |-> 0, out |-> s.out \o <<1, 0>>]
                      ELSE [ones |-> ones, out |-> Append(s.out, bit)]

Stuff(bits) == Fold(StuffBit, [ones |-> 0, out |-> <<>>], bits).out

\* The scrambler feeds back what it sent; before the first bit it sent history.
ScrambleBit(sent, bit) ==
    LET back(n) == sent[Len(sent) + 1 - n]
    IN Append(sent, Xor(bit, Xor(back(TapA), back(TapB))))

Scramble(bits, history) == SubSeq(Fold(ScrambleBit, history, bits),
                                  TapB + 1, TapB + Len(bits))

NextLevel(levels, bit) == Append(levels, IF bit = 1 THEN Last(levels) ELSE 1 - Last(levels))
ToLevels(bits, initial) == Tail(Fold(NextLevel, <<initial>>, bits))

\* Frames with a flag before and after each, which neighbours share, or with a gap
\* of flags and idle bits between them.
Before(t, k) ==
    t.noise \o Flag \o Fold(LAMBDA s, f : s \o Stuff(f) \o t.gap, <<>>,
                              SubSeq(t.frames, 1, k - 1))

Stream(t) == Before(t, Len(t.frames)) \o Stuff(Last(t.frames)) \o Flag

Sent(t) ==
    ToLevels(IF t.g3ruh THEN Scramble(Stream(t), t.history) ELSE Stream(t), t.initial)
-----------------------------------------------------------------------------
(* What the decoders promise *)

\* The receiver knows what the scrambler sent before, or hears it for long enough.
Synchronised(t) ==
    t.g3ruh => Len(t.noise) >= TapB \/ \A i \in DOMAIN t.history : t.history[i] = 0

\* Every intact frame between flags is found, and at its place, whatever came
\* before the first flag, whatever level the line had, also when the flag is the
\* first thing heard, and whether neighbours share a flag or the zero of two.
FramesAreFound(t) ==
    Synchronised(t) =>
        \A k \in DOMAIN t.frames :
            LET start == Len(Before(t, k)) + 1
                place == [start |-> start, end |-> start + Len(Stuff(t.frames[k])),
                          frame |-> t.frames[k]]
                levels == Written(Sent(t))
            IN /\ t.frames[k] \in DecodeAx25(levels, t.modes)
               /\ place \in ValidatedSpans(levels, t.g3ruh)

\* The decoder finds the frames that the search for anchors finds, no more and no
\* less, although it descrambles once and flips the bits that the first level reaches.
DecodersAgree(levels, g3ruh) ==
    DecodeAx25(levels, {g3ruh}) = {s.frame : s \in ValidatedSpans(levels, g3ruh)}
=============================================================================
