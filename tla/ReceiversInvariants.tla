------------------------ MODULE ReceiversInvariants ------------------------
(* What ReceiversProofs shows to hold of the receivers, part by part: the inductive
   invariants of the packets, and what it says of bits, levels, soft decisions, symbols
   and trials on the way. *)
EXTENDS MCReceivers
-----------------------------------------------------------------------------
(* Packets *)

\* The transmission: packets lie end to end and are longer than a header.
SentOK ==
    /\ sent.first \in 0..(Period - 1)
    /\ Starts \subseteq 0..(Total - 1)
    /\ \A a \in Starts :
          /\ sent.length[a] \in Nat
          /\ sent.length[a] > Header
          /\ a + sent.length[a] \in Starts \/ a + sent.length[a] >= Total

FileOK == queue \in Seq(Numbers)
ChannelOK == channel \in [last : Int, pending : Seq(Nat)]
CursorOK == cursor \in [frame : Numbers, at : 0..Zone]

\* What is pending is the head of a packet, up to the end of the last frame.
PendingIsHead ==
    channel.pending # <<>> =>
        \E a \in Starts, n \in Nat, g \in Numbers :
            /\ channel.pending = Run(a, n)
            /\ channel.last = Counter(g)
            /\ a + n = g * Zone

\* The walk through a zone stands at the start of a packet.
WalkAtStart ==
    Walking => /\ channel.pending = <<>>
               /\ channel.last = Counter(cursor.frame)
               /\ Base(cursor.frame) + cursor.at \in Starts

Carried == ChannelOK /\ CursorOK /\ PendingIsHead /\ WalkAtStart /\ PacketsAreWhole
IInv == SentOK /\ FileOK /\ Carried

\* A loop from 1 to n has a value after each round.
Loop(f, n, base, step) == f[0] = base /\ \A i \in 1..n : f[i] = step[i][f[i - 1]]
-----------------------------------------------------------------------------
(* Kept packets *)

\* Packets do not overlap.
Apart == \A a, b \in Starts : a < b => a + sent.length[a] <= b

ReportOK == report \in [gaps : Nat, aborts : Nat, invalid : Nat, rejected : Nat]

\* What has been read, and what of it the demultiplexer remembers.
HistoryOK ==
    /\ pushed \in Seq(Numbers)
    /\ seen \subseteq Numbers
    /\ \A f \in seen : sent.frame[f] = "foreign" \/ \E i \in DOMAIN pushed : pushed[i] = f
    /\ \A i \in DOMAIN pushed : pushed[i] \in seen
    /\ reads \in Nat
    /\ reads = 0 => seen = {} /\ pushed = <<>>
    /\ pushed # <<>> => cursor.frame = pushed[Len(pushed)]
                        /\ channel.last = Counter(cursor.frame)
    /\ pushed = <<>> => channel.last = NoCounter /\ ~Walking

\* Merged frames lie within half the counters, so their counters are in order.
Merging ==
    mode = "hybrid" =>
        /\ ~SpanRefused(seen \cup {queue[j] : j \in DOMAIN queue})
        /\ InOrder(queue)
        /\ InOrder(pushed)
        /\ \A f \in seen, j \in DOMAIN queue : Counter(f) < Counter(queue[j])

\* The frame a packet ends in.
LastOf(a) == FrameOf(a + sent.length[a] - 1)

\* A packet that the walk has still to come to.
Ahead(a) == /\ Walking
            /\ cursor.frame = FrameOf(a)
            /\ Base(cursor.frame) + cursor.at <= a

\* A packet that is pending, up to the end of the last frame and not to its own.
Underway(a) == /\ cursor.frame \in FrameOf(a)..(LastOf(a) - 1)
               /\ channel.pending = Run(a, cursor.frame * Zone - a)

\* From the i-th on, the frames that were pushed are those that a packet spans, as many
\* as there are.
RowSoFar(a, i) ==
    /\ i \in DOMAIN pushed /\ pushed[i] = FrameOf(a)
    /\ \A f \in Spans(a) :
          LET k == i + f - FrameOf(a) IN k \in DOMAIN pushed => pushed[k] = f

\* A packet whose frames come in a row is in the archive or on its way.
RowsKept ==
    \A a \in Starts : Readable(a) => \A i \in DOMAIN pushed :
        RowSoFar(a, i) =>
            \/ Archived(a)
            \/ Ahead(a) /\ i = Len(pushed)
            \/ Underway(a) /\ i + cursor.frame - FrameOf(a) = Len(pushed)

Clean == \A c \in DOMAIN report : report[c] = 0

\* As long as nothing was counted, every packet that was begun is.
CleanKept ==
    Clean =>
        /\ \A f \in seen : f <= cursor.frame /\ sent.frame[f] \notin {"foreign", "skewed"}
        /\ seen # {} => channel.last = Counter(cursor.frame)
        /\ \A a \in Starts :
              sent.kind[a] = "data" /\ FrameOf(a) \in seen /\ sent.frame[FrameOf(a)] # "idle"
              => Archived(a) \/ Ahead(a) \/ Underway(a)

KInv == Apart /\ ReportOK /\ HistoryOK /\ Merging /\ RowsKept /\ CleanKept
-----------------------------------------------------------------------------
(* Levels *)

Stuffing == [ones : Nat, out : Seq(H!Bits)]
Unstuffing == [ones : Nat, out : Seq(H!Bits), ok : BOOLEAN]

\* A sequence begins with another.
Begins(s, head) == Len(head) <= Len(s) /\ \A i \in 1..Len(head) : s[i] = head[i]

\* Among any Ones + 1 bits in a row there is a zero.
NoRun(s) == \A j \in 1..(Len(s) - Ones) : \E i \in j..(j + Ones) : s[i] = 0

\* As many ones as counted, or fewer, stand at the end.
Counted(s) ==
    /\ s.ones <= Len(s.out)
    /\ s.ones < Len(s.out) => s.out[Len(s.out) - s.ones] = 0

\* A sequence stands in another, after a place.
At(b, place, s) ==
    /\ place + Len(s) <= Len(b)
    /\ \A j \in 1..Len(s) : b[place + j] = s[j]

\* What a sender may send in a frame.
Sendable(f) ==
    /\ f \in Seq(H!Bits) /\ Intact(f)
    /\ Len(f) % ByteBits = 0
    /\ Len(f) \div ByteBits \in MinBytes..MaxBytes

\* What a trial sends: frames with a gap between them that begins and ends with a flag.
Sending(t) ==
    /\ t.noise \in Seq(H!Bits) /\ t.gap \in Seq(H!Bits)
    /\ t.frames \in Seq(Seq(H!Bits)) /\ t.frames # <<>>
    /\ \A k \in 1..Len(t.frames) : Sendable(t.frames[k])
    /\ At(t.gap, 0, H!Flag) /\ At(t.gap, Len(t.gap) - H!FlagLength, H!Flag)

\* After one more frame.
Sequel(b, f, gap) == b \o H!Stuff(f) \o gap

\* Frames, each with a gap after it.
Laid(t, frames) ==
    (CHOOSE g : g = [i \in 0..Len(frames) |->
        IF i = 0 THEN <<>> ELSE g[i - 1] \o H!Stuff(frames[i]) \o t.gap])[Len(frames)]

\* The receiver knows what the scrambler sent before, or hears it for long enough.
InTune(g3ruh, history, first) ==
    g3ruh => first >= TapB \/ \A i \in 1..TapB : history[i] = 0

\* A stream is read from a place on.
ReadFrom(b, first, stream) ==
    /\ b \in Seq(H!Bits) /\ Len(b) = Len(stream)
    /\ \A i \in 1..Len(stream) : i > first => b[i] = stream[i]
-----------------------------------------------------------------------------
(* Soft decisions *)

Pairs == Seq(Int \X Int)
Metrics == [V!States -> Int]

\* The metrics after one more pair.
Extended(metric, pair) ==
    [state \in V!States |-> V!Path(metric, pair, state, V!Choice(metric, pair, state))]

\* The register holds the state first and then, bit by bit, what is shifted into it.
Shifted(register, n, bits, state) ==
    /\ register \in [0..n -> 0..(4 * High - 1)]
    /\ register[0] = state
    /\ \A i \in 1..n : register[i] = (register[i - 1] * 2 + bits[i]) % (4 * High)
-----------------------------------------------------------------------------
(* Blocks: what the decoder of a lane may return *)

\* The places where two words differ.
Changed(word, w) == {i \in DOMAIN word : w[i] # word[i]}

\* The locator of a word's errors, their places, and the errors at these places.
Suspected(word) == R!Located(R!Syndromes(word))
Suspects(word) == R!Positions(Suspected(word))
Explained(word) == R!Solutions(R!Syndromes(word), Suspects(word))

Repairs(word) ==
    {R!Repaired(word, e) : e \in {x \in Explained(word) : \A i \in Suspects(word) : x[i] # {}}}

Flawless(word) == \A j \in DOMAIN R!Syndromes(word) : R!Syndromes(word)[j] = {}
-----------------------------------------------------------------------------
(* Sums and powers of symbols *)

OddMany(S) == Cardinality(S) % 2 = 1

\* The sum of the symbols g[i], and what it shares with sums of numbers.
SumOver(S, g) == {p \in 0..(Degree - 1) : OddMany({i \in S : p \in g[i]})}

\* An additive function of a sum.
Additive(L) ==
    /\ L \in [R!Symbols -> R!Symbols]
    /\ \A a, b \in R!Symbols : L[R!Plus(a, b)] = R!Plus(L[a], L[b])

\* The sum of rows is the sum of columns.
Table(S, T, g, h, row, column) ==
    /\ \A i \in S, k \in T : g[i][k] \in R!Symbols /\ h[k][i] = g[i][k]
    /\ \A i \in S : row[i] = SumOver(T, g[i])
    /\ \A k \in T : column[k] = SumOver(S, h[k])

Shift == [a \in R!Symbols |-> R!TimesX(a)]

\* Multiplication by a symbol.
Multiples(a) == [s \in R!Symbols |-> R!Times(a, s)]

\* Numbers that stand for different symbols, and sums of these symbols' j-th powers, each
\* times a symbol, that vanish for as many j as there are.
Distinct(S, m) == \A i, k \in S : R!Alpha(m[i]) = R!Alpha(m[k]) => i = k

Powers(S, m, c, j) == [i \in S |-> R!Times(c[i], R!Alpha(m[i] * j))]
Vanish(S, m, c) == \A j \in 0..(Cardinality(S) - 1) : SumOver(S, Powers(S, m, c, j)) = {}

\* The value of a polynomial, coefficient by coefficient, the leading one first.
Horner(h, p, n, x) ==
    /\ h \in [0..n -> R!Symbols] /\ h[0] = {}
    /\ \A i \in 1..n : h[i] = R!Plus(R!Times(h[i - 1], x), p[i])

\* The same value as a sum of the coefficients' terms.
Terms(p, k, m) == [i \in 1..k |-> R!Times(p[i], R!Alpha(m * (k - i)))]

\* The polynomial p of n coefficients has a root at y.
Vanishes(p, n, y) == \A h : Horner(h, p, n, y) => h[n] = {}
-----------------------------------------------------------------------------
(* Codewords *)

LaneWords == [1..R!CodewordSymbols -> R!Symbols]

\* A place's power in the j-th syndrome.
PlaceIn(j, i) == R!Alpha((FirstRoot + j) * PrimitiveStep * (R!CodewordSymbols - i))

\* What two words differ by at a place, as the syndromes see it.
Seen(u, w, S) == [i \in S |-> R!Times(R!Plus(u[i], w[i]), R!Alpha(R!Place(i) * FirstRoot))]

PlacesOf(S) == [i \in S |-> R!Place(i)]
-----------------------------------------------------------------------------
(* The search for the locator *)

Locators == [0..Parity -> R!Symbols]
SyndromeLists == [0..(Parity - 1) -> R!Symbols]

\* What a locator makes of the syndromes up to the j-th: nothing, if the j-th is the one
\* that it predicts.
Mixture(c, s, l, j) == [i \in 0..l |-> R!Times(c[i], s[j - i])]
Mixed(c, s, l, j) == SumOver(0..l, Mixture(c, s, l, j))

\* A locator plus f times an earlier one, moved by m.
Later(c, b, f, m) == [i \in 0..Parity |->
    IF i < m THEN c[i] ELSE R!Plus(c[i], R!Times(f, b[i - m]))]

\* Symbols x at the places m that explain all syndromes.
Causes(S, m, x, s) == \A j \in 0..(Parity - 1) : s[j] = SumOver(S, Powers(S, m, x, j))

\* The locator's value at a place.
Shares(c, l, e) == [k \in 0..l |-> R!Times(c[k], R!Alpha(e * (l - k)))]

ValueAt(c, l, e) == SumOver(0..l, Shares(c, l, e))
Located(S, m, x, c, l) == [i \in S |-> R!Times(x[i], ValueAt(c, l, m[i]))]

Searches == [locator : Locators, previous : Locators, last : R!Symbols \ {{}},
             degree : Int, distance : Nat]

\* What Berlekamp and Massey's search has after n syndromes: a locator that predicts them,
\* and an earlier one that predicted all up to where it failed, by "last".
Lag(r, n) == n + 1 - r.distance - r.degree

Searched(r, s, n, v) ==
    /\ r \in Searches
    /\ r.degree \in 0..n /\ r.degree <= v
    /\ r.distance > 0 /\ Lag(r, n) \in Nat
    /\ r.locator[0] = {0}
    /\ \A i \in 0..Parity : i > r.degree => r.locator[i] = {}
    /\ \A i \in 0..Parity : i > Lag(r, n) => r.previous[i] = {}
    /\ \A j \in r.degree..(n - 1) : Mixed(r.locator, s, r.degree, j) = {}
    /\ r.degree > 0 =>
          /\ Mixed(r.previous, s, Lag(r, n), n - r.distance) = r.last
          /\ \A j \in Lag(r, n)..(n - r.distance - 1) : Mixed(r.previous, s, Lag(r, n), j) = {}

\* A locator that foretells the n-th syndrome too, and the correction that makes it one.
Continues(c, s, l, n) ==
    /\ c \in Locators /\ c[0] = {0}
    /\ \A i \in 0..Parity : i > l => c[i] = {}
    /\ \A j \in l..n : Mixed(c, s, l, j) = {}

Corrected(r, s, n) ==
    Later(r.locator, r.previous,
          R!Times(Mixed(r.locator, s, r.degree, n), R!Reciprocal(r.last)), r.distance)

Nothing == [i \in 0..Parity |-> IF i = 0 THEN {0} ELSE {}]
Start == [locator |-> Nothing, previous |-> Nothing, last |-> {0}, degree |-> 0, distance |-> 1]

\* What the errors at these places weigh in the first syndrome.
Weighted(e, S) == [i \in S |-> R!Times(e[i], R!Alpha(R!Place(i) * FirstRoot))]

\* The errors of a received word, at the places where it differs from a codeword.
Wrong(word, c) == [i \in Changed(word, c) |-> R!Plus(word[i], c[i])]
-----------------------------------------------------------------------------
(* Encoding *)

\* A polynomial is the sum of two, one of them times a symbol.
Summed(r, p, a, q, n) == \A k \in 1..n : r[k] = R!Plus(p[k], R!Times(a, q[k]))

\* A polynomial is zero at the first k roots, and its leading coefficient is one.
Monic(g, k) ==
    /\ g \in [1..(k + 1) -> R!Symbols] /\ g[1] = {0}
    /\ \A j \in 0..(k - 1) : R!Value(g, R!Root(j)) = {}

\* A polynomial that stands in a longer one, zeros before and after it.
Moved(g, i, k, n) == [j \in 1..n |-> IF i <= j /\ j <= i + k THEN g[j - i + 1] ELSE {}]

\* A word whose first i symbols are zero, and the i-th step of the division.
After(p, i) == [k \in 1..R!CodewordSymbols |-> IF k <= i THEN {} ELSE p[k]]

Division(p, i) == R!Written(R!Divide(p, R!Written(R!Generator), i))

\* The data with room for the parity, and what the divisions leave of it.
Padded(data) == data \o [i \in 1..Parity |-> {}]

Remaining(data) ==
    R!Fold(LAMBDA p, i : R!Written(R!Divide(p, R!Written(R!Generator), i)), Padded(data),
           [i \in 1..R!DataSymbols |-> i])

LaneData == [1..R!DataSymbols -> R!Symbols]

\* The symbols of a block of k symbols in each lane, and those of each lane.
Blocks(k) == [1..(Lanes * k) -> R!Symbols]

LaneSets(k) == [1..Lanes -> [1..k -> R!Symbols]]
Data == Blocks(R!DataSymbols)
Received == Blocks(R!CodewordSymbols)

\* The data that a word of a lane begins with.
Prefix(w) == SubSeq(w, 1, R!DataSymbols)

\* What `correct` may return for a lane.
Prefixes(received, l) == {Prefix(w) : w \in R!Corrections(R!Lane(received, l))}
-----------------------------------------------------------------------------
(* The trials *)

Framing == {fs \in Seq(Seq(H!Bits)) : fs # <<>> /\ \A k \in 1..Len(fs) : Sendable(fs[k])}
Gaps == {g \in Seq(H!Bits) : At(g, 0, H!Flag) /\ At(g, Len(g) - H!FlagLength, H!Flag)}

\* What is sent in a trial is what the decoders are made for.
TrialOK ==
    /\ trial.kind = "levels" => trial \in [kind : {"levels"}, levels : Seq(H!Bits)]
    /\ trial.kind = "soft" => trial \in [kind : {"soft"}, soft : Pairs]
    /\ trial.kind = "sending" => trial.noise \in Seq(H!Bits) /\ trial.frames \in Framing
    /\ trial.kind = "frames" =>
          /\ Sending(trial)
          /\ trial.initial \in H!Bits /\ trial.history \in [1..TapB -> H!Bits]
          /\ trial.g3ruh \in BOOLEAN /\ trial.g3ruh \in trial.modes
    /\ trial.kind \in {"sent", "hit", "block"} => trial.data \in Data /\ trial.block \in Received
=============================================================================
