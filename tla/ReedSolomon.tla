---------------------------- MODULE ReedSolomon ----------------------------
(* The Reed-Solomon codec of src/rust/fec_rs.rs: systematic encoder, and a decoder
   that finds the error locator by Berlekamp-Massey, solves for the magnitudes, and
   verifies what it has corrected. Symbols are interleaved over Lanes codewords.

   A symbol of GF(2^Degree) is the set of powers of x in it, so that addition is the
   symmetric difference. The dual basis renames symbols only and is left out. *)
EXTENDS Integers, SequencesExt, StepFold

CONSTANTS
    Degree,       \* 8
    Reduction,    \* the field polynomial without its leading power
    FirstRoot, PrimitiveStep,
    Parity,       \* parity symbols of a codeword
    Shortening,   \* leading symbols that are zero and not sent
    Lanes         \* codewords that are interleaved

Order == 2^Degree - 1
Symbols == SUBSET (0..(Degree - 1))
CodewordSymbols == Order - Shortening
DataSymbols == CodewordSymbols - Parity
Radius == Parity \div 2

-----------------------------------------------------------------------------
(* The field *)

Plus(a, b) == (a \ b) \cup (b \ a)
TimesX(a) ==
    LET shifted == {i + 1 : i \in a}
    IN IF Degree \in shifted THEN Plus(shifted \ {Degree}, Reduction) ELSE shifted

\* The sum of the f(i).
Total(S, f(_)) == {p \in 0..(Degree - 1) : Cardinality({i \in S : p \in f(i)}) % 2 = 1}

\* a * b: the sum of the x^i * a for the powers x^i in b. The code reads tables of
\* logarithms, which a primitive polynomial gives every symbol but zero.
Times(a, b) ==
    LET shifted[i \in 0..(Degree - 1)] == IF i = 0 THEN a ELSE TimesX(shifted[i - 1])
    IN Total(b, LAMBDA i : shifted[i])

Alpha(n) == Fold(LAMBDA a, i : TimesX(a), {0}, [i \in 1..(n % Order) |-> i])
Reciprocal(a) == CHOOSE b \in Symbols : Times(a, b) = {0}

\* A polynomial's value, the leading coefficient first.
Value(p, x) == Fold(LAMBDA acc, c : Plus(Times(acc, x), c), {}, p)

Root(j) == Alpha((FirstRoot + j) * PrimitiveStep)
-----------------------------------------------------------------------------
(* What `validate` and `Gf::new` ask for *)

\* The powers of x are all the symbols but zero, each once.
Primitive ==
    /\ \A i \in 0..(Order - 1) : Alpha(i) # {}
    /\ \A i, j \in 0..(Order - 1) : Alpha(i) = Alpha(j) => i = j
    /\ TimesX(Alpha(Order - 1)) = {0}

Coprime(a, b) == \A d \in 2..b : a % d # 0 \/ b % d # 0

CodeAssumption ==
    /\ Degree \in Nat \ {0}
    /\ Reduction \in Symbols /\ Primitive
    /\ FirstRoot \in 0..(Order - 1)
    /\ PrimitiveStep \in 1..(Order - 1) /\ Coprime(PrimitiveStep, Order)
    /\ Parity \in Nat \ {0} /\ Parity % 2 = 0
    /\ Shortening \in Nat /\ DataSymbols > 0
    /\ Lanes \in Nat \ {0}
-----------------------------------------------------------------------------
(* Encoding *)

TimesRoot(g, x) ==
    [i \in 1..(Len(g) + 1) |->
        Plus(IF i <= Len(g) THEN g[i] ELSE {},
             IF i > 1 THEN Times(g[i - 1], x) ELSE {})]

Generator == Fold(LAMBDA g, j : TimesRoot(g, Root(j)), <<{0}>>,
                      [j \in 1..Parity |-> j - 1])

\* One step of the division: the i-th coefficient is the quotient's.
Divide(p, generator, i) ==
    [k \in DOMAIN p |->
        IF i < k /\ k < i + Len(generator) THEN Plus(p[k], Times(p[i], generator[k - i + 1]))
                                           ELSE p[k]]

\* The data, followed by the remainder.
EncodeLane(data) ==
    LET generator == Written(Generator)
        padded == data \o [i \in 1..Parity |-> {}]
        divided == Fold(LAMBDA p, i : Written(Divide(p, generator, i)), padded,
                            [i \in 1..DataSymbols |-> i])
    IN data \o SubSeq(divided, DataSymbols + 1, CodewordSymbols)
-----------------------------------------------------------------------------
(* Decoding *)

Syndromes(word) == Evaluated([j \in 0..(Parity - 1) |-> Value(word, Root(j))])
IsCodeword(word) == \A j \in 0..(Parity - 1) : Value(word, Root(j)) = {}

\* Berlekamp-Massey, one syndrome more.
Discrepancy(s, syndrome, step) ==
    Plus(syndrome[step],
         Total(1..s.degree, LAMBDA i : Times(s.locator[i], syndrome[step - i])))

Adjusted(s, factor) ==
    Evaluated([i \in 0..Parity |->
        IF i < s.distance THEN s.locator[i]
        ELSE Plus(s.locator[i], Times(factor, s.previous[i - s.distance]))])

Locate_KeepsDistance(s, syndrome, step) ==
    LET d == Discrepancy(s, syndrome, step)
        adjusted == Adjusted(s, Times(d, Reciprocal(s.last)))
    IN CASE d = {} -> s
         [] d # {} /\ 2 * s.degree <= step ->
               [locator |-> adjusted, previous |-> s.locator, last |-> d,
                degree |-> step + 1 - s.degree, distance |-> 1]
         [] OTHER -> [s EXCEPT !.locator = adjusted, !.distance = @ + 1]
Locate(s, syndrome, step) ==
    LET d == Discrepancy(s, syndrome, step)
        adjusted == Adjusted(s, Times(d, Reciprocal(s.last)))
    IN CASE d = {} -> [s EXCEPT !.distance = @ + 1]
         [] d # {} /\ 2 * s.degree <= step ->
               [locator |-> adjusted, previous |-> s.locator, last |-> d,
                degree |-> step + 1 - s.degree, distance |-> 1]
         [] OTHER -> [s EXCEPT !.locator = adjusted, !.distance = @ + 1]

Located(syndrome) ==
    LET one == [i \in 0..Parity |-> IF i = 0 THEN {0} ELSE {}]
        start == [locator |-> one, previous |-> one, last |-> {0},
                  degree |-> 0, distance |-> 1]
    IN Fold(LAMBDA s, step : Locate(s, syndrome, step), start,
                [i \in 1..Parity |-> i - 1])

\* The power of alpha that a symbol's place stands for.
Place(i) == (CodewordSymbols - i) * PrimitiveStep

IsRoot(s, i) ==
    {} = Value([k \in 1..(s.degree + 1) |-> s.locator[s.degree + 1 - k]],
               Alpha(Order - (Place(i) % Order)))
Positions(s) == {i \in 1..CodewordSymbols : IsRoot(s, i)}

\* The errors at these places that explain as many syndromes as there are places:
\* one solution of a linear system, or an error.
Explains(errors, syndrome, S) ==
    \A j \in 0..(Cardinality(S) - 1) :
        syndrome[j] = Total(S, LAMBDA i :
            Times(errors[i], Alpha((FirstRoot + j) * PrimitiveStep * (CodewordSymbols - i))))

Solutions(syndrome, S) == {e \in [S -> Symbols] : Explains(e, syndrome, S)}

Repaired(word, errors) ==
    Written([i \in DOMAIN word |->
        IF i \in DOMAIN errors THEN Plus(word[i], errors[i]) ELSE word[i]])

\* What `correct` leaves of a word: the words it may return, at most one.
Verified(word) == IsCodeword(word)

Corrections(word) ==
    LET syndrome == Syndromes(word)
        s == Located(syndrome)
        S == Positions(s)
        solutions == Solutions(syndrome, S)
        repaired == {Repaired(word, e) : e \in {x \in solutions : \A i \in S : x[i] # {}}}
    IN IF \A j \in DOMAIN syndrome : syndrome[j] = {} THEN {word}
       ELSE IF s.degree \in 1..Radius /\ Cardinality(S) = s.degree /\ Cardinality(solutions) = 1
            THEN {w \in repaired : Verified(w)} ELSE {}
-----------------------------------------------------------------------------
(* Interleaving: lane l has the symbols l, l + Lanes, and so on. *)

Lane(bytes, l) ==
    Written([i \in 1..(Len(bytes) \div Lanes) |-> bytes[(i - 1) * Lanes + l]])
Interleaved(lanes) ==
    Written([i \in 1..(Lanes * Len(lanes[1])) |-> lanes[((i - 1) % Lanes) + 1][(i - 1) \div Lanes + 1]])

Encode(bytes) == Interleaved(Written([l \in 1..Lanes |-> EncodeLane(Lane(bytes, l))]))

\* One lane that is not corrected is an error of the whole; no set, no result.
Decode(bytes) ==
    LET of(l) == {SubSeq(w, 1, DataSymbols) : w \in Corrections(Lane(bytes, l))}
    IN {Interleaved(lanes) : lanes \in
           {f \in [1..Lanes -> UNION {of(l) : l \in 1..Lanes}] : \A l \in 1..Lanes : f[l] \in of(l)}}
-----------------------------------------------------------------------------
(* What the decoder promises *)

Errors(sent, got) == {i \in DOMAIN sent : sent[i] # got[i]}
Within(sent, got) ==
    \A l \in 1..Lanes : Cardinality(Errors(Lane(sent, l), Lane(got, l))) <= Radius

\* A block with at most Radius errors in each lane, so also with a burst of up to
\* Lanes * Radius symbols, is decoded to what was sent. One with more is refused, or
\* taken for data whose codeword is within the radius of what was received: nothing
\* is returned that the received symbols do not speak for.
ErrorsAreCorrected(data, received) ==
    LET decoded == Decode(received) IN
    /\ Within(Encode(data), received) => decoded = {data}
    /\ \A d \in decoded : Within(Encode(d), received)
=============================================================================
