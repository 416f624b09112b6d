------------------------------ MODULE Viterbi ------------------------------
(* viterbi_k7 of src/rust/convolutional.rs: the bits that a convolutional encoder
   was fed with, from soft decisions of its two outputs, without knowing the state it
   began in or ended in. A state is the encoder's last six bits, the latest the lowest;
   positive soft values mean one. Soft values are integers, since a common factor, by
   which the code divides, changes no comparison. *)
EXTENDS Integers, SequencesExt, StepFold

CONSTANTS
    High,        \* the oldest bit of a state (32)
    Generators   \* of the two outputs: the bits of the register that they add up

States == 0..(2 * High - 1)
Bit(n, i) == (n \div 2^i) % 2

ViterbiAssumption ==
    /\ High \in Nat \ {0}
    /\ Generators \in Seq(SUBSET Nat) /\ Len(Generators) = 2

\* What the encoder sends when its register is filled like this.
Sign(register, g) ==
    IF Cardinality({i \in Generators[g] : Bit(register, i) = 1}) % 2 = 1 THEN 1 ELSE -1

Agreement(register, pair) == pair[1] * Sign(register, 1) + pair[2] * Sign(register, 2)

\* The two states before a state: the bit that left the register was 0 or 1.
Previous(state, bit) == state \div 2 + bit * High
Register(state, bit) == state + bit * 2 * High

Path(metric, pair, state, bit) ==
    metric[Previous(state, bit)] + Agreement(Register(state, bit), pair)

\* The better of two paths into a state.
Choice_First(metric, pair, state) == 0
Choice(metric, pair, state) ==
    IF Path(metric, pair, state, 1) > Path(metric, pair, state, 0) THEN 1 ELSE 0

\* The metrics after some pairs. The code takes the best from all of them after each
\* pair, which changes no comparison either.
Metric(soft) ==
    Fold(LAMBDA metric, pair :
             Evaluated([state \in States |->
                 Path(metric, pair, state, Choice(metric, pair, state))]),
         [state \in States |-> 0], soft)

Decision(soft, i, state) == Choice(Metric(SubSeq(soft, 1, i - 1)), soft[i], state)

\* The lowest of the best states at the end, and the way back from it.
Final(metric) ==
    CHOOSE s \in States : \A r \in States : metric[r] <= metric[s] /\ (r < s => metric[r] < metric[s])

Decode(soft) ==
    LET state[i \in 0..Len(soft)] ==
            IF i = Len(soft) THEN Final(Metric(soft))
            ELSE Previous(state[i + 1], Decision(soft, i + 1, state[i + 1]))
    IN Written([i \in DOMAIN soft |-> state[i] % 2])
-----------------------------------------------------------------------------
(* The encoder, for reference *)

\* The register after each bit, begun in a state.
Registers(bits, state) ==
    LET register[i \in 0..Len(bits)] ==
            IF i = 0 THEN state ELSE (register[i - 1] * 2 + bits[i]) % (4 * High)
    IN register

Likelihood(bits, state, soft) ==
    LET register == Registers(bits, state)
    IN Fold(LAMBDA sum, i : sum + Agreement(register[i], soft[i]), 0,
                [i \in DOMAIN soft |-> i])

Begun(bits, soft) == {Likelihood(bits, state, soft) : state \in States}

\* The decoded bits are among the likeliest: from no state could an encoder have
\* sent something that agrees better with the soft decisions, although ties, both of
\* paths and of final states, are broken at every step.
PathIsMostLikely(soft) ==
    LET decoded == Begun(Decode(soft), soft) IN
    \A bits \in [DOMAIN soft -> {0, 1}] :
        \A other \in Begun(bits, soft) : \E best \in decoded : other <= best
=============================================================================
