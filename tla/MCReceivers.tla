---------------------------- MODULE MCReceivers ----------------------------
(* Instances of the two receive chains for TLC: soft decisions to bits (Viterbi),
   blocks to data (ReedSolomon) and frames to packets (AosPackets) of a weather
   satellite; levels to frames (HdlcFrames) of an amateur one. Only AosPackets keeps
   state. The pure steps are tried once for every trial: something that was sent, and
   what the channel made of it. *)
EXTENDS AosPackets

\* What an intact frame is here, and what the encoder's outputs are.
EvenParity(f) == Cardinality({i \in DOMAIN f : f[i] = 1}) % 2 = 0
Outputs == <<{0, 1, 2}, {0, 2}>>

CONSTANTS TapA, TapB, Ones, ByteBits, MinBytes, MaxBytes, Intact(_)    \* of HdlcFrames
CONSTANTS High, Generators                                             \* of Viterbi
CONSTANTS Degree, Reduction, FirstRoot, PrimitiveStep,
          Parity, Shortening, Lanes                                    \* of ReedSolomon

H == INSTANCE HdlcFrames
V == INSTANCE Viterbi
R == INSTANCE ReedSolomon

ASSUME ReceiversAssumption == H!HdlcAssumption /\ R!CodeAssumption /\ V!ViterbiAssumption

VARIABLE trial

NoTrial == [kind |-> "none"]

Words(S, lengths) == UNION {[1..n -> S] : n \in lengths}
-----------------------------------------------------------------------------
(* Levels: any thirteen, and those of one frame or two. *)

Frame == {f \in Words(H!Bits, {n * ByteBits : n \in MinBytes..MaxBytes}) : Intact(f)}
Second == {f \in {<<0, 0, 1, 1>>, <<1, 1>>} : f \in Frame}
Noise == Words(H!Bits, 0..2) \cup {<<0, 1, 1, 1>>, <<1, 1, 0, 1, 1, 1>>, <<1, 0, 1, 1, 0, 0, 1, 0>>}

\* A gap is a flag, two, two that share a zero, or flags with idle bits between.
Between == {H!Flag, H!Flag \o H!Flag, H!Flag \o Tail(H!Flag), H!Flag \o <<1, 1, 1, 1>> \o H!Flag}

Silence == [i \in 1..TapB |-> 0]
Chatter == [i \in 1..TapB |-> IF i \in {1, 3, 4, 6} THEN 1 ELSE 0]
Scramblers == {<<FALSE, Silence>>, <<TRUE, Silence>>, <<TRUE, Chatter>>}

LevelTrials ==
    \/ /\ trial = NoTrial
       /\ \E l \in [1..5 -> H!Bits] : trial' = [kind |-> "levels", levels |-> l]
    \/ /\ trial.kind = "levels" /\ Len(trial.levels) = 5
       /\ \E l \in [1..8 -> H!Bits] : trial' = [trial EXCEPT !.levels = @ \o l]

FrameTrials ==
    \/ /\ trial = NoTrial
       /\ \E n \in Noise, f \in {<<f>> : f \in Frame} \cup Frame \X Second :
              trial' = [kind |-> "sending", noise |-> n, frames |-> f]
    \/ /\ trial.kind = "sending"
       /\ \E gap \in Between, initial \in H!Bits, s \in Scramblers : \E modes \in {{s[1]}, BOOLEAN} :
              trial' = [kind |-> "frames", noise |-> trial.noise, frames |-> trial.frames,
                        gap |-> gap, initial |-> initial, g3ruh |-> s[1],
                        history |-> s[2], modes |-> modes]
-----------------------------------------------------------------------------
(* Blocks: errors at any two places of one lane, at a third, and in the other lane. *)

\* What a block may carry, and a block with an error at one place.
BlockData == [1..(Lanes * R!DataSymbols) -> R!Symbols]
Hit(block, at, error) == [block EXCEPT ![at] = R!Plus(@, error)]

BlockTrials ==
    \/ /\ trial = NoTrial
       /\ \E d \in {<<{}, {}, {}, {}>>, <<{0, 1}, {2}, {}, {1}>>} \cap BlockData :
              trial' = [kind |-> "sent", data |-> d, block |-> R!Encode(d)]
    \/ /\ trial.kind = "sent"
       /\ \E i, j \in {1, 3, 5, 7, 9, 11}, k \in {2, 5, 12}, third \in {{}, {1}} \cap R!Symbols :
              /\ i < j /\ j # k /\ k # i
              /\ trial' = [kind |-> "hit", data |-> trial.data, at |-> <<i, j>>,
                           block |-> Hit(trial.block, k, third)]
    \/ /\ trial.kind = "hit"
       /\ \E a \in {{}, {0}, {0, 2}} \cap R!Symbols, b \in R!Symbols :
              trial' = [kind |-> "block", data |-> trial.data,
                        block |-> Hit(Hit(trial.block, trial.at[1], a), trial.at[2], b)]
-----------------------------------------------------------------------------
(* Soft decisions: up to three pairs of three values, up to five of two. *)

SoftTrials ==
    /\ trial = NoTrial \/ trial.kind = "soft"
    /\ LET soft == IF trial = NoTrial THEN <<>> ELSE trial.soft IN
       \E x, y \in IF Len(soft) < 3 THEN {-2, 0, 1} ELSE {-1, 1} :
           /\ Len(soft) < 5
           /\ Len(soft) >= 3 => \A i \in DOMAIN soft : soft[i][1] # 0 /\ soft[i][2] # 0
           /\ trial' = [kind |-> "soft", soft |-> Append(soft, <<x, y>>)]
-----------------------------------------------------------------------------
\* A trial is made beside a receiver that has not read anything yet.
Idle == sent = Transmission({0, Total}, [a \in {0} |-> "data"],
                            [f \in Numbers |-> "packets"], CHOOSE c \in Firsts : TRUE)
        /\ reads = 0 /\ mode = "free"

ReceiversInit == Init /\ trial = NoTrial
ReceiversNext ==
    \/ trial = NoTrial /\ Next /\ UNCHANGED trial
    \/ /\ Idle /\ UNCHANGED vars
       /\ LevelTrials \/ FrameTrials \/ BlockTrials \/ SoftTrials

ReceiversSpec == ReceiversInit /\ [][ReceiversNext]_<<vars, trial>>

FramesAreFound == trial.kind = "frames" => H!FramesAreFound(trial)
DecodersAgree ==
    trial.kind = "levels" => \A g3ruh \in BOOLEAN : H!DecodersAgree(trial.levels, g3ruh)
ErrorsAreCorrected == trial.kind = "block" => R!ErrorsAreCorrected(trial.data, trial.block)
PathIsMostLikely == trial.kind = "soft" => V!PathIsMostLikely(trial.soft)
=============================================================================
