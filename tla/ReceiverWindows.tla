--------------------------- MODULE ReceiverWindows ---------------------------
(* How a recording is cut into overlapping analysis windows: the loop of
   window_bounds (src/rust/receiver.rs), one iteration per step. Samples are counted
   from 0; a tile is the samples from left up to but not including right. *)
EXTENDS Integers, FiniteSets

CONSTANTS
    Width,    \* samples of a window
    Stride,   \* from one window to the next
    Shortest  \* fewest samples that can be analysed

\* window_bounds refuses a hop greater than the window, and narrow windows.
ASSUME WindowAssumption ==
    /\ Width \in Nat /\ Stride \in Nat /\ Shortest \in Nat
    /\ 0 < Stride /\ Stride <= Width
    /\ 0 < Shortest /\ Shortest <= Width

VARIABLES
    offset,  \* where the next tile starts, or -1 when the loop is over
    tiles    \* those found so far

tiling == <<offset, tiles>>

Tiles == [left : Nat, right : Nat]

TilingOK == offset \in Int /\ offset >= -1 /\ tiles \subseteq Tiles

\* The end of a tile is cut at the end of the recording.
End(samples) == IF offset + Width < samples THEN offset + Width ELSE samples

\* The loop goes on while something is left that is long enough.
Continues_Full(samples) == 0 <= offset /\ offset + Width <= samples
Continues(samples) == 0 <= offset /\ offset < samples /\ End(samples) - offset >= Shortest

AddTile(samples) ==
    /\ Continues(samples)
    /\ tiles' = tiles \cup {[left |-> offset, right |-> End(samples)]}
    /\ offset' = IF End(samples) >= samples THEN -1 ELSE offset + Stride

\* "No complete eligible analysis window" is an error: there must be a tile.
Tiled(samples) == ~Continues(samples) /\ tiles # {}
-----------------------------------------------------------------------------
Covered(x) == \E t \in tiles : t.left <= x /\ x < t.right

\* What a tiling that is over may leave out: less than a shortest window, and
\* only as far as that is more than two neighbours share.
Loss == Shortest - 1 - (Width - Stride)

\* No sample lies between two tiles, every tile can be analysed, and at the end
\* only the tail is left out: nothing if neighbours share that much.
TilesCover(samples) ==
    /\ \A t \in tiles : /\ t.right <= samples
                        /\ Shortest <= t.right - t.left
                        /\ t.right - t.left <= Width
    /\ \A t \in tiles : \A x \in 0..(t.right - 1) : Covered(x)
    /\ Tiled(samples) =>
          \A x \in 0..(samples - 1) : Covered(x) \/ x >= samples - Loss
=============================================================================
