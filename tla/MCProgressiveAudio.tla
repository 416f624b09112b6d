------------------------- MODULE MCProgressiveAudio -------------------------
(* Instances of ProgressiveAudio for TLC. *)
EXTENDS ProgressiveAudio

\* A header, and two samples or three of two values. OGG files have the magic in
\* their header; conversion exchanges the values, so that a mixture shows.
MCBlocks == {"OggS", "RIFF", "a", "b"}

MCIsOgg(c) == c # <<>> /\ c[1] = "OggS"

MCConvert(c) ==
    [k \in DOMAIN c |-> CASE c[k] = "OggS" -> "RIFF"
                          [] c[k] = "a" -> "b"
                          [] c[k] = "b" -> "a"
                          [] OTHER -> c[k]]

MCSamples(c) ==
    IF c # <<>> /\ c[1] = "RIFF" /\ \A k \in 2..Len(c) : c[k] \in {"a", "b"}
    THEN Len(c) - 1 ELSE 0

MCVersions ==
    {<<"OggS", "a", "a">>, <<"OggS", "b", "a">>, <<"RIFF", "a", "a", "b", "b">>, <<"RIFF", "b", "a">>}
=============================================================================
