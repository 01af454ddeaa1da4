----------------------------- MODULE MCPlayback -----------------------------
(* Parameters of the run of Playback. *)
EXTENDS Playback

CONSTANTS c1, c2

TwoClients == {c1, c2}
\* two notes that are past if the song begins at 12 and a later one,
\* against a note at the last of these moments
TwoTracks  == c1 :> <<0, 1, 12>> @@ c2 :> <<12>>
=============================================================================
