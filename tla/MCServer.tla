------------------------------ MODULE MCServer ------------------------------
(* Parameters of the runs of Server. *)
EXTENDS Server, TLC

CONSTANTS c1, c2, c3

Clients2 == {c1, c2}
Clients3 == {c1, c2, c3}

NoSong     == <<>>
\* tracks without events: the hand-over alone
SilentSong == [long |-> << <<>>, <<>>, <<>> >>]
\* two tracks, an event due at once and one later
ShortSong  == [short |-> << <<0, 1>>, <<1>> >>]

\* a song of two tracks with an event each, and one of a single track: the
\* second song finds the timer where the first one left it
TwoSongs   == [short |-> << <<0>>, <<1>> >>, solo |-> << <<1>> >>]

FirstMax == {0}

ClientSymmetry == Permutations(Clients3)
=============================================================================
