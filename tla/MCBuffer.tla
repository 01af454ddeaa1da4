------------------------------ MODULE MCBuffer ------------------------------
(* Parameters of the runs of Buffer. *)
EXTENDS Buffer

CONSTANTS f, g

\* the disk refuses nothing, or everything
AllOrNothing == {{}, Addr}

\* the cache layer is asked for one page only, as often as one likes
OneVolatile == {<<f, 0>>}

\* bound: at a time either the cache layer is in use, or f's page has been
\* made anew, or the disk refuses pages, or a file is gone
OneAtATime ==
    /\ renewed \subseteq {<<f, 0>>}
    /\ Cardinality({k \in 1 .. 4 : \/ k = 1 /\ cache # InitLayer(nCacheBlocks)
                                   \/ k = 2 /\ renewed # {}
                                   \/ k = 3 /\ refused # {}
                                   \/ k = 4 /\ files # File}) <= 1
=============================================================================
