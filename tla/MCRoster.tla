------------------------------ MODULE MCRoster ------------------------------
(* Parameters of the run of Roster. *)
EXTENDS Roster

CONSTANTS c1, c2, c3, t1, t2

Clients == {c1, c2, c3}
Tracks  == {t1, t2}
=============================================================================
