------------------------------- MODULE Roster -------------------------------
(***************************************************************************)
(* What the server promises about the tracks of a song: who owns a track   *)
(* since the song was parsed, who holds it now, and what a failure and a   *)
(* return do to that.  Which active client takes a failed one's track is   *)
(* left open; module Server chooses the one with the fewest.               *)
(***************************************************************************)
EXTENDS Integers

CONSTANTS
    Client,
    Track

VARIABLES
    joined,     \* clients that ever joined: the server forgets none
    up,         \* those of them the server counts on
    full,       \* those who take no more tracks of clients that fail
    owns,       \* client -> tracks dealt to it (client_to_track)
    holds       \* client -> tracks sent to it while it is up (tracks)

vars == <<joined, up, full, owns, holds>>

TypeOK ==
    /\ joined \subseteq Client
    /\ up \subseteq joined
    /\ full \subseteq joined
    /\ owns \in [Client -> SUBSET Track]
    /\ holds \in [Client -> SUBSET Track]

Init ==
    /\ joined = {}
    /\ up = {}
    /\ full = {}
    /\ owns = [c \in Client |-> {}]
    /\ holds = [c \in Client |-> {}]

(* A mistake: a client that joins is marked up and not kept.               *)
JoinUnkept(c) ==
    /\ c \in Client \ joined
    /\ up' = up \cup {c}
    /\ UNCHANGED <<joined, full, owns, holds>>

Join(c) ==
    /\ c \in Client \ joined
    /\ joined' = joined \cup {c}
    /\ up' = up \cup {c}
    /\ UNCHANGED <<full, owns, holds>>

(* The tracks of the one song are dealt out, also to clients that are not  *)
(* up.                                                                     *)
Deal(dealt) ==
    /\ \A c \in Client : owns[c] = {}
    /\ \E owner \in [dealt -> joined] :
          owns' = [c \in Client |-> {t \in dealt : owner[t] = c}]
    /\ holds' = owns'
    /\ full' \in SUBSET joined
    /\ UNCHANGED <<joined, up>>

(* A mistake: nobody takes what a failed client holds.                     *)
FailAlone(c) ==
    /\ c \in up
    /\ up' = up \ {c}
    /\ UNCHANGED <<joined, full, owns, holds>>

(* A client that fails keeps what it holds, and every one of its tracks    *)
(* goes to one of the others that are up, if there are any that are not    *)
(* full; to several when the failing client has taken it over more than    *)
(* once.                                                                   *)
Fail(c) ==
    /\ c \in up
    /\ up' = up \ {c}
    /\ IF up' \subseteq full
       THEN UNCHANGED holds
       ELSE \E takers \in [holds[c] -> (SUBSET up') \ {{}}] :
               holds' = [d \in Client |-> holds[d] \cup {t \in holds[c] : d \in takers[t]}]
    /\ full' \in SUBSET joined
    /\ UNCHANGED <<joined, owns>>

(* Mistakes: a client that returns takes nothing, or from itself too.      *)
ReturnEmpty(c) ==
    /\ c \in joined \ up
    /\ up' = up \cup {c}
    /\ UNCHANGED <<joined, full, owns, holds>>
ReturnForAll(c) ==
    /\ c \in joined \ up
    /\ up' = up \cup {c}
    /\ holds' = [d \in Client |-> holds[d] \ owns[c]]
    /\ UNCHANGED <<joined, full, owns>>

(* A client that returns takes what it owns from all the others.           *)
Return(c) ==
    /\ c \in joined \ up
    /\ up' = up \cup {c}
    /\ holds' = [d \in Client |-> IF d = c THEN holds[d] ELSE holds[d] \ owns[c]]
    /\ full' \in SUBSET joined
    /\ UNCHANGED <<joined, owns>>

Next ==
    \/ \E c \in Client : Join(c) \/ Fail(c) \/ Return(c)
    \/ \E dealt \in SUBSET Track : Deal(dealt)

Spec == Init /\ [][Next]_vars

----------------------------------------------------------------------------
Held(t) == \E c \in up : t \in holds[c]

(* Nothing is ever owned twice, and an owner holds its own through every   *)
(* failure and return, its own and the others'.                            *)
OwnersHold ==
    /\ \A c, d \in Client : c # d => owns[c] \cap owns[d] = {}
    /\ \A c \in Client : owns[c] \subseteq holds[c]

(* A track stays held as long as anyone is up that can take it: failures   *)
(* hand it on, and a return takes only what the returning client plays     *)
(* itself.                                                                 *)
CoverageKept == [][up' \ full # {} => \A t \in Track : Held(t) => Held(t)']_vars

(* While the owner of a track is up nobody else holds it: a track has two  *)
(* holders only while its owner is down.                                   *)
OwnerAlone ==
    \A c \in up : \A d \in Client \ {c} : owns[c] \cap holds[d] = {}
=============================================================================
