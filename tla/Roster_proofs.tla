--------------------------- MODULE Roster_proofs ---------------------------
(***************************************************************************)
(* Proofs about Roster, for any number of clients and tracks and any       *)
(* sequence of failures and returns.                                       *)
(***************************************************************************)
EXTENDS Roster, TLAPS

(* A client that never joined owns nothing: tracks are dealt to clients    *)
(* that did.                                                               *)
OwnersJoined == \A c \in Client : owns[c] # {} => c \in joined

(* What anybody holds was dealt to somebody.                               *)
HeldIsOwned == \A c \in Client : \A t \in holds[c] : \E d \in Client : t \in owns[d]

IInv == TypeOK /\ OwnersJoined /\ OwnersHold /\ OwnerAlone /\ HeldIsOwned

LEMMA InitEstablishes == Init => IInv
BY DEF Init, IInv, TypeOK, OwnersJoined, OwnersHold, OwnerAlone, HeldIsOwned

LEMMA JoinPreserves ==
    ASSUME IInv, NEW c \in Client, Join(c)
    PROVE  IInv'
BY DEF Join, IInv, TypeOK, OwnersJoined, OwnersHold, OwnerAlone, HeldIsOwned

(* The dealt tracks are held by their owners and by nobody else.           *)
LEMMA DealPreserves ==
    ASSUME IInv, NEW dealt \in SUBSET Track, Deal(dealt)
    PROVE  IInv'
<1>1. PICK owner \in [dealt -> joined] :
          owns' = [c \in Client |-> {t \in dealt : owner[t] = c}]
    BY DEF Deal
<1>2. holds' = owns' /\ full' \subseteq joined /\ UNCHANGED <<joined, up>>
    BY DEF Deal
<1>3. TypeOK'
    BY <1>1, <1>2 DEF IInv, TypeOK
<1>4. OwnersJoined'
    BY <1>1, <1>2 DEF OwnersJoined
<1>5. \A c, d \in Client : c # d => owns'[c] \cap owns'[d] = {}
    BY <1>1
<1>6. OwnersHold' /\ OwnerAlone'
    BY <1>2, <1>3, <1>5 DEF TypeOK, OwnersHold, OwnerAlone
<1>7. HeldIsOwned'
    BY <1>2, <1>3 DEF TypeOK, HeldIsOwned
<1> QED BY <1>3, <1>4, <1>6, <1>7 DEF IInv

(* The takers get tracks the failed client held; what another client that  *)
(* is up owns was not among them.                                          *)
LEMMA FailPreserves ==
    ASSUME IInv, NEW c \in Client, Fail(c)
    PROVE  IInv'
<1> USE DEF IInv
<1>1. up' = up \ {c} /\ full' \subseteq joined /\ UNCHANGED <<joined, owns>>
    BY DEF Fail
<1>2. /\ holds' \in [Client -> SUBSET Track]
      /\ \A d \in Client : holds[d] \subseteq holds'[d] /\ holds'[d] \subseteq holds[d] \cup holds[c]
    <2>1. CASE up' \subseteq full
        BY <2>1 DEF Fail, TypeOK
    <2>2. CASE ~(up' \subseteq full)
        <3>1. PICK takers \in [holds[c] -> (SUBSET up') \ {{}}] :
                  holds' = [d \in Client |-> holds[d] \cup {t \in holds[c] : d \in takers[t]}]
            BY <2>2 DEF Fail
        <3> QED BY <3>1 DEF TypeOK
    <2> QED BY <2>1, <2>2
<1>3. TypeOK'
    BY <1>1, <1>2 DEF TypeOK
<1>4. OwnersJoined' /\ OwnersHold'
    BY <1>1, <1>2 DEF OwnersJoined, OwnersHold
<1>5. OwnerAlone'
    <2> SUFFICES ASSUME NEW e \in up', NEW d \in Client \ {e}
                 PROVE  owns[e] \cap holds'[d] = {}
        BY <1>1 DEF OwnerAlone
    <2>1. e \in up /\ e # c
        BY <1>1
    <2>2. owns[e] \cap holds[d] = {} /\ owns[e] \cap holds[c] = {}
        BY <2>1 DEF OwnerAlone
    <2> QED BY <1>2, <2>2
<1>6. HeldIsOwned'
    BY <1>1, <1>2 DEF HeldIsOwned
<1> QED BY <1>3, <1>4, <1>5, <1>6

(* The returning client takes only what it owns, so every other owner      *)
(* keeps its own.                                                          *)
LEMMA ReturnPreserves ==
    ASSUME IInv, NEW c \in Client, Return(c)
    PROVE  IInv'
<1> USE DEF IInv
<1>1. /\ up' = up \cup {c} /\ c \in joined /\ full' \subseteq joined /\ UNCHANGED <<joined, owns>>
      /\ holds' = [d \in Client |-> IF d = c THEN holds[d] ELSE holds[d] \ owns[c]]
    BY DEF Return
<1>2. TypeOK'
    BY <1>1 DEF TypeOK
<1>3. OwnersJoined' /\ OwnersHold'
    BY <1>1 DEF OwnersJoined, OwnersHold
<1>4. OwnerAlone'
    BY <1>1 DEF OwnerAlone
<1>5. HeldIsOwned'
    BY <1>1 DEF TypeOK, HeldIsOwned
<1> QED BY <1>2, <1>3, <1>4, <1>5

LEMMA StepPreserves ==
    ASSUME IInv, [Next]_vars
    PROVE  IInv'
<1>1. CASE Next
    BY <1>1, JoinPreserves, DealPreserves, FailPreserves, ReturnPreserves DEF Next
<1>2. CASE UNCHANGED vars
    BY <1>2 DEF vars, IInv, TypeOK, OwnersJoined, OwnersHold, OwnerAlone, HeldIsOwned
<1> QED BY <1>1, <1>2

(* No join, dealing, failure or return breaks the invariant. *)
THEOREM Invariant == Spec => []IInv
<1>1. IInv /\ [Next]_vars => IInv'
    BY StepPreserves
<1> QED BY InitEstablishes, <1>1, PTL DEF Spec

(* The types of the five variables: only joined clients are up or full.    *)
THEOREM TypeCorrect == Spec => []TypeOK
<1>1. IInv => TypeOK
    BY DEF IInv
<1> QED BY <1>1, Invariant, PTL

(* No failure and no return ever takes from a client what it was dealt,    *)
(* and nothing is dealt twice.                                             *)
THEOREM OwnersAlwaysHold == Spec => []OwnersHold
<1>1. IInv => OwnersHold
    BY DEF IInv
<1> QED BY <1>1, Invariant, PTL

(* As long as its owner is up a track is held by nobody else.              *)
THEOREM OwnerIsAlone == Spec => []OwnerAlone
<1>1. IInv => OwnerAlone
    BY DEF IInv
<1> QED BY <1>1, Invariant, PTL

(* What a step does to a track that is held: somebody holds it afterwards. *)
LEMMA StepCovers ==
    ASSUME IInv, [Next]_vars, up' \ full # {}, NEW t \in Track, Held(t)
    PROVE  Held(t)'
<1> USE DEF IInv
<1>1. PICK c \in up : t \in holds[c]
    BY DEF Held
<1>2. SUFFICES \E d \in up' : t \in holds'[d]
    BY DEF Held
<1>3. ASSUME NEW d \in Client, Join(d) PROVE \E e \in up' : t \in holds'[e]
    BY <1>1, <1>3 DEF Join
<1>4. ASSUME NEW dealt \in SUBSET Track, Deal(dealt) PROVE \E e \in up' : t \in holds'[e]
    BY <1>1, <1>4 DEF Deal, TypeOK, HeldIsOwned
<1>5. ASSUME NEW d \in Client, Fail(d) PROVE \E e \in up' : t \in holds'[e]
    <2>1. up' = up \ {d} /\ ~(up' \subseteq full)
        BY <1>5 DEF Fail
    <2>2. PICK takers \in [holds[d] -> (SUBSET up') \ {{}}] :
              holds' = [e \in Client |-> holds[e] \cup {u \in holds[d] : e \in takers[u]}]
        BY <1>5, <2>1 DEF Fail
    <2>3. CASE c # d
        BY <1>1, <2>1, <2>2, <2>3 DEF TypeOK
    <2>4. CASE c = d
        <3>1. takers[t] \in SUBSET up' /\ takers[t] # {}
            BY <1>1, <2>2, <2>4
        <3>2. PICK e \in up' : e \in takers[t]
            BY <3>1
        <3> QED BY <1>1, <2>1, <2>2, <2>4, <3>2 DEF TypeOK
    <2> QED BY <2>3, <2>4
<1>6. ASSUME NEW d \in Client, Return(d) PROVE \E e \in up' : t \in holds'[e]
    BY <1>1, <1>6 DEF Return, TypeOK, OwnersHold
<1>7. CASE UNCHANGED vars
    BY <1>1, <1>7 DEF vars
<1> QED BY <1>3, <1>4, <1>5, <1>6, <1>7 DEF Next

(* A track once held stays held as long as anyone is up that is not full.  *)
THEOREM CoverageIsKept == Spec => CoverageKept
<1>1. IInv /\ [Next]_vars => [up' \ full # {} => \A t \in Track : Held(t) => Held(t)']_vars
    BY StepCovers
<1> QED BY <1>1, Invariant, PTL DEF Spec, CoverageKept
=============================================================================
