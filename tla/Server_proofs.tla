--------------------------- MODULE Server_proofs ---------------------------
(***************************************************************************)
(* Proofs about the syncing of Server, for any number of clients that join *)
(* at any moment, any iteration orders of the map, any number of trials    *)
(* and any timeout, and about its hand-over of tracks, for any songs and   *)
(* any number of tracks at which a client counts as full.                  *)
(***************************************************************************)
EXTENDS Server, ListLemmas

(* The shapes of the variables that say who is synced. *)
SyncTypes ==
    /\ order \in Seq(Client)
    /\ sync_client \in Client \cup {NULL}
    /\ sync_it \in Nat
    /\ session_delay_counter \in [Client -> 0 .. NUM_SYNC_TRIALS - 1]
    /\ sync_counter \in [Client -> 0 .. NUM_SYNC_TRIALS - 1]

(* The answered trials are among the trials made.                          *)
AnswersCounted == \A c \in Client : sync_counter[c] <= session_delay_counter[c]

SyncInv == SyncTypes /\ SyncPointers /\ OneSessionAtATime /\ AnswersCounted

syncVars == <<order, sync_client, sync_it, session_delay_counter, sync_counter>>

LEMMA InitEstablishes == Init => SyncInv
BY ParametersAssumption
DEF Init, SyncInv, SyncTypes, SyncPointers, OneSessionAtATime, AnswersCounted, Registered

LEMMA StutterPreserves ==
    ASSUME SyncInv, UNCHANGED syncVars
    PROVE  SyncInv'
BY DEF syncVars, SyncInv, SyncTypes, SyncPointers, OneSessionAtATime, AnswersCounted, Registered

(* An iteration order of clients has one at every position, and all of     *)
(* them somewhere.                                                         *)
LEMMA OrdersEnumerate ==
    ASSUME NEW S, IsFiniteSet(S), S # {}, NEW s \in Orders(S)
    PROVE  /\ s \in Seq(S)
           /\ 1 \in DOMAIN s
           /\ {s[i] : i \in DOMAIN s} = S
<1>1. Cardinality(S) \in Nat /\ Cardinality(S) # 0
    BY FS_CardinalityType, FS_EmptySet
<1>2. s \in [1 .. Cardinality(S) -> S] /\ \A c \in S : \E i \in DOMAIN s : s[i] = c
    BY DEF Orders
<1>3. DOMAIN s = 1 .. Cardinality(S) /\ \A i \in DOMAIN s : s[i] \in S
    BY <1>2
<1> QED BY <1>1, <1>2, <1>3

(* While somebody is being synced the map is not empty, and the next one   *)
(* is a client of the map.                                                 *)
LEMMA SyncNextChooses ==
    ASSUME SyncInv, sync_client # NULL, SyncNext
    PROVE  /\ order # <<>>
           /\ sync_client' \in Registered /\ sync_client' \in Client
           /\ sync_it' \in DOMAIN order
<1>1. order \in Seq(Client) /\ order # <<>> /\ sync_it \in DOMAIN order
    BY DEF SyncInv, SyncTypes, SyncPointers
<1>2. Len(order) \in Nat /\ DOMAIN order = 1 .. Len(order) /\ 1 \in DOMAIN order
    BY <1>1
<1>3. CASE sync_it + 1 > Len(order)
    BY <1>1, <1>2, <1>3 DEF SyncNext, Registered
<1>4. CASE ~(sync_it + 1 > Len(order))
    <2>1. sync_it + 1 \in DOMAIN order
        BY <1>1, <1>2, <1>4
    <2> QED BY <1>1, <1>4, <2>1 DEF SyncNext, Registered
<1> QED BY <1>3, <1>4

(* The end of a session: the counters of the one client that had any are   *)
(* zeroed before the next client is chosen.                                *)
LEMMA SessionEndPreserves ==
    ASSUME SyncInv, sync_client # NULL, EndSession, SyncNext, UNCHANGED order
    PROVE  SyncInv'
<1> USE ParametersAssumption
<1>1. sync_client \in Client
    BY DEF SyncInv, SyncTypes
<1>2. /\ order # <<>> /\ sync_client' \in Registered /\ sync_client' \in Client
      /\ sync_it' \in DOMAIN order
    BY SyncNextChooses
<1>3. /\ session_delay_counter' \in [Client -> 0 .. NUM_SYNC_TRIALS - 1]
      /\ sync_counter' \in [Client -> 0 .. NUM_SYNC_TRIALS - 1]
      /\ \A c \in Client : session_delay_counter'[c] = 0 /\ sync_counter'[c] <= 0
    <2>1. 0 \in 0 .. NUM_SYNC_TRIALS - 1
        OBVIOUS
    <2>2. \A c \in Client : c # sync_client => session_delay_counter[c] = 0 /\ sync_counter[c] <= 0
        BY DEF SyncInv, SyncTypes, OneSessionAtATime, AnswersCounted
    <2>3. /\ session_delay_counter \in [Client -> 0 .. NUM_SYNC_TRIALS - 1]
          /\ sync_counter \in [Client -> 0 .. NUM_SYNC_TRIALS - 1]
        BY DEF SyncInv, SyncTypes
    <2>4. \A c \in Client : session_delay_counter'[c] = 0 /\ sync_counter'[c] <= 0
        BY <1>1, <2>2, <2>3 DEF EndSession
    <2> QED BY <1>1, <2>1, <2>3, <2>4 DEF EndSession
<1>4. SyncTypes'
    BY <1>2, <1>3 DEF SyncInv, SyncTypes
<1>5. SyncPointers'
    BY <1>2 DEF SyncPointers, Registered
<1>6. OneSessionAtATime' /\ AnswersCounted'
    BY <1>3 DEF OneSessionAtATime, AnswersCounted
<1> QED BY <1>4, <1>5, <1>6 DEF SyncInv

(* A trial that does not end the session counts for the client being       *)
(* synced, as one more trial and perhaps one more answer.                  *)
LEMMA TrialPreserves ==
    ASSUME SyncInv, sync_client # NULL, ~SessionEnds,
           session_delay_counter' = [session_delay_counter EXCEPT ![sync_client] = @ + 1],
           \/ sync_counter' = [sync_counter EXCEPT ![sync_client] = @ + 1]
           \/ UNCHANGED sync_counter,
           UNCHANGED <<order, sync_client, sync_it>>
    PROVE  SyncInv'
<1> USE ParametersAssumption
<1>1. /\ sync_client \in Client
      /\ session_delay_counter \in [Client -> 0 .. NUM_SYNC_TRIALS - 1]
      /\ sync_counter \in [Client -> 0 .. NUM_SYNC_TRIALS - 1]
    BY DEF SyncInv, SyncTypes
<1>2. /\ session_delay_counter[sync_client] + 1 \in 0 .. NUM_SYNC_TRIALS - 1
      /\ sync_counter[sync_client] + 1 \in 0 .. NUM_SYNC_TRIALS - 1
    BY <1>1 DEF SessionEnds, SyncInv, AnswersCounted
<1>3. /\ session_delay_counter' \in [Client -> 0 .. NUM_SYNC_TRIALS - 1]
      /\ sync_counter' \in [Client -> 0 .. NUM_SYNC_TRIALS - 1]
    BY <1>1, <1>2
<1>4. SyncTypes' /\ SyncPointers'
    BY <1>3 DEF SyncInv, SyncTypes, SyncPointers, Registered
<1>5. OneSessionAtATime'
    BY <1>1 DEF SyncInv, OneSessionAtATime
<1>6. AnswersCounted'
    BY <1>1 DEF SyncInv, AnswersCounted
<1> QED BY <1>4, <1>5, <1>6 DEF SyncInv

(* A client that joins replaces the order of the map; whoever is being     *)
(* synced is still in it, and the iterator stands at its front.            *)
LEMMA NewClientPreserves ==
    ASSUME SyncInv, NEW c \in Client, HandleNewClient(c)
    PROVE  SyncInv'
<1> USE ParametersAssumption
<1> DEFINE grown == Registered \cup {c}
<1>1. order \in Seq(Client) /\ Registered \subseteq Client
    BY DEF SyncInv, SyncTypes, Registered
<1>2. IsFiniteSet(grown)
    BY <1>1, FS_Subset
<1>3. order' \in Orders(grown)
    BY DEF HandleNewClient
<1>4. order' \in Seq(grown) /\ 1 \in DOMAIN order' /\ Registered' = grown
    BY <1>2, <1>3, OrdersEnumerate DEF Registered
<1>5. order' \in Seq(Client) /\ order' # <<>>
    BY <1>1, <1>4
<1>6. sync_it' = 1 /\ sync_client' \in grown /\ sync_client' \in Client
    BY <1>1 DEF HandleNewClient, FirstClient, SyncInv, SyncTypes, SyncPointers
<1>7. /\ session_delay_counter' = [session_delay_counter EXCEPT ![c] = 0]
      /\ sync_counter' = [sync_counter EXCEPT ![c] = 0]
      /\ order # <<>> => UNCHANGED sync_client
      /\ order = <<>> => sync_client' = c
    BY DEF HandleNewClient, FirstClient
<1>8. SyncTypes'
    BY <1>5, <1>6, <1>7 DEF SyncInv, SyncTypes
<1>9. SyncPointers'
    BY <1>4, <1>5, <1>6 DEF SyncPointers
<1>10. \A d \in Client : d # c /\ session_delay_counter[d] # 0 => d = sync_client'
    BY <1>7 DEF SyncInv, OneSessionAtATime, SyncPointers
<1>11. OneSessionAtATime' /\ AnswersCounted'
    BY <1>7, <1>10 DEF SyncInv, SyncTypes, OneSessionAtATime, AnswersCounted
<1> QED BY <1>8, <1>9, <1>11 DEF SyncInv

LEMMA PriorityMsgPreserves ==
    ASSUME SyncInv, HandlePriorityMsg
    PROVE  SyncInv'
<1>1. sync_client # NULL /\ UNCHANGED order
    BY DEF HandlePriorityMsg
<1>2. CASE HandleClientTiming /\ SessionEnds
    BY <1>1, <1>2, SessionEndPreserves DEF HandleClientTiming
<1>3. CASE HandleClientTiming /\ ~SessionEnds
    BY <1>1, <1>3, TrialPreserves DEF HandleClientTiming
<1>4. CASE UNCHANGED <<session, sync>>
    BY <1>1, <1>4, StutterPreserves DEF session, sync, syncVars
<1> QED BY <1>2, <1>3, <1>4 DEF HandlePriorityMsg

LEMMA SyncTimeoutPreserves ==
    ASSUME SyncInv, HandleSyncTimeout
    PROVE  SyncInv'
<1>1. sync_client # NULL /\ UNCHANGED order
    BY DEF HandleSyncTimeout
<1>2. CASE SessionEnds
    BY <1>1, <1>2, SessionEndPreserves DEF HandleSyncTimeout
<1>3. CASE ~SessionEnds
    BY <1>1, <1>3, TrialPreserves DEF HandleSyncTimeout
<1> QED BY <1>2, <1>3

LEMMA OthersPreserve ==
    ASSUME SyncInv,
           \/ NothingToSync \/ HandleStdin \/ HandleParseSong \/ BeginPass
           \/ PlayTrack \/ EndPass \/ ProcessMidi \/ ClockTick
           \/ \E c \in Client : Answer(c) \/ Stop(c) \/ Start(c)
           \/ UNCHANGED vars
    PROVE  SyncInv'
<1>1. UNCHANGED syncVars
    BY DEF NothingToSync, HandleStdin, HandleParseSong, BeginPass, PlayTrack, EndPass,
           ProcessMidi, ClockTick, Answer, Stop, Start,
           vars, roster, session, sync, syncVars
<1> QED BY <1>1, StutterPreserves

LEMMA SyncStepPreserves ==
    ASSUME SyncInv, [Next]_vars
    PROVE  SyncInv'
BY PriorityMsgPreserves, SyncTimeoutPreserves, NewClientPreserves, OthersPreserve
DEF Next, ServerNext

(* Whoever joins, answers, fails or is served in between: the session      *)
(* counters, the client being synced and the iterator fit together.        *)
THEOREM SyncInvariant == Spec => []SyncInv
<1>1. SyncInv /\ [Next]_vars => SyncInv'
    BY SyncStepPreserves
<1> QED BY InitEstablishes, <1>1, PTL DEF Spec

(* No pass of the server's loop follows sync_client or sync_it to nowhere. *)
THEOREM PointersStand == Spec => []SyncPointers
<1>1. SyncInv => SyncPointers
    BY DEF SyncInv
<1> QED BY <1>1, SyncInvariant, PTL

(* Only the client being synced has a session half done.                   *)
THEOREM OneSession == Spec => []OneSessionAtATime
<1>1. SyncInv => OneSessionAtATime
    BY DEF SyncInv
<1> QED BY <1>1, SyncInvariant, PTL

----------------------------------------------------------------------------
(* Lists of tracks *)

(* Among keeps the elements of the set and no others.                      *)
LEMMA AmongKeeps ==
    ASSUME NEW T, NEW seq \in Seq(T), NEW S
    PROVE  /\ Among(seq, S) \in Seq(T)
           /\ Range(Among(seq, S)) = Range(seq) \cap S
<1> DEFINE L == Len(seq)
           Kept(f) == [n \in 0 .. L |->
                          CASE n = 0 -> <<>>
                            [] n > 0 /\ seq[n] \in S -> Append(f[n - 1], seq[n])
                            [] OTHER -> f[n - 1]]
           kept == CHOOSE f : f = Kept(f)
           G == [n \in 1 .. L |->
                    [h \in Seq(T) |-> IF seq[n] \in S THEN Append(h, seq[n]) ELSE h]]
<1>1. L \in Nat /\ DOMAIN seq = 1 .. L /\ \A n \in 1 .. L : seq[n] \in T
    BY LenProperties, ElementOfSeq
<1>2. Among(seq, S) = kept[L]
    BY DEF Among
<1>3. kept = Kept(kept)
    <2>1. G \in [1 .. L -> [Seq(T) -> Seq(T)]]
        BY <1>1, AppendProperties
    <2>2. <<>> \in Seq(T)
        OBVIOUS
    <2>3. PICK f \in [0 .. L -> Seq(T)] : IsLoop(f, L, <<>>, G)
        <3> HIDE DEF G, L
        <3> QED BY <1>1, <2>1, <2>2, LoopExists
    <2>4. ASSUME NEW n \in 0 .. L PROVE f[n] = Kept(f)[n]
        <3>1. CASE n = 0
            BY <2>3, <3>1 DEF IsLoop
        <3>2. CASE n # 0
            <4>1. n \in 1 .. L /\ n - 1 \in 0 .. L /\ n > 0
                BY <1>1, <3>2
            <4>2. f[n] = G[n][f[n - 1]] /\ f[n - 1] \in Seq(T)
                <5> HIDE DEF G
                <5> QED BY <2>3, <4>1 DEF IsLoop
            <4> QED BY <4>1, <4>2
        <3> QED BY <3>1, <3>2
    <2>5. f = Kept(f)
        BY <2>3, <2>4
    <2> HIDE DEF Kept
    <2> QED BY <2>5
<1>4. /\ 0 \in 0 .. L /\ kept[0] = <<>>
      /\ \A n \in 0 .. L : n < L =>
            kept[n + 1] = IF seq[n + 1] \in S THEN Append(kept[n], seq[n + 1]) ELSE kept[n]
    <2> HIDE DEF kept
    <2>1. 0 \in 0 .. L /\ kept[0] = <<>>
        BY <1>1, <1>3
    <2>2. ASSUME NEW n \in 0 .. L, n < L
          PROVE  kept[n + 1] = IF seq[n + 1] \in S THEN Append(kept[n], seq[n + 1]) ELSE kept[n]
        <3>1. n + 1 \in 0 .. L /\ n + 1 # 0 /\ n + 1 > 0 /\ (n + 1) - 1 = n
            BY <1>1, <2>2
        <3>2. kept[n + 1] = Kept(kept)[n + 1]
            <4> HIDE DEF Kept
            <4> QED BY <1>3
        <3> QED BY <3>1, <3>2
    <2> QED BY <2>1, <2>2
<1> HIDE DEF kept
<1> DEFINE A == {n \in 0 .. L :
                    /\ kept[n] \in Seq(T)
                    /\ \A x : x \in Range(kept[n]) <=> x \in S /\ \E i \in 1 .. n : seq[i] = x}
<1>5. 0 \in A
    <2>1. Range(<<>>) = {} /\ <<>> \in Seq(T)
        BY DEF Range
    <2>2. \A x : x \in Range(kept[0]) <=> x \in S /\ \E i \in 1 .. 0 : seq[i] = x
        BY <1>4, <2>1
    <2> HIDE DEF L
    <2> QED BY <1>4, <2>1, <2>2
<1>6. ASSUME NEW n \in 0 .. L, n < L, n \in A PROVE n + 1 \in A
    <2>1. n + 1 \in 1 .. L /\ seq[n + 1] \in T /\ kept[n] \in Seq(T)
        BY <1>1, <1>6
    <2>2. \A i : i \in 1 .. n + 1 <=> i \in 1 .. n \/ i = n + 1
        OBVIOUS
    <2>3. \A x : (\E i \in 1 .. n + 1 : seq[i] = x) <=> (\E i \in 1 .. n : seq[i] = x) \/ x = seq[n + 1]
        BY <2>2
    <2>4. CASE seq[n + 1] \in S
        <3>1. kept[n + 1] = Append(kept[n], seq[n + 1])
            BY <1>4, <1>6, <2>4
        <3>2. kept[n + 1] \in Seq(T) /\ Range(kept[n + 1]) = Range(kept[n]) \cup {seq[n + 1]}
            BY <2>1, <3>1, AppendRange
        <3>3. \A x : x \in Range(kept[n + 1]) <=> x \in S /\ \E i \in 1 .. n + 1 : seq[i] = x
            BY <1>6, <2>3, <2>4, <3>2
        <3> QED BY <2>1, <3>2, <3>3
    <2>5. CASE seq[n + 1] \notin S
        <3>1. kept[n + 1] = kept[n]
            BY <1>4, <1>6, <2>5
        <3>2. \A x : x \in Range(kept[n + 1]) <=> x \in S /\ \E i \in 1 .. n + 1 : seq[i] = x
            BY <1>6, <2>3, <2>5, <3>1
        <3> QED BY <2>1, <3>1, <3>2
    <2> QED BY <2>4, <2>5
<1>7. L \in A
    <2>1. \A n \in 0 .. L : n < L /\ n \in A => n + 1 \in A
        BY <1>6
    <2>2. L \in 0 .. L
        BY <1>1
    <2> HIDE DEF A
    <2> QED BY <1>1, <1>5, <2>1, <2>2, EveryRound
<1>8. \A x : x \in Range(seq) <=> \E i \in 1 .. L : seq[i] = x
    BY <1>1 DEF Range
<1> QED BY <1>2, <1>7, <1>8

----------------------------------------------------------------------------
(* The hand-over *)

(* Whoever has the fewest tracks is one of those who may take them.        *)
LEMMA MinClientIsAble ==
    ASSUME order \in Seq(Client), NEW holding \in [Client -> Seq(Track)],
           NEW able \in SUBSET Registered, NEW before
    PROVE  /\ MinClient(holding, able, before) \in able \cup {before}
           /\ (\E d \in able : Len(holding[d]) < MOST_TRACKS) =>
                  MinClient(holding, able, before) \in able
           /\ (\A d \in able : ~(Len(holding[d]) < MOST_TRACKS)) =>
                  MinClient(holding, able, before) = before
<1> DEFINE loads == {Len(holding[c]) : c \in able}
           least == LeastLoaded(holding, able)
<1>1. able \subseteq Client /\ DOMAIN order \subseteq Nat
    BY LenProperties DEF Registered
<1>2. \A c \in able : Len(holding[c]) \in Nat
    <2>1. \A c \in able : holding[c] \in Seq(Track)
        BY <1>1
    <2> QED BY <2>1, LenProperties
<1>3. least \in SUBSET Nat /\ \A i \in least : order[i] \in able /\ Len(holding[order[i]]) < MOST_TRACKS
    BY <1>1 DEF LeastLoaded
<1>4. ASSUME NEW d \in able, Len(holding[d]) < MOST_TRACKS PROVE least # {}
    <2>1. loads \in SUBSET Nat /\ loads # {}
        BY <1>2
    <2>2. Min(loads) \in loads /\ \A n \in loads : Min(loads) <= n
        <3> HIDE DEF loads
        <3> QED BY <2>1, LeastOfSome
    <2>3. PICK c \in able : Len(holding[c]) = Min(loads)
        BY <2>2
    <2>4. PICK i \in DOMAIN order : order[i] = c
        BY <2>3 DEF Registered
    <2>5. \A e \in able : Len(holding[c]) <= Len(holding[e])
        BY <2>2, <2>3
    <2>6. Len(holding[c]) < MOST_TRACKS
        BY <1>2, <1>4, <2>5, ParametersAssumption
    <2> QED BY <2>4, <2>5, <2>6 DEF LeastLoaded
<1>5. least # {} => order[Min(least)] \in able
    <2> HIDE DEF least
    <2> QED BY <1>3, LeastOfSome
<1>6. MinClient(holding, able, before) = IF least = {} THEN before ELSE order[Min(least)]
    BY DEF MinClient
<1> HIDE DEF least
<1> QED BY <1>3, <1>4, <1>5, <1>6

(* What the first round of the hand-over works on.                         *)
NothingGiven == [tracks |-> tracks, min_client |-> NULL]

(* One client has got t, and nobody else has anything more or less.        *)
Got(d, t, before, after) ==
    /\ Range(after[d]) = Range(before[d]) \cup {t}
    /\ \A e \in Client \ {d} : after[e] = before[e]

LEMMA GiveAppends ==
    ASSUME order \in Seq(Client), NEW given \in Given,
           NEW able \in SUBSET Registered, NEW t \in Track
    PROVE  LET c == MinClient(given.tracks, able, given.min_client)
           IN  /\ Give(given, able, t) \in Given
               /\ Give(given, able, t).min_client = c
               /\ c = NULL => Give(given, able, t).tracks = given.tracks
               /\ c # NULL => c \in Client /\ Got(c, t, given.tracks, Give(given, able, t).tracks)
<1> DEFINE c     == MinClient(given.tracks, able, given.min_client)
           lists == given.tracks
           after == IF c = NULL THEN lists ELSE [lists EXCEPT ![c] = Append(@, t)]
<1>1. /\ lists \in [Client -> Seq(Track)]
      /\ given.min_client \in Client \cup {NULL} /\ able \subseteq Client
    BY DEF Given, Registered
<1>2. c \in Client \cup {NULL}
    <2>1. c \in able \cup {given.min_client}
        <3> HIDE DEF c
        <3>1. MinClient(lists, able, given.min_client) \in able \cup {given.min_client}
            <4> HIDE DEF lists
            <4> QED BY <1>1, MinClientIsAble
        <3> QED BY <3>1 DEF c
    <2> HIDE DEF c
    <2> QED BY <1>1, <2>1
<1>3. Give(given, able, t) = [tracks |-> after, min_client |-> c]
    BY DEF Give
<1> HIDE DEF c
<1>4. ASSUME c # NULL
      PROVE  /\ after \in [Client -> Seq(Track)] /\ c \in Client
             /\ Got(c, t, lists, after)
    <2>1. c \in Client /\ lists[c] \in Seq(Track)
        BY <1>1, <1>2, <1>4
    <2>2. /\ Append(lists[c], t) \in Seq(Track)
          /\ Range(Append(lists[c], t)) = Range(lists[c]) \cup {t}
        BY <2>1, AppendRange
    <2> HIDE DEF lists
    <2>3. /\ after \in [Client -> Seq(Track)]
          /\ after[c] = Append(lists[c], t)
          /\ \A e \in Client \ {c} : after[e] = lists[e]
        BY <1>1, <1>4, <2>1, <2>2
    <2> QED BY <2>1, <2>2, <2>3 DEF Got
<1>5. after \in [Client -> Seq(Track)]
    BY <1>1, <1>4
<1>6. c = NULL => after = lists
    OBVIOUS
<1> HIDE DEF after
<1>7. Give(given, able, t) \in Given
    BY <1>2, <1>3, <1>5 DEF Given
<1> HIDE DEF lists
<1> QED BY <1>3, <1>4, <1>6, <1>7 DEF c, lists

(* The rounds of the hand-over, one for each track.                        *)
Rounds(c, able, given) ==
    LET L == Len(tracks[c])
    IN  /\ given[0] = NothingGiven
        /\ \A n \in 0 .. L : n < L => given[n + 1] = Give(given[n], able, tracks[c][n + 1])
        /\ HandOver(c, able) = given[L].tracks

LEMMA HandOverHasRounds ==
    ASSUME order \in Seq(Client), tracks \in [Client -> Seq(Track)],
           NEW c \in Client, NEW able \in SUBSET Registered
    PROVE  \E given : Rounds(c, able, given)
<1> DEFINE L == Len(tracks[c])
           give == [t \in Track |-> [before \in Given |-> Give(before, able, t)]]
           Loop(f) == [n \in 0 .. L |->
                           IF n = 0 THEN [tracks |-> tracks, min_client |-> NULL]
                           ELSE give[tracks[c][n]][f[n - 1]]]
           given == CHOOSE f : f = Loop(f)
           G == [n \in 1 .. L |-> give[tracks[c][n]]]
<1>1. L \in Nat /\ \A n \in 1 .. L : tracks[c][n] \in Track
    BY LenProperties, ElementOfSeq
<1>2. HandOver(c, able) = given[L].tracks
    BY DEF HandOver
<1>3. given = Loop(given)
    <2>1. G \in [1 .. L -> [Given -> Given]]
        <3>1. ASSUME NEW t \in Track, NEW before \in Given PROVE Give(before, able, t) \in Given
            BY GiveAppends
        <3> QED BY <1>1, <3>1
    <2>2. NothingGiven \in Given
        BY DEF NothingGiven, Given
    <2>3. PICK f \in [0 .. L -> Given] : IsLoop(f, L, NothingGiven, G)
        <3> HIDE DEF G, L
        <3> QED BY <1>1, <2>1, <2>2, LoopExists
    <2>4. ASSUME NEW n \in 0 .. L PROVE f[n] = Loop(f)[n]
        <3>1. CASE n = 0
            BY <2>3, <3>1 DEF IsLoop, NothingGiven
        <3>2. CASE n # 0
            <4>1. n \in 1 .. L /\ n - 1 \in 0 .. L
                BY <1>1, <3>2
            <4>2. f[n] = G[n][f[n - 1]] /\ f[n - 1] \in Given
                <5> HIDE DEF G
                <5> QED BY <2>3, <4>1 DEF IsLoop
            <4> QED BY <3>2, <4>1, <4>2
        <3> QED BY <3>1, <3>2
    <2>5. f = Loop(f)
        BY <2>3, <2>4
    <2> HIDE DEF Loop
    <2> QED BY <2>5
<1> HIDE DEF given
<1>4. given[0] = NothingGiven
    BY <1>1, <1>3 DEF NothingGiven
<1>5. ASSUME NEW n \in 0 .. L, n < L
      PROVE  given[n + 1] = give[tracks[c][n + 1]][given[n]]
    <2>1. n + 1 \in 0 .. L /\ n + 1 # 0 /\ (n + 1) - 1 = n
        BY <1>1, <1>5
    <2>2. given[n + 1] = Loop(given)[n + 1]
        <3> HIDE DEF Loop
        <3> QED BY <1>3
    <2> HIDE DEF give
    <2> QED BY <2>1, <2>2
<1>6. ASSUME NEW n \in 0 .. L PROVE given[n] \in Given
    <2> DEFINE A == {m \in 0 .. L : given[m] \in Given}
    <2>1. 0 \in A
        BY <1>1, <1>4 DEF NothingGiven, Given
    <2>2. ASSUME NEW m \in 0 .. L, m < L, m \in A PROVE m + 1 \in A
        <3>1. m + 1 \in 1 .. L /\ m + 1 \in 0 .. L
            BY <1>1, <2>2
        <3>2. give[tracks[c][m + 1]][given[m]] = Give(given[m], able, tracks[c][m + 1])
            BY <1>1, <2>2, <3>1
        <3>3. Give(given[m], able, tracks[c][m + 1]) \in Given
            BY <1>1, <2>2, <3>1, GiveAppends
        <3> HIDE DEF give
        <3> QED BY <1>5, <2>2, <3>1, <3>2, <3>3
    <2>3. \A m \in 0 .. L : m < L /\ m \in A => m + 1 \in A
        BY <2>2
    <2>4. \A m \in 0 .. L : m \in A
        <3> HIDE DEF A, give, L
        <3> QED BY <1>1, <2>1, <2>3, EveryRound
    <2> QED BY <2>4
<1>7. ASSUME NEW n \in 0 .. L, n < L
      PROVE  given[n + 1] = Give(given[n], able, tracks[c][n + 1])
    <2>1. tracks[c][n + 1] \in Track /\ given[n] \in Given
        BY <1>1, <1>6, <1>7
    <2> QED BY <1>5, <1>7, <2>1
<1> QED BY <1>2, <1>4, <1>7 DEF Rounds

(* Nobody takes anything when all have MOST_TRACKS.                        *)
LEMMA HandOverToNobody ==
    ASSUME order \in Seq(Client), tracks \in [Client -> Seq(Track)],
           NEW c \in Client, NEW able \in SUBSET Registered,
           \A d \in able : ~(Len(tracks[d]) < MOST_TRACKS)
    PROVE  HandOver(c, able) = tracks
<1> DEFINE L == Len(tracks[c])
<1>1. L \in Nat /\ \A n \in 1 .. L : tracks[c][n] \in Track
    BY LenProperties, ElementOfSeq
<1>2. PICK given : Rounds(c, able, given)
    BY HandOverHasRounds
<1> DEFINE A == {n \in 0 .. L : given[n] = NothingGiven}
<1>3. 0 \in A
    BY <1>1, <1>2 DEF Rounds
<1>4. ASSUME NEW n \in 0 .. L, n < L, n \in A PROVE n + 1 \in A
    <2>1. n + 1 \in 1 .. L /\ n + 1 \in 0 .. L
        BY <1>1, <1>4
    <2>2. MinClient(tracks, able, NULL) = NULL
        BY MinClientIsAble
    <2>3. Give(NothingGiven, able, tracks[c][n + 1]) = NothingGiven
        BY <2>2 DEF Give, NothingGiven
    <2>4. given[n + 1] = Give(given[n], able, tracks[c][n + 1])
        BY <1>2, <1>4 DEF Rounds
    <2> QED BY <1>4, <2>1, <2>3, <2>4
<1>5. L \in A
    <2>1. \A n \in 0 .. L : n < L /\ n \in A => n + 1 \in A
        BY <1>4
    <2>2. L \in 0 .. L
        BY <1>1
    <2> HIDE DEF A
    <2> QED BY <1>1, <1>3, <2>1, <2>2, EveryRound
<1> QED BY <1>2, <1>5 DEF Rounds, NothingGiven

(* What the lists have become when the tracks of c have been handed to     *)
(* those that are able: each keeps what it had, gets nothing but tracks of *)
(* c, the others get nothing, and every track of c has been taken.         *)
Handed(c, able, holding, taken) ==
    /\ holding \in [Client -> Seq(Track)]
    /\ \A d \in Client \ able : holding[d] = tracks[d]
    /\ \A d \in Client :
          /\ Range(tracks[d]) \subseteq Range(holding[d])
          /\ Range(holding[d]) \subseteq Range(tracks[d]) \cup Range(tracks[c])
    /\ \A t \in taken : \E d \in able : t \in Range(holding[d])

(* Whoever has got a track gets another one rather than nobody.            *)
Going(c, able, given, taken) ==
    /\ given \in Given
    /\ given.min_client \in able \/ given.tracks = tracks
    /\ Handed(c, able, given.tracks, taken)

LEMMA HandedOneMore ==
    ASSUME order \in Seq(Client), NEW c \in Client, NEW able \in SUBSET Registered,
           \E d \in able : Len(tracks[d]) < MOST_TRACKS,
           NEW given, NEW taken, Going(c, able, given, taken),
           NEW t \in Track, t \in Range(tracks[c])
    PROVE  Going(c, able, Give(given, able, t), taken \cup {t})
<1> DEFINE after == Give(given, able, t)
           old == given.tracks
           new == after.tracks
           d == MinClient(old, able, given.min_client)
<1>1. given \in Given /\ old \in [Client -> Seq(Track)] /\ able \subseteq Client
    BY DEF Going, Given, Registered
<1>2. d \in able
    <2> HIDE DEF d, old
    <2>1. /\ MinClient(old, able, given.min_client) \in able \cup {given.min_client}
          /\ (\E e \in able : Len(old[e]) < MOST_TRACKS) =>
                 MinClient(old, able, given.min_client) \in able
        BY <1>1, MinClientIsAble
    <2>2. given.min_client \in able \/ old = tracks
        BY DEF Going, old
    <2> QED BY <2>1, <2>2 DEF d
<1>3. d # NULL
    BY <1>1, <1>2, ParametersAssumption
<1>4. after \in Given /\ after.min_client = d /\ Got(d, t, old, new)
    BY <1>1, <1>3, GiveAppends
<1>5. new \in [Client -> Seq(Track)]
    BY <1>4 DEF Given
<1>6. Handed(c, able, old, taken)
    BY DEF Going
<1> HIDE DEF after, old, new, d
<1>7. \A e \in Client \ able : new[e] = tracks[e]
    BY <1>2, <1>4, <1>6 DEF Handed, Got
<1>8. ASSUME NEW e \in Client
      PROVE  /\ Range(old[e]) \subseteq Range(new[e])
             /\ Range(new[e]) \subseteq Range(old[e]) \cup {t}
    BY <1>4, <1>8 DEF Got
<1>9. \A e \in Client : /\ Range(tracks[e]) \subseteq Range(new[e])
                        /\ Range(new[e]) \subseteq Range(tracks[e]) \cup Range(tracks[c])
    BY <1>6, <1>8 DEF Handed
<1>10. \A u \in taken \cup {t} : \E e \in able : u \in Range(new[e])
    BY <1>1, <1>2, <1>4, <1>6, <1>8 DEF Handed, Got
<1>11. Handed(c, able, new, taken \cup {t})
    BY <1>5, <1>7, <1>9, <1>10 DEF Handed
<1> QED BY <1>2, <1>4, <1>11 DEF Going, after, new

LEMMA HandOverHands ==
    ASSUME order \in Seq(Client), tracks \in [Client -> Seq(Track)],
           NEW c \in Client, NEW able \in SUBSET Registered,
           \E d \in able : Len(tracks[d]) < MOST_TRACKS
    PROVE  Handed(c, able, HandOver(c, able), Range(tracks[c]))
<1> DEFINE L == Len(tracks[c])
           Taken(n) == {tracks[c][i] : i \in 1 .. n}
<1>1. /\ L \in Nat /\ DOMAIN tracks[c] = 1 .. L
      /\ \A n \in 1 .. L : tracks[c][n] \in Track /\ tracks[c][n] \in Range(tracks[c])
    BY LenProperties, ElementOfSeq DEF Range
<1>2. PICK given : Rounds(c, able, given)
    BY HandOverHasRounds
<1> DEFINE A == {n \in 0 .. L : Going(c, able, given[n], Taken(n))}
<1>3. 0 \in A
    <2>1. Handed(c, able, tracks, Taken(0))
        BY DEF Handed
    <2>2. given[0] = NothingGiven /\ NothingGiven \in Given
        BY <1>2 DEF Rounds, NothingGiven, Given
    <2> HIDE DEF Taken
    <2> QED BY <1>1, <2>1, <2>2 DEF Going, NothingGiven
<1>4. ASSUME NEW n \in 0 .. L, n < L, n \in A PROVE n + 1 \in A
    <2> DEFINE t == tracks[c][n + 1]
    <2>1. n + 1 \in 1 .. L /\ n + 1 \in 0 .. L
        BY <1>1, <1>4
    <2>2. t \in Track /\ t \in Range(tracks[c])
        BY <1>1, <2>1
    <2>3. Taken(n + 1) = Taken(n) \cup {t}
        <3>1. \A i : i \in 1 .. n + 1 <=> i \in 1 .. n \/ i = n + 1
            OBVIOUS
        <3> QED BY <3>1
    <2>4. Going(c, able, given[n], Taken(n))
        BY <1>4
    <2> HIDE DEF t, Taken
    <2>5. Going(c, able, Give(given[n], able, t), Taken(n) \cup {t})
        BY <2>2, <2>4, HandedOneMore
    <2>6. given[n + 1] = Give(given[n], able, t)
        BY <1>2, <1>4 DEF Rounds, t
    <2> QED BY <2>1, <2>3, <2>5, <2>6
<1>5. L \in A
    <2>1. \A n \in 0 .. L : n < L /\ n \in A => n + 1 \in A
        BY <1>4
    <2>2. L \in 0 .. L
        BY <1>1
    <2> HIDE DEF A
    <2> QED BY <1>1, <1>3, <2>1, <2>2, EveryRound
<1>6. Taken(L) = Range(tracks[c])
    BY <1>1 DEF Range
<1> HIDE DEF Taken
<1> QED BY <1>2, <1>5, <1>6 DEF Rounds, Going

----------------------------------------------------------------------------
(* The steps of the server as steps of Roster *)

R == INSTANCE Roster_proofs WITH
    joined <- Registered,
    up     <- ActiveOnes,
    full   <- Full,
    owns   <- [c \in Client |-> Range(client_to_track[c])],
    holds  <- [c \in Client |-> Range(tracks[c])]

HoldTypes ==
    /\ requests \in Nat
    /\ active \in [Client -> BOOLEAN]
    /\ tracks \in [Client -> Seq(Track)]
    /\ client_to_track \in [Client -> Seq(Track)]

(* Tracks are dealt to clients of the map.                                 *)
StrangersHoldNothing ==
    \A c \in Client \ Registered : tracks[c] = <<>> /\ client_to_track[c] = <<>>

(* Nobody holds a track before the first song is parsed.                   *)
Fresh ==
    /\ requests = 0 => state # "PARSE_SONG"
    /\ requests = 0 \/ (requests = 1 /\ state = "PARSE_SONG") =>
          \A c \in Client : tracks[c] = <<>> /\ client_to_track[c] = <<>>

Holding == HoldTypes /\ StrangersHoldNothing /\ Fresh

rosterVars == <<order, active, tracks, client_to_track>>

LEMMA HoldingInitially == Init => Holding /\ R!Init
<1> SUFFICES ASSUME Init PROVE Holding /\ R!Init
    OBVIOUS
<1>1. <<>> \in Seq(Track) /\ Range(<<>>) = {}
    BY DEF Range
<1>2. HoldTypes
    BY <1>1 DEF Init, HoldTypes
<1>3. StrangersHoldNothing /\ Fresh
    BY DEF Init, StrangersHoldNothing, Fresh
<1>4. Registered = {} /\ ActiveOnes = {} /\ Full = {}
    BY ParametersAssumption DEF Init, Registered, ActiveOnes, Full
<1>5. R!Init
    BY <1>1, <1>4 DEF Init, R!Init
<1> QED BY <1>2, <1>3, <1>5 DEF Holding

(* A step that does not touch the roster.  Only a line typed by the user   *)
(* makes the server parse a song.                                          *)
LEMMA QuietStep ==
    ASSUME Holding, UNCHANGED rosterVars,
           \/ UNCHANGED requests /\ state' \in {state, "WAIT_FOR_INPUT", "PLAY_SONG"}
           \/ requests' = requests + 1
    PROVE  Holding' /\ UNCHANGED R!vars
<1>1. UNCHANGED R!vars
    BY DEF rosterVars, R!vars, Registered, ActiveOnes, Full
<1>2. HoldTypes' /\ StrangersHoldNothing'
    BY DEF Holding, HoldTypes, StrangersHoldNothing, rosterVars, Registered
<1>3. Fresh'
    <2>1. requests \in Nat /\ UNCHANGED <<tracks, client_to_track>> /\ Fresh
        BY DEF Holding, HoldTypes, rosterVars
    <2>2. CASE UNCHANGED requests /\ state' \in {state, "WAIT_FOR_INPUT", "PLAY_SONG"}
        BY <2>1, <2>2 DEF Fresh
    <2>3. CASE requests' = requests + 1
        <3>1. requests' # 0 /\ (requests' = 1 => requests = 0)
            BY <2>1, <2>3
        <3> QED BY <2>1, <3>1 DEF Fresh
    <2> QED BY <2>2, <2>3
<1> QED BY <1>1, <1>2, <1>3 DEF Holding

LEMMA ClientOfMap ==
    ASSUME SyncInv, sync_client # NULL
    PROVE  sync_client \in Registered /\ sync_client \in Client
BY DEF SyncInv, SyncTypes, SyncPointers

LEMMA JoinStep ==
    ASSUME SyncInv, Holding, NEW c \in Client, HandleNewClient(c)
    PROVE  Holding' /\ R!Join(c)
<1>1. order \in Seq(Client) /\ Registered \subseteq Client
    BY DEF SyncInv, SyncTypes, Registered
<1>2. IsFiniteSet(Registered \cup {c})
    BY <1>1, FS_Subset, ParametersAssumption
<1>3. c \notin Registered /\ order' \in Orders(Registered \cup {c})
    BY DEF HandleNewClient
<1>4. Registered' = Registered \cup {c}
    BY <1>2, <1>3, OrdersEnumerate DEF Registered
<1>5. /\ active' = [active EXCEPT ![c] = TRUE]
      /\ UNCHANGED <<requests, state, tracks, client_to_track>>
    BY DEF HandleNewClient, song, EndWait
<1>6. HoldTypes' /\ StrangersHoldNothing' /\ Fresh'
    BY <1>4, <1>5 DEF Holding, HoldTypes, StrangersHoldNothing, Fresh
<1>7. ActiveOnes' = ActiveOnes \cup {c}
    BY <1>1, <1>3, <1>4, <1>5 DEF Holding, HoldTypes, ActiveOnes
<1>8. Full' = Full
    BY <1>5 DEF Full
<1> QED BY <1>3, <1>4, <1>5, <1>6, <1>7, <1>8 DEF Holding, R!Join

(* Only clients of the map have tracks at all.                             *)
LEMMA FullJoined ==
    ASSUME StrangersHoldNothing
    PROVE  Full \subseteq Registered
<1>1. Len(<<>>) = 0
    BY EmptySeq
<1> QED BY <1>1, ParametersAssumption DEF StrangersHoldNothing, Full

LEMMA FullJoinedNext ==
    ASSUME StrangersHoldNothing', UNCHANGED Registered
    PROVE  Full' \in SUBSET Registered
<1>1. (StrangersHoldNothing => Full \subseteq Registered)'
    BY FullJoined, PTL
<1> QED BY <1>1

(* The tracks of the song are owned by the clients they are dealt to.      *)
LEMMA DealtParts ==
    ASSUME SyncInv, Playable
    PROVE  /\ DOMAIN Song[filename] \in SUBSET Track
           /\ \E owner \in [DOMAIN Song[filename] -> Registered] :
                 \A c \in Client :
                    /\ Dealt(c) \in Seq(Track)
                    /\ Range(Dealt(c)) = {t \in DOMAIN Song[filename] : owner[t] = c}
<1> DEFINE parts == DOMAIN Song[filename]
           owner == [t \in parts |-> order[1 + ((t - 1) % Len(order))]]
           all == [t \in parts |-> t]
<1>1. filename \in DOMAIN Song /\ order # <<>> /\ order \in Seq(Client)
    BY DEF Playable, SyncInv, SyncTypes
<1>2. Song[filename] \in Seq(Seq(Nat)) /\ parts = 1 .. Len(Song[filename])
    BY <1>1, ParametersAssumption, LenProperties
<1>3. parts \in SUBSET Track
    BY <1>1 DEF Track
<1>4. Len(order) \in Nat /\ Len(order) # 0 /\ DOMAIN order = 1 .. Len(order)
    BY <1>1, EmptySeq, LenProperties
<1>5. ASSUME NEW t \in parts PROVE order[1 + ((t - 1) % Len(order))] \in Registered
    <2>1. t - 1 \in Nat
        BY <1>2, LenProperties
    <2>2. (t - 1) % Len(order) \in 0 .. Len(order) - 1
        BY <1>4, <2>1
    <2>3. 1 + ((t - 1) % Len(order)) \in 1 .. Len(order)
        BY <1>4, <2>2
    <2> QED BY <1>4, <2>3 DEF Registered
<1>6. owner \in [parts -> Registered]
    BY <1>5
<1>7. all \in Seq(Track) /\ Range(all) = parts
    <2>1. all \in [1 .. Len(Song[filename]) -> Track] /\ Len(Song[filename]) \in Nat
        BY <1>2, <1>3, LenProperties
    <2>2. Range(all) = parts
        BY DEF Range
    <2> HIDE DEF all
    <2> QED BY <2>1, <2>2, SeqDef
<1>8. ASSUME NEW c \in Client
      PROVE  /\ Dealt(c) \in Seq(Track)
             /\ Range(Dealt(c)) = {t \in parts : owner[t] = c}
    <2> DEFINE mine == {t \in parts : order[1 + ((t - 1) % Len(order))] = c}
    <2>1. Dealt(c) = Among(all, mine)
        BY DEF Dealt
    <2>2. mine = {t \in parts : owner[t] = c} /\ mine \subseteq parts
        OBVIOUS
    <2> HIDE DEF all, mine, owner
    <2>3. Among(all, mine) \in Seq(Track) /\ Range(Among(all, mine)) = parts \cap mine
        BY <1>7, AmongKeeps
    <2> QED BY <2>1, <2>2, <2>3
<1> HIDE DEF owner, parts
<1>9. \E o \in [parts -> Registered] :
          \A c \in Client : Dealt(c) \in Seq(Track) /\ Range(Dealt(c)) = {t \in parts : o[t] = c}
    BY <1>6, <1>8
<1> QED BY <1>3, <1>9 DEF parts

LEMMA ParseStep ==
    ASSUME SyncInv, Holding, HandleParseSong
    PROVE  /\ Holding'
           /\ requests <= 1 =>
                 UNCHANGED R!vars \/ \E dealt \in SUBSET Track : R!Deal(dealt)
<1>1. state = "PARSE_SONG" /\ UNCHANGED <<requests, order, active>>
    BY DEF HandleParseSong
<1>2. CASE ~Playable
    BY <1>1, <1>2, QuietStep DEF HandleParseSong, rosterVars
<1>3. CASE Playable
    <2>1. /\ tracks' = [c \in Client |->
                  IF c \in Registered THEN tracks[c] \o Dealt(c) ELSE tracks[c]]
          /\ client_to_track' = [c \in Client |->
                  IF c \in Registered THEN client_to_track[c] \o Dealt(c) ELSE client_to_track[c]]
          /\ state' = "PLAY_SONG"
        BY <1>3 DEF HandleParseSong
    <2> DEFINE dealt == DOMAIN Song[filename]
    <2>2. PICK owner \in [dealt -> Registered] :
              \A c \in Client :
                  Dealt(c) \in Seq(Track) /\ Range(Dealt(c)) = {t \in dealt : owner[t] = c}
        BY <1>3, DealtParts
    <2>3. dealt \in SUBSET Track
        BY <1>3, DealtParts
    <2> HIDE DEF dealt
    <2>4. tracks \in [Client -> Seq(Track)] /\ client_to_track \in [Client -> Seq(Track)]
        BY DEF Holding, HoldTypes
    <2>5. ASSUME NEW c \in Client
          PROVE  /\ tracks[c] \o Dealt(c) \in Seq(Track)
                 /\ client_to_track[c] \o Dealt(c) \in Seq(Track)
                 /\ Range(tracks[c] \o Dealt(c)) = Range(tracks[c]) \cup Range(Dealt(c))
                 /\ Range(client_to_track[c] \o Dealt(c)) = Range(client_to_track[c]) \cup Range(Dealt(c))
        <3>1. tracks[c] \in Seq(Track) /\ client_to_track[c] \in Seq(Track) /\ Dealt(c) \in Seq(Track)
            BY <2>2, <2>4
        <3> QED BY <3>1, ConcatRange
    <2>6. HoldTypes'
        BY <1>1, <2>1, <2>4, <2>5 DEF Holding, HoldTypes
    <2>7. StrangersHoldNothing'
        BY <1>1, <2>1 DEF Holding, StrangersHoldNothing, Registered
    <2>8. Fresh'
        BY <1>1, <2>1 DEF Holding, HoldTypes, Fresh
    <2>9. ASSUME requests <= 1 PROVE R!Deal(dealt)
        <3>1. \A c \in Client : tracks[c] = <<>> /\ client_to_track[c] = <<>>
            BY <1>1, <2>9 DEF Holding, HoldTypes, Fresh
        <3>2. Range(<<>>) = {}
            BY DEF Range
        <3>3. UNCHANGED <<Registered, ActiveOnes>>
            BY <1>1 DEF Registered, ActiveOnes
        <3>4. ASSUME NEW c \in Client
              PROVE  /\ Range(tracks'[c]) = {t \in dealt : owner[t] = c}
                     /\ Range(client_to_track'[c]) = {t \in dealt : owner[t] = c}
            <4>1. CASE c \in Registered
                BY <2>1, <2>2, <2>5, <3>1, <3>2, <4>1
            <4>2. CASE c \notin Registered
                BY <2>1, <2>2, <3>1, <3>2, <4>2
            <4> QED BY <4>1, <4>2
        <3>5. \A c \in Client : [e \in Client |-> Range(client_to_track[e])][c] = {}
            BY <3>1, <3>2
        <3>6. /\ [c \in Client |-> Range(client_to_track'[c])] = [c \in Client |-> {t \in dealt : owner[t] = c}]
              /\ [c \in Client |-> Range(tracks'[c])] = [c \in Client |-> Range(client_to_track'[c])]
            BY <3>4
        <3>7. Full' \in SUBSET Registered
            BY <2>7, <3>3, FullJoinedNext
        <3> QED BY <2>2, <3>3, <3>5, <3>6, <3>7 DEF R!Deal
    <2> QED BY <2>3, <2>6, <2>7, <2>8, <2>9 DEF Holding
<1> QED BY <1>2, <1>3

(* A client that fails: whoever takes a track of it is active.             *)
LEMMA FailStep ==
    ASSUME SyncInv, Holding, NEW c \in ActiveOnes,
           tracks' = HandOver(c, ActiveOnes \ {c}),
           active' = [active EXCEPT ![c] = FALSE],
           UNCHANGED <<order, client_to_track, requests>>,
           state' \in {state, "PLAY_SONG"}
    PROVE  Holding' /\ R!Fail(c)
<1> DEFINE able == ActiveOnes \ {c}
           holds == [d \in Client |-> Range(tracks[d])]
           holdsNext == [d \in Client |-> Range(tracks'[d])]
<1>1. /\ c \in Client /\ c \in Registered /\ Registered' = Registered
      /\ order \in Seq(Client) /\ Registered \subseteq Client
      /\ active \in [Client -> BOOLEAN] /\ tracks \in [Client -> Seq(Track)]
      /\ client_to_track \in [Client -> Seq(Track)] /\ requests \in Nat
    <2>1. order \in Seq(Client) /\ Registered \subseteq Client /\ Registered' = Registered
        BY DEF SyncInv, SyncTypes, Registered
    <2> QED BY <2>1 DEF Holding, HoldTypes, ActiveOnes
<1>2. able \in SUBSET Registered /\ able \subseteq Client /\ ActiveOnes' = able
    BY <1>1 DEF ActiveOnes
<1> HIDE DEF able
<1>3. tracks' = HandOver(c, able)
    BY DEF able
<1>4. able \subseteq Full <=> \A d \in able : ~(Len(tracks[d]) < MOST_TRACKS)
    <2>1. \A d \in able : Len(tracks[d]) \in Nat
        BY <1>1, <1>2, LenProperties
    <2> QED BY <1>2, <2>1, ParametersAssumption DEF Full
<1>5. ASSUME able \subseteq Full PROVE Holding' /\ R!Fail(c)
    <2>1. tracks' = tracks
        BY <1>1, <1>2, <1>3, <1>4, <1>5, HandOverToNobody
    <2>2. Holding'
        BY <1>1, <2>1 DEF Holding, HoldTypes, StrangersHoldNothing, Fresh
    <2>3. Full' \in SUBSET Registered
        BY <1>1, <2>2, FullJoinedNext DEF Holding
    <2> QED BY <1>1, <1>2, <1>5, <2>1, <2>2, <2>3 DEF R!Fail, able
<1>6. ASSUME ~(able \subseteq Full) PROVE Holding' /\ R!Fail(c)
    <2>1. Handed(c, able, tracks', Range(tracks[c]))
        <3>1. \E d \in able : Len(tracks[d]) < MOST_TRACKS
            BY <1>4, <1>6
        <3> QED BY <1>1, <1>2, <1>3, <3>1, HandOverHands
    <2>2. HoldTypes' /\ StrangersHoldNothing'
        BY <1>1, <1>2, <2>1 DEF Handed, Holding, HoldTypes, StrangersHoldNothing
    <2>3. Fresh'
        <3>1. ASSUME \A d \in Client : tracks[d] = <<>>, NEW d \in Client PROVE tracks'[d] = <<>>
            <4>1. Range(<<>>) = {}
                BY DEF Range
            <4>2. Range(tracks'[d]) = {} /\ tracks'[d] \in Seq(Track)
                BY <1>1, <2>1, <3>1, <4>1 DEF Handed
            <4> QED BY <4>2, NothingInEmpty
        <3> QED BY <1>1, <3>1 DEF Holding, Fresh
    <2> DEFINE takers == [t \in Range(tracks[c]) |-> {d \in able : t \in Range(tracks'[d])}]
    <2>4. takers \in [holds[c] -> (SUBSET able) \ {{}}]
        <3>1. holds[c] = Range(tracks[c])
            BY <1>1
        <3>2. ASSUME NEW t \in Range(tracks[c])
              PROVE  {d \in able : t \in Range(tracks'[d])} \in (SUBSET able) \ {{}}
            BY <2>1, <3>2 DEF Handed
        <3> HIDE DEF holds
        <3> QED BY <3>1, <3>2
    <2>5. ASSUME NEW d \in Client
          PROVE  Range(tracks'[d]) = Range(tracks[d]) \cup {t \in Range(tracks[c]) : d \in takers[t]}
        <3>1. CASE d \in able
            <4>1. {t \in Range(tracks[c]) : d \in takers[t]} = Range(tracks[c]) \cap Range(tracks'[d])
                BY <3>1
            <4> QED BY <2>1, <4>1 DEF Handed
        <3>2. CASE d \notin able
            <4>1. {t \in Range(tracks[c]) : d \in takers[t]} = {}
                BY <3>2
            <4> QED BY <2>1, <3>2, <4>1 DEF Handed
        <3> QED BY <3>1, <3>2
    <2> HIDE DEF takers
    <2>6. holdsNext = [d \in Client |-> holds[d] \cup {t \in holds[c] : d \in takers[t]}]
        BY <1>1, <2>5
    <2>7. Full' \in SUBSET Registered
        BY <1>1, <2>2, FullJoinedNext
    <2>8. R!Fail(c)
        BY <1>1, <1>2, <1>6, <2>4, <2>6, <2>7 DEF R!Fail, able
    <2> QED BY <2>2, <2>3, <2>8 DEF Holding
<1> QED BY <1>5, <1>6

(* A client that returns: what it owns is in no other list any more, and   *)
(* nothing else has gone.                                                  *)
LEMMA ReturnStep ==
    ASSUME SyncInv, Holding, NEW c \in Registered, ~active[c],
           tracks' = TakeBack(c),
           active' = [active EXCEPT ![c] = TRUE],
           UNCHANGED <<order, client_to_track, requests>>,
           state' \in {state, "PLAY_SONG"}
    PROVE  Holding' /\ R!Return(c)
<1>1. /\ c \in Client /\ Registered' = Registered /\ Registered \subseteq Client
      /\ active \in [Client -> BOOLEAN] /\ tracks \in [Client -> Seq(Track)]
      /\ client_to_track \in [Client -> Seq(Track)] /\ requests \in Nat
    <2>1. c \in Client /\ Registered' = Registered /\ Registered \subseteq Client
        BY DEF SyncInv, SyncTypes, Registered
    <2> QED BY <2>1 DEF Holding, HoldTypes
<1>2. ActiveOnes' = ActiveOnes \cup {c} /\ c \notin ActiveOnes
    BY <1>1 DEF ActiveOnes
<1>3. Range(<<>>) = {}
    BY DEF Range
<1>4. ASSUME NEW d \in Client
      PROVE  /\ Among(tracks[d], NotOf(c)) \in Seq(Track)
             /\ Range(Among(tracks[d], NotOf(c))) = Range(tracks[d]) \ Range(client_to_track[c])
    <2>1. tracks[d] \in Seq(Track)
        BY <1>1
    <2>2. Range(tracks[d]) \subseteq Track
        BY <2>1, ElementOfSeq, LenProperties DEF Range
    <2>3. /\ Among(tracks[d], NotOf(c)) \in Seq(Track)
          /\ Range(Among(tracks[d], NotOf(c))) = Range(tracks[d]) \cap NotOf(c)
        BY <2>1, AmongKeeps
    <2> QED BY <2>2, <2>3 DEF NotOf
<1>5. HoldTypes' /\ StrangersHoldNothing'
    BY <1>1, <1>4 DEF TakeBack, Holding, HoldTypes, StrangersHoldNothing
<1>6. ASSUME NEW d \in Client
      PROVE  /\ Range(tracks'[d]) = IF d = c THEN Range(tracks[d])
                                    ELSE Range(tracks[d]) \ Range(client_to_track[c])
             /\ Range(tracks'[d]) \subseteq Range(tracks[d])
    <2>1. CASE d = c
        BY <1>1, <2>1 DEF TakeBack
    <2>2. CASE d \in Registered \ {c}
        BY <1>1, <1>4, <2>2 DEF TakeBack
    <2>3. CASE d \notin Registered
        BY <1>1, <1>3, <2>3 DEF TakeBack, Holding, StrangersHoldNothing
    <2> QED BY <2>1, <2>2, <2>3
<1>7. Fresh'
    <2>1. ASSUME \A d \in Client : tracks[d] = <<>>, NEW d \in Client PROVE tracks'[d] = <<>>
        <3>1. Range(tracks'[d]) = {} /\ tracks'[d] \in Seq(Track)
            BY <1>3, <1>5, <1>6, <2>1 DEF HoldTypes
        <3> QED BY <3>1, NothingInEmpty
    <2> QED BY <1>1, <2>1 DEF Holding, Fresh
<1>8. [d \in Client |-> Range(tracks'[d])] =
          [d \in Client |-> IF d = c THEN Range(tracks[d])
                            ELSE Range(tracks[d]) \ Range(client_to_track[c])]
    BY <1>6
<1>9. Full' \in SUBSET Registered
    BY <1>1, <1>5, FullJoinedNext
<1>10. R!Return(c)
    BY <1>1, <1>2, <1>8, <1>9 DEF R!Return
<1> QED BY <1>5, <1>7, <1>10 DEF Holding

LEMMA TimeoutStep ==
    ASSUME SyncInv, Holding, HandleSyncTimeout
    PROVE  Holding' /\ (UNCHANGED R!vars \/ \E c \in Client : R!Fail(c))
<1>1. sync_client \in Registered /\ sync_client \in Client
    BY ClientOfMap DEF HandleSyncTimeout
<1>2. /\ state' \in {state, "PLAY_SONG"}
      /\ UNCHANGED <<order, requests, client_to_track>>
    BY DEF HandleSyncTimeout, EndWait, song
<1>3. CASE SessionEnds /\ active[sync_client]
    <2>1. /\ tracks' = HandOver(sync_client, ActiveOnes \ {sync_client})
          /\ active' = [active EXCEPT ![sync_client] = FALSE]
        BY <1>3 DEF HandleSyncTimeout, Deactivated
    <2>2. sync_client \in ActiveOnes
        BY <1>1, <1>3 DEF ActiveOnes
    <2> QED BY <1>1, <1>2, <2>1, <2>2, FailStep
<1>4. CASE SessionEnds /\ ~active[sync_client]
    <2>1. tracks' = tracks /\ active' = [active EXCEPT ![sync_client] = FALSE]
        BY <1>4 DEF HandleSyncTimeout, Deactivated
    <2>2. active' = active
        BY <1>1, <1>4, <2>1 DEF Holding, HoldTypes
    <2> QED BY <1>2, <2>1, <2>2, QuietStep DEF rosterVars
<1>5. CASE ~SessionEnds
    <2>1. UNCHANGED <<tracks, active>>
        BY <1>5 DEF HandleSyncTimeout
    <2> QED BY <1>2, <2>1, QuietStep DEF rosterVars
<1> QED BY <1>3, <1>4, <1>5

LEMMA PriorityStep ==
    ASSUME SyncInv, Holding, HandlePriorityMsg
    PROVE  Holding' /\ (UNCHANGED R!vars \/ \E c \in Client : R!Return(c))
<1>1. sync_client \in Registered /\ sync_client \in Client
    BY ClientOfMap DEF HandlePriorityMsg
<1>2. /\ state' \in {state, "PLAY_SONG"}
      /\ UNCHANGED <<order, requests, client_to_track>>
    BY DEF HandlePriorityMsg, EndWait, song
<1>3. CASE HandleClientTiming /\ SessionEnds /\ ~active[sync_client]
    <2>1. /\ tracks' = TakeBack(sync_client)
          /\ active' = [active EXCEPT ![sync_client] = TRUE]
        BY <1>3 DEF HandleClientTiming, Reactivated
    <2> QED BY <1>1, <1>2, <1>3, <2>1, ReturnStep
<1>4. CASE HandleClientTiming /\ SessionEnds /\ active[sync_client]
    <2>1. tracks' = tracks /\ active' = [active EXCEPT ![sync_client] = TRUE]
        BY <1>4 DEF HandleClientTiming, Reactivated
    <2>2. active' = active
        BY <1>1, <1>4, <2>1 DEF Holding, HoldTypes
    <2> QED BY <1>2, <2>1, <2>2, QuietStep DEF rosterVars
<1>5. CASE HandleClientTiming /\ ~SessionEnds
    <2>1. UNCHANGED <<tracks, active>>
        BY <1>5 DEF HandleClientTiming
    <2> QED BY <1>2, <2>1, QuietStep DEF rosterVars
<1>6. CASE UNCHANGED <<active, tracks>>
    BY <1>2, <1>6, QuietStep DEF rosterVars
<1> QED BY <1>3, <1>4, <1>5, <1>6 DEF HandlePriorityMsg

LEMMA OtherSteps ==
    ASSUME Holding,
           \/ NothingToSync \/ HandleStdin \/ BeginPass
           \/ PlayTrack \/ EndPass \/ ProcessMidi \/ ClockTick
           \/ \E c \in Client : Answer(c) \/ Stop(c) \/ Start(c)
           \/ UNCHANGED vars
    PROVE  Holding' /\ UNCHANGED R!vars
<1>1. UNCHANGED rosterVars
    BY DEF NothingToSync, HandleStdin, BeginPass, PlayTrack, EndPass,
           ProcessMidi, ClockTick, Answer, Stop, Start,
           vars, roster, song, rosterVars
<1>2. \/ UNCHANGED requests /\ state' \in {state, "WAIT_FOR_INPUT", "PLAY_SONG"}
      \/ requests' = requests + 1
    BY DEF NothingToSync, HandleStdin, BeginPass, PlayTrack, EndPass, EndWait,
           ProcessMidi, ClockTick, Answer, Stop, Start,
           vars, loop
<1> QED BY <1>1, <1>2, QuietStep

(* Every step is one of Roster, or none for it, until a second song is     *)
(* typed.                                                                  *)
LEMMA StepIsRosters ==
    ASSUME SyncInv, Holding, [Next]_vars
    PROVE  Holding' /\ (requests <= 1 => [R!Next]_(R!vars))
<1>1. ASSUME NEW c \in Client, HandleNewClient(c) PROVE Holding' /\ R!Next
    BY <1>1, JoinStep DEF R!Next
<1>2. CASE HandleParseSong
    BY <1>2, ParseStep DEF R!Next
<1>3. CASE HandleSyncTimeout
    BY <1>3, TimeoutStep DEF R!Next
<1>4. CASE HandlePriorityMsg
    BY <1>4, PriorityStep DEF R!Next
<1> QED BY <1>1, <1>2, <1>3, <1>4, OtherSteps DEF Next, ServerNext

LEMMA RequestsCounted ==
    ASSUME requests \in 0 .. MaxRequests, [Next]_vars
    PROVE  requests' \in 0 .. MaxRequests /\ requests <= requests'
<1>1. CASE HandleStdin
    BY <1>1, ParametersAssumption DEF HandleStdin
<1>2. CASE ~HandleStdin
    <2>1. UNCHANGED requests
        <3>1. CASE ServerNext
            BY <3>1 DEF ServerNext, HandlePriorityMsg, HandleSyncTimeout, NothingToSync,
                        HandleParseSong, BeginPass, PlayTrack, EndPass, loop
        <3>2. CASE ~ServerNext
            BY <1>2, <3>2 DEF Next, HandleNewClient, Answer, Stop, Start, ProcessMidi,
                              ClockTick, vars, loop
        <3> QED BY <3>1, <3>2
    <2> QED BY <2>1, ParametersAssumption
<1> QED BY <1>1, <1>2

(* Until a second song is typed, what Roster proves of its owners and      *)
(* holders is true of the server's lists.                                  *)
TracksInv ==
    /\ SyncInv
    /\ Holding
    /\ requests \in 0 .. MaxRequests
    /\ requests <= 1 => R!IInv

(* Every step keeps this: those of sync sessions by themselves, those      *)
(* about tracks because each is a step of Roster or changes none.          *)
THEOREM TracksInvariant == Spec => []TracksInv
<1>1. Init => TracksInv
    <2>1. Init => requests \in 0 .. MaxRequests
        BY ParametersAssumption DEF Init
    <2> QED BY <2>1, InitEstablishes, HoldingInitially, R!InitEstablishes DEF TracksInv
<1>2. TracksInv /\ [Next]_vars => TracksInv'
    <2> SUFFICES ASSUME TracksInv, [Next]_vars PROVE TracksInv'
        OBVIOUS
    <2>1. SyncInv'
        BY SyncStepPreserves DEF TracksInv
    <2>2. Holding' /\ (requests <= 1 => [R!Next]_(R!vars))
        BY StepIsRosters DEF TracksInv
    <2>3. requests' \in 0 .. MaxRequests /\ requests <= requests'
        BY RequestsCounted DEF TracksInv
    <2>4. requests' <= 1 => requests <= 1
        BY <2>3, ParametersAssumption DEF TracksInv
    <2>5. requests' <= 1 => R!IInv'
        BY <2>2, <2>4, R!StepPreserves DEF TracksInv
    <2> QED BY <2>1, <2>2, <2>3, <2>5 DEF TracksInv
<1> QED BY <1>1, <1>2, PTL DEF Spec

(* Whatever fails and returns in whatever order, a client has every track  *)
(* of the song that was dealt to it.                                       *)
THEOREM OwnTracksAlwaysKept == Spec => []OwnTracksKept
<1>1. TracksInv => OwnTracksKept
    <2> SUFFICES ASSUME TracksInv, requests <= 1, NEW c \in Client
                 PROVE  Range(client_to_track[c]) \subseteq Range(tracks[c])
        BY DEF OwnTracksKept
    <2>1. R!OwnersHold
        BY DEF TracksInv, R!IInv
    <2> QED BY <2>1 DEF R!OwnersHold
<1> QED BY <1>1, TracksInvariant, PTL

(* No failure and no return leaves a track of the song without an active   *)
(* client that plays it, while there is an active client that is not full. *)
THEOREM CoverageAlwaysKept == Spec => CoverageKept
<1>1. ASSUME SyncInv, SyncInv', NEW t
      PROVE  (Held(t) <=> R!Held(t)) /\ (Held(t)' <=> R!Held(t)')
    <2>1. ActiveOnes \subseteq Client /\ ActiveOnes' \subseteq Client
        BY <1>1 DEF SyncInv, SyncTypes, ActiveOnes, Registered
    <2> QED BY <2>1 DEF Held, R!Held
<1>2. TracksInv /\ [Next]_vars =>
          [requests' <= 1 /\ ActiveOnes' \ Full # {} => \A t \in Track : Held(t) => Held(t)']_vars
    <2> SUFFICES ASSUME TracksInv, [Next]_vars, requests' <= 1, ActiveOnes' \ Full # {},
                        NEW t \in Track, Held(t)
                 PROVE  Held(t)'
        OBVIOUS
    <2>1. requests <= 1
        BY RequestsCounted, ParametersAssumption DEF TracksInv
    <2>2. R!IInv /\ [R!Next]_(R!vars)
        BY <2>1, StepIsRosters DEF TracksInv
    <2>3. SyncInv /\ SyncInv'
        BY SyncStepPreserves DEF TracksInv
    <2>4. R!Held(t) /\ (Held(t)' <=> R!Held(t)')
        BY <1>1, <2>3
    <2> QED BY <2>2, <2>4, R!StepCovers
<1> QED BY <1>2, TracksInvariant, PTL DEF Spec, CoverageKept

AtMostTwoClients == \A b, c, d \in Client : b = c \/ c = d \/ b = d

(* Two clients never play the same track: its owner would be one of them,  *)
(* and takes it from the other when it returns.  A third one spoils it.    *)
THEOREM TwoClientsShareNothing ==
    ASSUME AtMostTwoClients, MaxRequests <= 1
    PROVE  Spec => []NoTrackHeldTwice
<1>1. TracksInv => NoTrackHeldTwice
    <2> SUFFICES ASSUME TracksInv, NEW c \in ActiveOnes, NEW d \in ActiveOnes, c # d,
                        NEW t \in Range(tracks[c]), t \in Range(tracks[d])
                 PROVE  FALSE
        BY DEF NoTrackHeldTwice
    <2>1. R!IInv
        BY ParametersAssumption DEF TracksInv
    <2>2. c \in Client /\ d \in Client
        BY DEF TracksInv, SyncInv, SyncTypes, ActiveOnes, Registered
    <2>3. PICK owner \in Client : t \in Range(client_to_track[owner])
        BY <2>1, <2>2 DEF R!IInv, R!HeldIsOwned
    <2>4. owner = c \/ owner = d
        BY <2>2 DEF AtMostTwoClients
    <2> QED BY <2>1, <2>2, <2>3, <2>4 DEF R!IInv, R!OwnerAlone
<1> QED BY <1>1, TracksInvariant, PTL

(* With one song the server keeps the promises of Roster.                  *)
THEOREM Implementation ==
    ASSUME MaxRequests <= 1
    PROVE  Spec => ImplementsRoster
<1>1. Init => R!Init
    BY HoldingInitially
<1>2. TracksInv /\ [Next]_vars => [R!Next]_(R!vars)
    BY StepIsRosters, ParametersAssumption DEF TracksInv
<1>3. Spec => R!Init /\ [][R!Next]_(R!vars)
    BY <1>1, <1>2, TracksInvariant, PTL DEF Spec
<1>4. R!Init /\ [][R!Next]_(R!vars) => Ownership!Spec
    BY PTL DEF Ownership!Spec, Ownership!Init, R!Init, Ownership!Next, R!Next,
               Ownership!vars, R!vars, Ownership!Join, R!Join, Ownership!Deal, R!Deal,
               Ownership!Fail, R!Fail, Ownership!Return, R!Return
<1> QED BY <1>3, <1>4, PTL DEF ImplementsRoster

----------------------------------------------------------------------------
(* The other types *)

LoopTypes ==
    /\ state \in {"WAIT_FOR_INPUT", "PARSE_SONG", "PLAY_SONG"}
    /\ at \in {"stdin", "accept", "priority", "tracks"}
    /\ filename \in Name \cup {NULL}

DelayTypes ==
    /\ avg_delay \in [Client -> Nat]
    /\ elapsed \in Nat
    /\ max_client_delay \in Int

Messages == [to : Client \cup {NULL}, track : Track \cup {NULL}, events : Seq(Nat)]

SongTypes ==
    /\ track_queues \in [Track -> Seq(Nat)]
    /\ song_is_playing \in BOOLEAN
    /\ midi_timer \in 0 .. MaxTimer
    /\ timer_started \in BOOLEAN
    /\ visits \in Seq(Client \X Track)
    /\ midi_out \in Messages

Answers == Seq({"HS_FIN", "SYNC_ACK"})

ClientTypes ==
    /\ owed \in [Client -> Answers]
    /\ inbox \in [Client -> Answers]
    /\ stopped \subseteq Client
    /\ stops \in 0 .. MaxStops

LEMMA TypesInitially == Init => LoopTypes /\ DelayTypes /\ SongTypes /\ ClientTypes
<1> SUFFICES ASSUME Init PROVE LoopTypes /\ DelayTypes /\ SongTypes /\ ClientTypes
    OBVIOUS
<1>1. LoopTypes
    BY DEF Init, LoopTypes
<1>2. DelayTypes
    BY ParametersAssumption DEF Init, DelayTypes
<1>3. SongTypes
    <2>1. <<>> \in Seq(Nat) /\ <<>> \in Seq(Client \X Track)
        OBVIOUS
    <2>2. NoMessage \in Messages
        BY <2>1 DEF NoMessage, Messages
    <2>3. 0 \in 0 .. MaxTimer
        BY ParametersAssumption
    <2> QED BY <2>1, <2>2, <2>3 DEF Init, SongTypes
<1>4. ClientTypes
    <2>1. <<>> \in Answers
        BY DEF Answers
    <2> QED BY <2>1, ParametersAssumption DEF Init, ClientTypes
<1> QED BY <1>1, <1>2, <1>3, <1>4

LEMMA LoopTyped ==
    ASSUME LoopTypes, [Next]_vars
    PROVE  LoopTypes'
<1>1. CASE HandlePriorityMsg \/ HandleSyncTimeout \/ NothingToSync
    BY <1>1 DEF HandlePriorityMsg, HandleSyncTimeout, NothingToSync, EndWait, LoopTypes
<1>2. CASE HandleParseSong \/ HandleStdin \/ BeginPass \/ EndPass
    BY <1>2 DEF HandleParseSong, HandleStdin, BeginPass, EndPass, LoopTypes
<1>3. CASE \E c \in Client : HandleNewClient(c)
    BY <1>3 DEF HandleNewClient, LoopTypes
<1>4. CASE UNCHANGED loop
    BY <1>4 DEF loop, LoopTypes
<1>5. ASSUME \/ PlayTrack \/ ProcessMidi \/ ClockTick \/ UNCHANGED vars
             \/ \E c \in Client : Answer(c) \/ Stop(c) \/ Start(c)
      PROVE  UNCHANGED loop
    BY <1>5 DEF PlayTrack, ProcessMidi, ClockTick, Answer, Stop, Start, vars
<1> QED BY <1>1, <1>2, <1>3, <1>4, <1>5 DEF Next, ServerNext

(* A SYNC is owed an answer.                                               *)
LEMMA SyncOwed ==
    ASSUME NEW owing \in [Client -> Answers], NEW c \in Client, SendSync(c, owing)
    PROVE  owed' \in [Client -> Answers] /\ elapsed' \in Nat
<1>1. owing[c] \in Answers
    OBVIOUS
<1>2. Append(owing[c], "SYNC_ACK") \in Answers
    BY <1>1, AppendProperties DEF Answers
<1> QED BY <1>2 DEF SendSync

LEMMA NextClientOfMap ==
    ASSUME SyncInv', sync_client # NULL, order # <<>>, UNCHANGED order
    PROVE  sync_client' \in Client
BY DEF SyncInv, SyncTypes, SyncPointers, Registered

LEMMA ClientsTyped ==
    ASSUME SyncInv, SyncInv', ClientTypes, [Next]_vars
    PROVE  ClientTypes'
<1> USE DEF ClientTypes
<1>1. CASE HandlePriorityMsg \/ HandleSyncTimeout
    <2>1. sync_client \in Client /\ order # <<>> /\ sync_client # NULL
        BY <1>1 DEF HandlePriorityMsg, HandleSyncTimeout, SyncInv, SyncTypes, SyncPointers
    <2>2. UNCHANGED <<order, stopped, stops>>
        BY <1>1 DEF HandlePriorityMsg, HandleSyncTimeout
    <2>3. sync_client' \in Client
        BY <2>1, <2>2, NextClientOfMap
    <2>4. owed' \in [Client -> Answers]
        BY <1>1, <2>3, SyncOwed DEF HandlePriorityMsg, HandleSyncTimeout, HandleClientTiming
    <2>5. inbox' \in [Client -> Answers]
        <3>1. CASE HandlePriorityMsg
            <4>1. inbox[sync_client] \in Answers /\ inbox[sync_client] # <<>>
                BY <2>1, <3>1 DEF HandlePriorityMsg
            <4>2. Tail(inbox[sync_client]) \in Answers
                BY <4>1, HeadTailProperties DEF Answers
            <4> QED BY <3>1, <4>2 DEF HandlePriorityMsg
        <3>2. CASE HandleSyncTimeout
            BY <3>2 DEF HandleSyncTimeout
        <3> QED BY <1>1, <3>1, <3>2
    <2> QED BY <2>2, <2>4, <2>5
<1>2. ASSUME NEW c \in Client, HandleNewClient(c) PROVE ClientTypes'
    <2> DEFINE greeted == [owed EXCEPT ![c] = <<"HS_FIN">>]
    <2>1. <<"HS_FIN">> \in Answers
        BY DEF Answers
    <2>2. greeted \in [Client -> Answers]
        BY <2>1
    <2>3. owed' \in [Client -> Answers]
        <3>1. SendSync(c, greeted) \/ owed' = greeted
            BY <1>2 DEF HandleNewClient
        <3> HIDE DEF greeted
        <3> QED BY <2>2, <3>1, SyncOwed
    <2> QED BY <1>2, <2>3 DEF HandleNewClient
<1>3. ASSUME NEW c \in Client, Answer(c) PROVE ClientTypes'
    <2>1. owed[c] \in Answers /\ inbox[c] \in Answers /\ owed[c] # <<>>
        BY <1>3 DEF Answer
    <2>2. Head(owed[c]) \in {"HS_FIN", "SYNC_ACK"} /\ Tail(owed[c]) \in Answers
        BY <2>1, HeadTailProperties DEF Answers
    <2>3. Append(inbox[c], Head(owed[c])) \in Answers
        BY <2>1, <2>2, AppendProperties DEF Answers
    <2> QED BY <1>3, <2>2, <2>3 DEF Answer
<1>4. ASSUME NEW c \in Client, Stop(c) PROVE ClientTypes'
    <2>1. PICK taken \in 0 .. Len(owed[c]) :
              owed' = [owed EXCEPT ![c] = SubSeq(@, taken + 1, Len(@))]
        BY <1>4 DEF Stop
    <2>2. owed[c] \in Seq({"HS_FIN", "SYNC_ACK"})
        BY DEF Answers
    <2>3. SubSeq(owed[c], taken + 1, Len(owed[c])) \in Answers
        BY <2>2, Suffix DEF Answers
    <2>4. owed' \in [Client -> Answers]
        BY <2>1, <2>3
    <2>5. stops' \in 0 .. MaxStops
        BY <1>4, ParametersAssumption DEF Stop
    <2> QED BY <1>4, <2>4, <2>5 DEF Stop
<1>5. ASSUME NEW c \in Client, Start(c) PROVE ClientTypes'
    BY <1>5 DEF Start
<1>6. CASE UNCHANGED clients
    BY <1>6 DEF clients
<1>7. ASSUME \/ NothingToSync \/ HandleStdin \/ HandleParseSong \/ BeginPass \/ PlayTrack
             \/ EndPass \/ ProcessMidi \/ ClockTick \/ UNCHANGED vars
      PROVE  UNCHANGED clients
    BY <1>7 DEF NothingToSync, HandleStdin, HandleParseSong, BeginPass, PlayTrack, EndPass,
                ProcessMidi, ClockTick, vars
<1> QED BY <1>1, <1>2, <1>3, <1>4, <1>5, <1>6, <1>7 DEF Next, ServerNext

(* The largest delay of some clients is the delay of one of them, or 0.    *)
LEMMA MaxDelayIsNat ==
    ASSUME avg_delay' \in [Client -> Nat], Registered \subseteq Client
    PROVE  MaxDelay \in Nat
<1> DEFINE some   == {d \in Registered : active'[d]}
           delays == {avg_delay'[c] : c \in some}
<1>1. IsFiniteSet(some)
    <2>1. some \subseteq Client
        OBVIOUS
    <2> QED BY <2>1, FS_Subset, ParametersAssumption
<1>2. IsFiniteSet(delays)
    <2>1. [c \in some |-> avg_delay'[c]] \in Surjection(some, delays)
        BY DEF Surjection
    <2> QED BY <1>1, <2>1, FS_Surjection
<1>3. delays \in SUBSET Nat
    OBVIOUS
<1> DEFINE all == {0} \cup delays
<1> HIDE DEF delays
<1>4. IsFiniteSet(all)
    <2>1. IsFiniteSet({0})
        BY FS_Singleton
    <2> QED BY <1>2, <2>1, FS_Union
<1>5. all \in SUBSET Nat /\ all # {}
    BY <1>3
<1>6. Max(all) \in Nat
    <2> HIDE DEF all
    <2> QED BY <1>4, <1>5, GreatestOfSome
<1> QED BY <1>6 DEF MaxDelay, delays

LEMMA SmoothedIsNat ==
    ASSUME NEW avg \in Nat, NEW time \in Nat
    PROVE  Smoothed(avg, HalfTrip(time)) \in Nat
<1>1. HalfTrip(time) \in Nat
    BY DEF HalfTrip
<1> QED BY <1>1 DEF Smoothed

LEMMA DelaysTyped ==
    ASSUME SyncInv, SyncInv', DelayTypes, ClientTypes, [Next]_vars
    PROVE  DelayTypes'
<1> USE DEF DelayTypes
<1>1. CASE HandlePriorityMsg \/ HandleSyncTimeout
    <2>1. sync_client \in Client /\ order # <<>> /\ sync_client # NULL /\ Registered \subseteq Client
        BY <1>1 DEF HandlePriorityMsg, HandleSyncTimeout, SyncInv, SyncTypes, SyncPointers, Registered
    <2>2. UNCHANGED order
        BY <1>1 DEF HandlePriorityMsg, HandleSyncTimeout
    <2>3. sync_client' \in Client
        BY <2>1, <2>2, NextClientOfMap
    <2>4. avg_delay' \in [Client -> Nat]
        <3>1. Smoothed(avg_delay[sync_client], HalfTrip(elapsed)) \in Nat
            BY <2>1, SmoothedIsNat
        <3> QED BY <1>1, <3>1
            DEF HandlePriorityMsg, HandleSyncTimeout, HandleClientTiming, session
    <2>5. elapsed' \in Nat
        <3>1. SendSync(sync_client', owed) => elapsed' = 0
            BY DEF SendSync
        <3> QED BY <1>1, <3>1
            DEF HandlePriorityMsg, HandleSyncTimeout, HandleClientTiming, sync
    <2>6. max_client_delay' \in Int
        <3>1. SyncNext => max_client_delay' \in {max_client_delay, MaxDelay}
            BY DEF SyncNext
        <3>2. MaxDelay \in Int
            BY <2>1, <2>4, MaxDelayIsNat
        <3> QED BY <1>1, <3>1, <3>2
            DEF HandlePriorityMsg, HandleSyncTimeout, HandleClientTiming, sync
    <2> QED BY <2>4, <2>5, <2>6
<1>2. ASSUME NEW c \in Client, HandleNewClient(c) PROVE DelayTypes'
    <2>1. avg_delay' \in [Client -> Nat] /\ max_client_delay' \in Int
        BY <1>2, ParametersAssumption DEF HandleNewClient
    <2>2. elapsed' = 0 \/ elapsed' = elapsed
        BY <1>2 DEF HandleNewClient, SendSync
    <2> QED BY <2>1, <2>2
<1>3. CASE ClockTick
    BY <1>3 DEF ClockTick, session
<1>4. CASE UNCHANGED <<session, sync>>
    BY <1>4 DEF session, sync
<1>5. ASSUME \/ NothingToSync \/ HandleStdin \/ HandleParseSong \/ BeginPass \/ PlayTrack
             \/ EndPass \/ ProcessMidi \/ UNCHANGED vars
             \/ \E c \in Client : Answer(c) \/ Stop(c) \/ Start(c)
      PROVE  UNCHANGED <<session, sync>>
    BY <1>5 DEF NothingToSync, HandleStdin, HandleParseSong, BeginPass, PlayTrack, EndPass,
                ProcessMidi, Answer, Stop, Start, vars
<1> QED BY <1>1, <1>2, <1>3, <1>4, <1>5 DEF Next, ServerNext

LEMMA VisitsTyped ==
    ASSUME order \in Seq(Client), tracks \in [Client -> Seq(Track)]
    PROVE  Visits \in Seq(Client \X Track)
<1> DEFINE visitsOf(c) == [i \in DOMAIN tracks[c] |-> <<c, tracks[c][i]>>]
           all == [i \in DOMAIN order |-> IF active[order[i]] THEN visitsOf(order[i]) ELSE <<>>]
<1>1. ASSUME NEW c \in Client PROVE visitsOf(c) \in Seq(Client \X Track)
    <2>1. tracks[c] \in Seq(Track)
        OBVIOUS
    <2>2. /\ Len(tracks[c]) \in Nat /\ DOMAIN tracks[c] = 1 .. Len(tracks[c])
          /\ \A i \in 1 .. Len(tracks[c]) : tracks[c][i] \in Track
        BY <2>1, LenProperties, ElementOfSeq
    <2>3. visitsOf(c) \in [1 .. Len(tracks[c]) -> Client \X Track]
        BY <2>2
    <2> HIDE DEF visitsOf
    <2> QED BY <2>2, <2>3, FunctionIsSeq
<1>2. /\ Len(order) \in Nat /\ DOMAIN order = 1 .. Len(order)
      /\ \A i \in 1 .. Len(order) : order[i] \in Client
    BY LenProperties, ElementOfSeq
<1>3. <<>> \in Seq(Client \X Track)
    OBVIOUS
<1> HIDE DEF visitsOf
<1>4. all \in [1 .. Len(order) -> Seq(Client \X Track)]
    BY <1>1, <1>2, <1>3
<1> HIDE DEF all
<1>5. all \in Seq(Seq(Client \X Track))
    BY <1>2, <1>4, FunctionIsSeq
<1>6. FlattenSeq(all) \in Seq(Client \X Track)
    BY <1>5, Flattened
<1> QED BY <1>6 DEF Visits, all, visitsOf

(* The events a message takes are the first ones of the queue.             *)
LEMMA DueTyped ==
    ASSUME NEW c, NEW queue \in Seq(Nat)
    PROVE  Due(c, queue) \in Seq(Nat) /\ Len(Due(c, queue)) \in 0 .. Len(queue)
<1> DEFINE held  == {i \in 1 .. Len(queue) : queue[i] + (max_client_delay - avg_delay[c]) > midi_timer}
           first == IF held # {} THEN Min(held) ELSE 0
<1>1. Due(c, queue) = IF first = 0 THEN queue ELSE SubSeq(queue, 1, first - 1)
    BY DEF Due, SelectInSeq
<1>2. Len(queue) \in Nat
    BY LenProperties
<1>3. first \in 0 .. Len(queue)
    <2>1. held \in SUBSET (1 .. Len(queue)) /\ held \in SUBSET Nat
        OBVIOUS
    <2> HIDE DEF held
    <2>2. held # {} => Min(held) \in held
        BY <2>1, LeastOfSome
    <2>3. held # {} => Min(held) \in 1 .. Len(queue)
        BY <2>1, <2>2
    <2> HIDE DEF Min
    <2> QED BY <1>2, <2>3
<1> HIDE DEF first
<1>4. CASE first = 0
    BY <1>1, <1>2, <1>4
<1>5. CASE first # 0
    <2>1. first - 1 \in 0 .. Len(queue)
        BY <1>2, <1>3, <1>5
    <2> QED BY <1>1, <1>5, <2>1, Prefix
<1> QED BY <1>4, <1>5

LEMMA PlayTrackTyped ==
    ASSUME SongTypes, PlayTrack
    PROVE  SongTypes'
<1> DEFINE c     == Head(visits)[1]
           t     == Head(visits)[2]
           queue == track_queues[t]
           due   == Due(c, queue)
           rest  == SubSeq(queue, Len(due) + 1, Len(queue))
<1>1. /\ visits \in Seq(Client \X Track) /\ visits # <<>> /\ visits' = Tail(visits)
      /\ track_queues \in [Track -> Seq(Nat)] /\ song_is_playing \in BOOLEAN
    BY DEF SongTypes, PlayTrack
<1>2. Head(visits) \in Client \X Track /\ visits' \in Seq(Client \X Track)
    BY <1>1, HeadTailProperties
<1>3. c \in Client /\ t \in Track
    BY <1>2
<1>4. /\ song_is_playing' = (song_is_playing \/ queue # <<>>)
      /\ \/ /\ midi_out' = [to |-> c, track |-> t, events |-> due]
            /\ track_queues' = [track_queues EXCEPT ![t] = rest]
         \/ midi_out' = NoMessage /\ UNCHANGED track_queues
    BY DEF PlayTrack
<1>5. UNCHANGED timer
    BY DEF PlayTrack
<1> HIDE DEF c, t
<1>6. queue \in Seq(Nat)
    BY <1>1, <1>3
<1>7. due \in Seq(Nat) /\ rest \in Seq(Nat)
    <2>1. due \in Seq(Nat) /\ Len(due) \in 0 .. Len(queue)
        BY <1>6, DueTyped
    <2> HIDE DEF due, queue
    <2> QED BY <1>6, <2>1, Suffix
<1> HIDE DEF due, rest, queue
<1>8. track_queues' \in [Track -> Seq(Nat)]
    BY <1>1, <1>3, <1>4, <1>7
<1>9. midi_out' \in Messages
    <2>1. NoMessage \in Messages
        BY DEF NoMessage, Messages
    <2>2. [to |-> c, track |-> t, events |-> due] \in Messages
        BY <1>3, <1>7 DEF Messages
    <2> QED BY <1>4, <2>1, <2>2
<1>10. song_is_playing' \in BOOLEAN
    BY <1>1, <1>4
<1> QED BY <1>2, <1>5, <1>8, <1>9, <1>10 DEF SongTypes, timer

LEMMA SongTyped ==
    ASSUME SyncInv, Holding, SongTypes, [Next]_vars
    PROVE  SongTypes'
<1>1. CASE HandleParseSong
    <2>1. CASE Playable
        <3>1. \A t \in DOMAIN Song[filename] : Song[filename][t] \in Seq(Nat)
            <4>1. Song[filename] \in Seq(Seq(Nat))
                BY <2>1, ParametersAssumption DEF Playable
            <4> QED BY <4>1, ElementOfSeq, LenProperties
        <3>2. track_queues' \in [Track -> Seq(Nat)]
            BY <1>1, <2>1, <3>1 DEF HandleParseSong, SongTypes
        <3> QED BY <1>1, <2>1, <3>2 DEF HandleParseSong, SongTypes
    <2>2. CASE ~Playable
        BY <1>1, <2>2 DEF HandleParseSong, SongTypes
    <2> QED BY <2>1, <2>2
<1>2. CASE BeginPass
    <2>1. Visits \in Seq(Client \X Track)
        BY VisitsTyped DEF SyncInv, SyncTypes, Holding, HoldTypes
    <2> QED BY <1>2, <2>1 DEF BeginPass, SongTypes, timer
<1>3. CASE PlayTrack
    BY <1>3, PlayTrackTyped
<1>4. CASE EndPass
    <2>1. NoMessage \in Messages
        BY DEF NoMessage, Messages
    <2> QED BY <1>4, <2>1 DEF EndPass, SongTypes, timer
<1>5. CASE ProcessMidi
    <2>1. midi_timer' \in 0 .. MaxTimer
        BY <1>5, ParametersAssumption DEF ProcessMidi, SongTypes
    <2> QED BY <1>5, <2>1 DEF ProcessMidi, SongTypes, song
<1>6. CASE UNCHANGED <<song, timer>>
    BY <1>6 DEF song, timer, SongTypes
<1>7. ASSUME \/ HandlePriorityMsg \/ HandleSyncTimeout \/ NothingToSync \/ HandleStdin
             \/ ClockTick \/ UNCHANGED vars
             \/ \E c \in Client : HandleNewClient(c) \/ Answer(c) \/ Stop(c) \/ Start(c)
      PROVE  UNCHANGED <<song, timer>>
    BY <1>7 DEF HandlePriorityMsg, HandleSyncTimeout, NothingToSync, HandleStdin, ClockTick,
                HandleNewClient, Answer, Stop, Start, vars
<1> QED BY <1>1, <1>2, <1>3, <1>4, <1>5, <1>6, <1>7 DEF Next, ServerNext

(* Every variable of the server keeps its type: no step takes from an      *)
(* empty queue, deals a track to nobody or makes a delay negative.         *)
THEOREM TypeCorrect == Spec => []TypeOK
<1> DEFINE Types == LoopTypes /\ DelayTypes /\ SongTypes /\ ClientTypes
<1>1. Init => Types
    BY TypesInitially
<1>2. TracksInv /\ TracksInv' /\ Types /\ [Next]_vars => Types'
    BY LoopTyped, DelaysTyped, SongTyped, ClientsTyped DEF TracksInv
<1>3. TracksInv /\ Types => TypeOK
    BY DEF TracksInv, SyncInv, SyncTypes, Holding, HoldTypes, LoopTypes, DelayTypes,
           SongTypes, ClientTypes, Messages, Answers, TypeOK
<1> HIDE DEF Types
<1> QED BY <1>1, <1>2, <1>3, TracksInvariant, PTL DEF Spec
=============================================================================
