--------------------------- MODULE Playback_proofs ---------------------------
(***************************************************************************)
(* Proofs about Playback: for any tracks, delays, number of clients, lag,  *)
(* size of the sockets and of the count in the header of a message.        *)
(***************************************************************************)
EXTENDS Playback, ListLemmas

----------------------------------------------------------------------------
(* Least and greatest numbers *)

LEMMA GreatestBounds ==
    ASSUME PlaybackAssumption, NEW f \in [Client -> Nat]
    PROVE  /\ Greatest(f) \in Nat
           /\ \A c \in Client : f[c] <= Greatest(f)
           /\ \A bound \in Nat : (\A c \in Client : f[c] <= bound) => Greatest(f) <= bound
<1> DEFINE values == {0} \cup {f[c] : c \in Client}
<1>1. IsFiniteSet({f[c] : c \in Client})
    <2>1. f \in Surjection(Client, {f[c] : c \in Client})
        BY DEF Surjection
    <2> QED BY <2>1, FS_Surjection DEF PlaybackAssumption
<1>2. IsFiniteSet(values)
    BY <1>1, FS_Singleton, FS_Union
<1>3. values \in SUBSET Nat /\ values # {}
    OBVIOUS
<1>4. \A c \in Client : f[c] \in values
    OBVIOUS
<1>5. \A bound \in Nat : (\A c \in Client : f[c] <= bound) => \A y \in values : y <= bound
    OBVIOUS
<1>6. Greatest(f) = Max(values)
    BY DEF Greatest
<1> HIDE DEF values
<1>7. Max(values) \in values /\ \A y \in values : y <= Max(values)
    BY <1>2, <1>3, GreatestOfSome
<1>8. Max(values) \in Nat
    BY <1>3, <1>7
<1> QED BY <1>4, <1>5, <1>6, <1>7, <1>8

----------------------------------------------------------------------------
(* What is taken from the front of a queue *)

(* What precedes the first element held back is a prefix of elements that  *)
(* are not, and the next element is held back; ...                         *)
SplitsAt(queue, held, n) == /\ \A i \in 1 .. n : i \notin held
                            /\ n < Len(queue) => n + 1 \in held

LEMMA BeforeIsPrefix ==
    ASSUME NEW S, NEW queue \in Seq(S), NEW held \in SUBSET (1 .. Len(queue))
    PROVE  \E n \in 0 .. Len(queue) :
              /\ Before(queue, IF held # {} THEN Min(held) ELSE 0) = SubSeq(queue, 1, n)
              /\ SplitsAt(queue, held, n)
<1>1. Len(queue) \in Nat
    BY LenProperties
<1>2. CASE held = {}
    <2>1. SplitsAt(queue, held, Len(queue)) /\ Len(queue) \in 0 .. Len(queue)
        BY <1>1, <1>2 DEF SplitsAt
    <2> QED BY <1>2, <2>1, SubSeqFull DEF Before
<1>3. CASE held # {}
    <2> DEFINE first == Min(held)
    <2>1. first \in held /\ \A i \in held : first <= i
        BY <1>1, <1>3, LeastOfSome
    <2> HIDE DEF first
    <2>2. first \in 1 .. Len(queue) /\ first # 0 /\ first - 1 \in 0 .. Len(queue)
        BY <1>1, <2>1
    <2>3. SplitsAt(queue, held, first - 1)
        <3>1. (first - 1) + 1 = first
            BY <1>1, <2>2
        <3>2. \A i \in 1 .. first - 1 : i \notin held
            BY <1>1, <2>1, <2>2
        <3> QED BY <2>1, <3>1, <3>2 DEF SplitsAt
    <2>4. Before(queue, first) = SubSeq(queue, 1, first - 1)
        BY <2>2 DEF Before
    <2> QED BY <1>3, <2>2, <2>3, <2>4 DEF first
<1> QED BY <1>2, <1>3

(* ... so what is due of a track, ... *)
PutOffBy(c) == max_client_delay - avg_delay[c]

HeldBack(c) ==
    {i \in 1 .. Len(track_queues[c]) : Track[c][track_queues[c][i]] + PutOffBy(c) > midi_timer}

LEMMA DueIsPrefix ==
    ASSUME NEW c, track_queues[c] \in Seq(Event)
    PROVE  \E n \in 0 .. Len(track_queues[c]) :
              /\ Due(c) = SubSeq(track_queues[c], 1, n)
              /\ SplitsAt(track_queues[c], HeldBack(c), n)
<1> DEFINE held == HeldBack(c)
<1>1. Due(c) = Before(track_queues[c], IF held # {} THEN Min(held) ELSE 0)
    BY DEF Due, SelectInSeq, HeldBack, PutOffBy
<1>2. held \in SUBSET (1 .. Len(track_queues[c]))
    BY DEF HeldBack
<1> HIDE DEF held
<1> QED BY <1>1, <1>2, BeforeIsPrefix DEF held

(* ... and what a client plays. *)
NotReady(queue) == {i \in 1 .. Len(queue) : queue[i].first >= midi_timer}

Plays(c, queue, n) ==
    /\ SplitsAt(queue, NotReady(queue), n)
    /\ queued_events' = [queued_events EXCEPT ![c] = SubSeq(queue, n + 1, Len(queue))]
    /\ heard' = [heard EXCEPT ![c] =
          @ \o [i \in 1 .. n |-> [time |-> midi_timer, event |-> queue[i].event]]]

LEMMA PlayedIsPrefix ==
    ASSUME NEW c, NEW S, NEW queue \in Seq(S), PlayMidiData(c, queue)
    PROVE  \E n \in 0 .. Len(queue) : Plays(c, queue, n)
<1> DEFINE held  == NotReady(queue)
           ready == Before(queue, IF held # {} THEN Min(held) ELSE 0)
<1>1. /\ queued_events' = [queued_events EXCEPT ![c] = SubSeq(queue, Len(ready) + 1, Len(queue))]
      /\ heard' = [heard EXCEPT ![c] =
            @ \o [i \in DOMAIN ready |-> [time |-> midi_timer, event |-> ready[i].event]]]
    BY DEF PlayMidiData, SelectInSeq, NotReady
<1>2. held \in SUBSET (1 .. Len(queue))
    BY DEF NotReady
<1>3. PICK n \in 0 .. Len(queue) : ready = SubSeq(queue, 1, n) /\ SplitsAt(queue, held, n)
    <2> HIDE DEF held
    <2> QED BY <1>2, BeforeIsPrefix
<1>4. /\ ready \in Seq(S) /\ Len(ready) = n
      /\ \A i \in 1 .. n : ready[i] = queue[i]
    BY <1>3, Prefix
<1>5. DOMAIN ready = 1 .. n
    BY <1>4, LenProperties
<1> HIDE DEF ready
<1>6. [i \in DOMAIN ready |-> [time |-> midi_timer, event |-> ready[i].event]]
          = [i \in 1 .. n |-> [time |-> midi_timer, event |-> queue[i].event]]
    BY <1>4, <1>5
<1> QED BY <1>1, <1>3, <1>4, <1>6 DEF Plays

LEMMA Remainder ==
    ASSUME NEW k \in Nat, NEW m \in Nat \ {0}
    PROVE  k % m \in Nat /\ k % m <= k
OBVIOUS

(* The client takes events off the front of a message: as many as the      *)
(* 8-bit count has left of their number.                                   *)
LEMMA TakenInOrder ==
    ASSUME PlaybackAssumption, midi_timer \in Nat, NEW c, delay[c] \in Nat,
           NEW message \in Seq(Event)
    PROVE  /\ PutOff(c, message) \in Seq([first : Nat, event : Event])
           /\ Len(PutOff(c, message)) <= Len(message)
           /\ \A i \in 1 .. Len(PutOff(c, message)) :
                 /\ PutOff(c, message)[i].event = message[i]
                 /\ PutOff(c, message)[i].first = midi_timer + delay[c]
           /\ Len(PutOff(c, message)) = Len(message) % EVENT_COUNTS
<1> DEFINE n == Len(message) % EVENT_COUNTS
           taken == PutOff(c, message)
           Put == [first : Nat, event : Event]
<1>1. Len(message) \in Nat
    BY LenProperties
<1>2. n \in Nat /\ n <= Len(message)
    BY <1>1, Remainder DEF PlaybackAssumption
<1>3. \A i \in 1 .. n : message[i] \in Event
    BY <1>1, <1>2, ElementOfSeq
<1> HIDE DEF n
<1>4. taken = [i \in 1 .. n |-> [first |-> midi_timer + delay[c], event |-> message[i]]]
    BY DEF PutOff, n
<1>5. taken \in [1 .. n -> Put]
    BY <1>3, <1>4
<1>6. taken \in Seq(Put)
    <2> HIDE DEF taken, Put
    <2> QED BY <1>2, <1>5, FunctionIsSeq
<1>7. Len(taken) = n
    BY <1>2, <1>5, <1>6, LenProperties
<1> QED BY <1>2, <1>4, <1>6, <1>7 DEF n

----------------------------------------------------------------------------
(* Types *)

LEMMA InitTyped == Init => TypeOK
<1> SUFFICES ASSUME Init PROVE TypeOK
    OBVIOUS
<1> USE PlaybackAssumption DEF PlaybackAssumption
<1>1. track_queues \in [Client -> Seq(Event)]
    <2>1. ASSUME NEW c \in Client PROVE [i \in Events(c) |-> i] \in Seq(Event)
        <3>1. Track[c] \in Seq(Nat)
            OBVIOUS
        <3>2. Len(Track[c]) \in Nat /\ Events(c) = 1 .. Len(Track[c])
            BY <3>1, LenProperties DEF Events
        <3>3. Events(c) \subseteq Event
            BY DEF Event
        <3>4. [i \in Events(c) |-> i] \in [1 .. Len(Track[c]) -> Event]
            BY <3>2, <3>3
        <3> QED BY <3>2, <3>4, FunctionIsSeq
    <2>2. track_queues = [c \in Client |-> [i \in Events(c) |-> i]]
        BY DEF Init
    <2> QED BY <2>1, <2>2
<1>2. avg_delay \in [Client -> Nat]
    BY DEF Init, Estimates
<1>3. max_client_delay \in Nat
    BY <1>2, GreatestBounds DEF Init
<1>4. <<>> \in Seq(Seq(Event)) /\ Len(<<>>) <= MaxWaiting
      /\ <<>> \in Seq([first : Nat, event : Event])
      /\ <<>> \in Seq([time : Nat, event : Event])
    BY EmptySeq
<1>5. began \in Begins /\ midi_timer \in began .. MaxTimer
    BY DEF Init
<1>6. commands \in Nat /\ lost \in Nat /\ duplicated \in Nat /\ overtaken \in Nat
      /\ Upsets <= MaxUpsets
    BY DEF Init, Upsets
<1> QED BY <1>1, <1>2, <1>3, <1>4, <1>5, <1>6 DEF Init, TypeOK

LEMMA Numbers ==
    ASSUME TypeOK, NEW c \in Client
    PROVE  midi_timer \in Nat /\ began \in Nat /\ delay[c] \in Nat /\ avg_delay[c] \in Nat
<1>1. /\ delay \in [Client -> Delays] /\ avg_delay \in [Client -> Nat]
      /\ began \in Begins /\ midi_timer \in began .. MaxTimer
    BY DEF TypeOK
<1>2. Delays \subseteq Nat /\ Begins \subseteq 0 .. MaxTimer /\ MaxTimer \in Nat
    BY PlaybackAssumption DEF PlaybackAssumption
<1>3. delay[c] \in Delays /\ avg_delay[c] \in Nat /\ began \in Nat
    BY <1>1, <1>2
<1>4. midi_timer \in Nat
    BY <1>1, <1>2, <1>3
<1> QED BY <1>2, <1>3, <1>4

LEMMA PlayMidiDataTyped ==
    ASSUME TypeOK, NEW c \in Client, NEW queue \in Seq([first : Nat, event : Event]),
           PlayMidiData(c, queue)
    PROVE  /\ queued_events' \in [Client -> Seq([first : Nat, event : Event])]
           /\ heard' \in [Client -> Seq([time : Nat, event : Event])]
<1> DEFINE Put == [first : Nat, event : Event]
           Sound == [time : Nat, event : Event]
<1>1. PICK n \in 0 .. Len(queue) : Plays(c, queue, n)
    BY PlayedIsPrefix
<1>2. SubSeq(queue, n + 1, Len(queue)) \in Seq(Put)
    <2> HIDE DEF Put
    <2> QED BY Suffix DEF Put
<1>3. n \in Nat /\ \A i \in 1 .. n : queue[i] \in Put
    <2>1. Len(queue) \in Nat /\ queue \in Seq(Put)
        BY LenProperties
    <2> HIDE DEF Put
    <2> QED BY <2>1, ElementOfSeq
<1>4. [i \in 1 .. n |-> [time |-> midi_timer, event |-> queue[i].event]] \in [1 .. n -> Sound]
    BY <1>3, Numbers
<1>5. heard[c] \o [i \in 1 .. n |-> [time |-> midi_timer, event |-> queue[i].event]] \in Seq(Sound)
    BY <1>3, <1>4, FunctionIsSeq, ConcatProperties DEF TypeOK
<1>6. queued_events \in [Client -> Seq(Put)] /\ heard \in [Client -> Seq(Sound)]
    BY DEF TypeOK
<1> HIDE DEF Put, Sound
<1> QED BY <1>1, <1>2, <1>5, <1>6 DEF Put, Sound, Plays

(* A disturbance more, while there may be one *)
LEMMA OneUpsetMore ==
    ASSUME TypeOK, Upsets < MaxUpsets,
           commands' \in Nat, lost' \in Nat, duplicated' \in Nat, overtaken' \in Nat,
           commands' + lost' + duplicated' + overtaken' = commands + lost + duplicated + overtaken + 1
    PROVE  (Upsets <= MaxUpsets)'
<1>1. MaxUpsets \in Nat
    BY PlaybackAssumption DEF PlaybackAssumption
<1>2. Upsets \in Nat
    BY DEF TypeOK, Upsets
<1>3. Upsets' = Upsets + 1
    BY DEF Upsets
<1> QED BY <1>1, <1>2, <1>3

LEMMA PlayTrackTyped ==
    ASSUME TypeOK, NEW c \in Client, PlayTrack(c)
    PROVE  TypeOK'
<1> USE PlaybackAssumption DEF PlaybackAssumption
<1>1. track_queues[c] \in Seq(Event) /\ socket[c] \in Seq(Seq(Event))
    BY DEF TypeOK
<1>2. PICK n \in 0 .. Len(track_queues[c]) : Due(c) = SubSeq(track_queues[c], 1, n)
    BY <1>1, DueIsPrefix
<1>3. Due(c) \in Seq(Event) /\ Len(Due(c)) = n
    BY <1>1, <1>2, Prefix
<1>4. SubSeq(track_queues[c], Len(Due(c)) + 1, Len(track_queues[c])) \in Seq(Event)
    BY <1>1, <1>3, Suffix
<1>5. Sent(socket[c], Due(c)) \in Seq(Seq(Event)) /\ Len(Sent(socket[c], Due(c))) <= MaxWaiting
    <2>1. Len(socket[c]) \in Nat /\ Len(socket[c]) <= MaxWaiting
        BY <1>1, LenProperties DEF TypeOK
    <2>2. Append(socket[c], Due(c)) \in Seq(Seq(Event))
          /\ Len(Append(socket[c], Due(c))) = Len(socket[c]) + 1
        BY <1>1, <1>3, AppendProperties
    <2> QED BY <1>1, <2>1, <2>2 DEF Sent
<1>6. track_queues' \in [Client -> Seq(Event)]
    BY <1>4 DEF TypeOK, PlayTrack
<1>7. socket' \in [Client -> Seq(Seq(Event))] /\ \A d \in Client : Len(socket'[d]) <= MaxWaiting
    <2>1. socket' = [socket EXCEPT ![c] = Sent(@, Due(c))]
        BY DEF PlayTrack
    <2> HIDE DEF PlayTrack
    <2> QED BY <1>5, <2>1 DEF TypeOK
<1>8. late' \in [Client -> 0 .. Lag]
    BY DEF TypeOK, PlayTrack
<1> QED BY <1>6, <1>7, <1>8 DEF TypeOK, PlayTrack, sync, users, network, Upsets

LEMMA HandleClientTimingTyped ==
    ASSUME TypeOK, NEW c \in Client, HandleClientTiming(c)
    PROVE  TypeOK'
<1> USE PlaybackAssumption DEF PlaybackAssumption
<1>1. PICK lag \in 0 .. Lag :
          avg_delay' = [avg_delay EXCEPT
                           ![c] = Smoothed(@, HalfTrip(RoundTrip(delay[c]) + lag))]
    BY DEF HandleClientTiming
<1>2. avg_delay[c] \in Nat /\ delay[c] \in Nat /\ lag \in Nat
    BY Numbers
<1>3. HalfTrip(RoundTrip(delay[c]) + lag) \in Nat
    BY <1>2 DEF HalfTrip, RoundTrip
<1>4. Smoothed(avg_delay[c], HalfTrip(RoundTrip(delay[c]) + lag)) \in Nat
    BY <1>2, <1>3 DEF Smoothed
<1>5. avg_delay' \in [Client -> Nat]
    BY <1>1, <1>4 DEF TypeOK
<1>6. max_client_delay' \in Nat
    <2>1. Greatest(avg_delay') \in Nat
        BY <1>5, GreatestBounds
    <2> QED BY <2>1, Zenon DEF HandleClientTiming, TypeOK
<1>7. answers' \in 0 .. MaxAnswers
    BY DEF HandleClientTiming, TypeOK
<1> QED BY <1>5, <1>6, <1>7 DEF TypeOK, HandleClientTiming, server, users, network, Upsets

LEMMA TwiddleTyped ==
    ASSUME TypeOK, NEW c \in Client, Twiddle(c)
    PROVE  TypeOK'
<1> USE PlaybackAssumption DEF PlaybackAssumption
<1> DEFINE Put == [first : Nat, event : Event]
           queue == IF Receives(c) THEN Queued(c, Head(socket[c])) ELSE queued_events[c]
<1>1. queue \in Seq(Put)
    <2>1. queued_events[c] \in Seq(Put) /\ midi_timer \in Nat /\ delay[c] \in Nat
        BY Numbers DEF TypeOK
    <2>2. CASE Receives(c)
        <3>1. Head(socket[c]) \in Seq(Event)
            BY <2>2, HeadTailProperties DEF TypeOK, Receives
        <3>2. PutOff(c, Head(socket[c])) \in Seq(Put)
            BY <2>1, <3>1, TakenInOrder
        <3> HIDE DEF Put
        <3> QED BY <2>1, <2>2, <3>2, ConcatProperties DEF Queued
    <2> QED BY <2>1, <2>2
<1>2. PlayMidiData(c, queue)
    BY DEF Twiddle
<1>3. /\ queued_events' \in [Client -> Seq([first : Nat, event : Event])]
      /\ heard' \in [Client -> Seq([time : Nat, event : Event])]
    <2> HIDE DEF queue
    <2> QED BY <1>1, <1>2, PlayMidiDataTyped
<1>4. socket' \in [Client -> Seq(Seq(Event))] /\ \A d \in Client : Len(socket'[d]) <= MaxWaiting
    <2>1. CASE Receives(c)
        <3>1. socket[c] \in Seq(Seq(Event)) /\ socket[c] # <<>> /\ Len(socket[c]) <= MaxWaiting
            BY <2>1 DEF TypeOK, Receives
        <3>2. Len(socket[c]) \in Nat /\ Tail(socket[c]) \in Seq(Seq(Event))
              /\ Len(Tail(socket[c])) = Len(socket[c]) - 1
            BY <3>1, HeadTailProperties, LenProperties
        <3>3. socket' = [socket EXCEPT ![c] = Tail(@)]
            BY <2>1 DEF Twiddle
        <3>4. Len(Tail(socket[c])) <= MaxWaiting
            BY <3>1, <3>2
        <3> QED BY <3>2, <3>3, <3>4 DEF TypeOK
    <2>2. CASE ~Receives(c)
        BY <2>2 DEF TypeOK, Twiddle
    <2> QED BY <2>1, <2>2
<1> QED BY <1>3, <1>4 DEF TypeOK, Twiddle, server, sync, users, network, Upsets

(* A line on stdin: the delay and whether the client is stopped change,    *)
(* and what is ready of its queue, or of none, is played.                  *)
LEMMA TypedLine ==
    ASSUME TypeOK, NEW c \in Client, SetDelay(c) \/ Stop(c) \/ Start(c)
    PROVE  TypeOK'
<1> DEFINE Put == [first : Nat, event : Event]
<1>1. \E queue \in Seq(Put) : PlayMidiData(c, queue)
    <2>1. queued_events[c] \in Seq(Put) /\ <<>> \in Seq(Put)
        BY EmptySeq DEF TypeOK
    <2> HIDE DEF Put
    <2> QED BY <2>1 DEF SetDelay, Stop, Start
<1>2. /\ queued_events' \in [Client -> Seq([first : Nat, event : Event])]
      /\ heard' \in [Client -> Seq([time : Nat, event : Event])]
    BY <1>1, PlayMidiDataTyped
<1>3. commands' \in Nat /\ (Upsets <= MaxUpsets)' /\ UNCHANGED <<lost, duplicated, overtaken>>
    <2>1. UNCHANGED <<lost, duplicated, overtaken>>
        BY DEF SetDelay, Stop, Start, network
    <2>2. commands \in Nat /\ lost \in Nat /\ duplicated \in Nat /\ overtaken \in Nat
        BY DEF TypeOK
    <2>3. CASE commands' = commands + 1 /\ Upsets < MaxUpsets
        BY <2>1, <2>2, <2>3, OneUpsetMore
    <2>4. CASE commands' = commands
        BY <2>1, <2>2, <2>4 DEF TypeOK, Upsets
    <2>5. (commands' = commands + 1 /\ Upsets < MaxUpsets) \/ commands' = commands
        BY DEF SetDelay, Stop, Start
    <2> QED BY <2>1, <2>3, <2>4, <2>5
<1>4. delay' \in [Client -> Delays]
    BY DEF TypeOK, SetDelay, Stop, Start
<1>5. client_alive' \in [Client -> BOOLEAN]
    BY DEF TypeOK, SetDelay, Stop, Start
<1>6. UNCHANGED <<midi_timer, began, server, sync, socket>>
    BY DEF SetDelay, Stop, Start
<1> QED BY <1>2, <1>3, <1>4, <1>5, <1>6 DEF TypeOK, server, sync

LEMMA TickTyped == TypeOK /\ Tick => TypeOK'
<1> SUFFICES ASSUME TypeOK, Tick PROVE TypeOK'
    OBVIOUS
<1> USE PlaybackAssumption DEF PlaybackAssumption
<1>1. late' \in [Client -> 0 .. Lag]
    <2>1. ASSUME NEW c \in Client
          PROVE  (IF FrontDue(c) THEN late[c] + 1 ELSE 0) \in 0 .. Lag
        <3>1. late[c] \in 0 .. Lag /\ Lag \in Nat
            BY DEF TypeOK
        <3>2. FrontDue(c) => late[c] < Lag
            BY DEF Tick
        <3> QED BY <3>1, <3>2
    <2>2. late' = [c \in Client |-> IF FrontDue(c) THEN late[c] + 1 ELSE 0]
        BY DEF Tick
    <2> QED BY <2>1, <2>2
<1>2. midi_timer' \in began .. MaxTimer /\ began' = began
    <2>1. began \in Nat /\ MaxTimer \in Nat /\ midi_timer \in began .. MaxTimer
        BY DEF TypeOK
    <2>2. midi_timer' = midi_timer + 1 /\ midi_timer < MaxTimer /\ began' = began
        BY DEF Tick
    <2> QED BY <2>1, <2>2
<1> QED BY <1>1, <1>2 DEF TypeOK, Tick, sync, users, network, Upsets

(* What the network leaves in a socket are messages that were in it, and   *)
(* all of them unless it loses one.                                        *)
Disturb(c) == Lose(c) \/ Duplicate(c) \/ Overtake(c)

Disturbed(before, after, wasLost) ==
    /\ Len(after) <= MaxWaiting
    /\ \A k \in DOMAIN after : \E l \in DOMAIN before : after[k] = before[l]
    /\ ~wasLost => \A l \in DOMAIN before : \E k \in DOMAIN after : after[k] = before[l]

LEMMA LosesOne ==
    ASSUME NEW before \in Seq(Seq(Event)), before # <<>>, Len(before) <= MaxWaiting
    PROVE  Tail(before) \in Seq(Seq(Event)) /\ Disturbed(before, Tail(before), TRUE)
<1> DEFINE n == Len(before)
           after == Tail(before)
<1>1. n \in Nat \ {0} /\ DOMAIN before = 1 .. n /\ MaxWaiting \in Nat
    BY LenProperties, EmptySeq, PlaybackAssumption DEF PlaybackAssumption
<1>2. /\ after \in Seq(Seq(Event)) /\ Len(after) = n - 1
      /\ \A k \in 1 .. n - 1 : after[k] = before[k + 1]
      /\ DOMAIN after = 1 .. n - 1
    BY HeadTailProperties, LenProperties
<1> HIDE DEF n, after
<1>3. \A k \in 1 .. n - 1 : k + 1 \in 1 .. n
    BY <1>1
<1>4. n - 1 <= MaxWaiting
    BY <1>1 DEF n
<1> QED BY <1>1, <1>2, <1>3, <1>4 DEF Disturbed, after

LEMMA DuplicatesOne ==
    ASSUME NEW before \in Seq(Seq(Event)), Len(before) < MaxWaiting, NEW j \in DOMAIN before
    PROVE  /\ Append(before, before[j]) \in Seq(Seq(Event))
           /\ Disturbed(before, Append(before, before[j]), FALSE)
<1> DEFINE n == Len(before)
           after == Append(before, before[j])
<1>1. n \in Nat /\ DOMAIN before = 1 .. n /\ MaxWaiting \in Nat /\ n < MaxWaiting
    BY LenProperties, PlaybackAssumption DEF PlaybackAssumption
<1>2. before[j] \in Seq(Event)
    BY <1>1, ElementOfSeq
<1>3. /\ after \in Seq(Seq(Event)) /\ Len(after) = n + 1
      /\ \A k \in 1 .. n : after[k] = before[k]
      /\ after[n + 1] = before[j]
      /\ DOMAIN after = 1 .. n + 1
    BY <1>2, AppendProperties, LenProperties
<1> HIDE DEF n, after
<1>4. (\A k \in 1 .. n + 1 : k \in 1 .. n \/ k = n + 1) /\ \A k \in 1 .. n : k \in 1 .. n + 1
    BY <1>1
<1>5. n + 1 <= MaxWaiting
    BY <1>1
<1> QED BY <1>1, <1>3, <1>4, <1>5 DEF Disturbed, after

LEMMA OvertakesOne ==
    ASSUME NEW before \in Seq(Seq(Event)), Len(before) <= MaxWaiting,
           NEW i \in DOMAIN before, NEW j \in DOMAIN before,
           NEW after, after = [before EXCEPT ![i] = before[j], ![j] = before[i]]
    PROVE  after \in Seq(Seq(Event)) /\ Disturbed(before, after, FALSE)
<1> DEFINE n == Len(before)
<1>1. n \in Nat /\ DOMAIN before = 1 .. n /\ before \in [1 .. n -> Seq(Event)]
    BY LenProperties, ElementOfSeq
<1> HIDE DEF n
<1>2. after \in [1 .. n -> Seq(Event)]
    BY <1>1
<1>3. after \in Seq(Seq(Event)) /\ Len(after) = n /\ DOMAIN after = 1 .. n
    <2>1. after \in Seq(Seq(Event)) /\ DOMAIN after = 1 .. n
        BY <1>1, <1>2, FunctionIsSeq
    <2> QED BY <1>1, <2>1, LenProperties
<1>4. /\ after[j] = before[i] /\ (i # j => after[i] = before[j])
      /\ \A k \in 1 .. n : k # i /\ k # j => after[k] = before[k]
    BY <1>1
<1>5. i = j => after[i] = before[j]
    BY <1>4
<1> QED BY <1>1, <1>3, <1>4, <1>5 DEF Disturbed, n

LEMMA NetworkStep ==
    ASSUME TypeOK, NEW c \in Client, Disturb(c)
    PROVE  /\ \E after \in Seq(Seq(Event)) : /\ socket' = [socket EXCEPT ![c] = after]
                                             /\ Disturbed(socket[c], after, lost' # 0)
           /\ UNCHANGED <<midi_timer, began, server, sync, queued_events, users, heard>>
<1>1. socket[c] \in Seq(Seq(Event)) /\ Len(socket[c]) <= MaxWaiting /\ lost \in Nat
    BY DEF TypeOK
<1>2. UNCHANGED <<midi_timer, began, server, sync, queued_events, users, heard>>
    BY DEF Disturb, Lose, Duplicate, Overtake
<1>3. ASSUME NEW after, socket' = [socket EXCEPT ![c] = after], after \in Seq(Seq(Event)),
             NEW wasLost \in BOOLEAN, Disturbed(socket[c], after, wasLost), wasLost => lost' # 0
      PROVE  \E m \in Seq(Seq(Event)) : /\ socket' = [socket EXCEPT ![c] = m]
                                         /\ Disturbed(socket[c], m, lost' # 0)
    <2>1. Disturbed(socket[c], after, lost' # 0)
        BY <1>3 DEF Disturbed
    <2> QED BY <1>3, <2>1
<1>4. CASE Lose(c)
    <2>1. socket' = [socket EXCEPT ![c] = Tail(socket[c])] /\ socket[c] # <<>> /\ lost' = lost + 1
        BY <1>4 DEF Lose, Upset
    <2>2. lost' # 0
        BY <1>1, <2>1
    <2>3. Tail(socket[c]) \in Seq(Seq(Event)) /\ Disturbed(socket[c], Tail(socket[c]), TRUE)
        BY <1>1, <2>1, LosesOne
    <2> QED BY <1>2, <1>3, <2>1, <2>2, <2>3
<1>5. CASE Duplicate(c)
    <2>1. PICK j \in DOMAIN socket[c] : socket' = [socket EXCEPT ![c] = Append(socket[c], socket[c][j])]
        BY <1>5 DEF Duplicate
    <2>2. Len(socket[c]) < MaxWaiting
        BY <1>5 DEF Duplicate
    <2>3. /\ Append(socket[c], socket[c][j]) \in Seq(Seq(Event))
          /\ Disturbed(socket[c], Append(socket[c], socket[c][j]), FALSE)
        BY <1>1, <2>2, DuplicatesOne
    <2> QED BY <1>2, <1>3, <2>1, <2>3
<1>6. CASE Overtake(c)
    <2>1. PICK i \in DOMAIN socket[c], j \in DOMAIN socket[c] :
              socket' = [socket EXCEPT ![c] = [@ EXCEPT ![i] = socket[c][j], ![j] = socket[c][i]]]
        BY <1>6 DEF Overtake
    <2> DEFINE after == [socket[c] EXCEPT ![i] = socket[c][j], ![j] = socket[c][i]]
    <2>2. socket' = [socket EXCEPT ![c] = after]
        BY <2>1
    <2>3. after \in Seq(Seq(Event)) /\ Disturbed(socket[c], after, FALSE)
        BY <1>1, OvertakesOne
    <2> HIDE DEF after
    <2> QED BY <1>2, <1>3, <2>2, <2>3
<1> QED BY <1>4, <1>5, <1>6 DEF Disturb

LEMMA DisturbTyped ==
    ASSUME TypeOK, NEW c \in Client, Disturb(c)
    PROVE  TypeOK'
<1>1. PICK after \in Seq(Seq(Event)) : /\ socket' = [socket EXCEPT ![c] = after]
                                      /\ Disturbed(socket[c], after, lost' # 0)
    BY NetworkStep
<1>2. UNCHANGED <<midi_timer, began, server, sync, queued_events, users, heard>>
    BY NetworkStep
<1>3. socket' \in [Client -> Seq(Seq(Event))] /\ \A d \in Client : Len(socket'[d]) <= MaxWaiting
    <2>1. Len(after) <= MaxWaiting
        BY <1>1 DEF Disturbed
    <2> QED BY <1>1, <2>1 DEF TypeOK
<1>4. /\ commands' \in Nat /\ lost' \in Nat /\ duplicated' \in Nat /\ overtaken' \in Nat
      /\ (Upsets <= MaxUpsets)'
    <2>1. commands \in Nat /\ lost \in Nat /\ duplicated \in Nat /\ overtaken \in Nat
        BY DEF TypeOK
    <2>2. commands' = commands /\ Upsets < MaxUpsets
        BY <1>2 DEF users, Disturb, Lose, Duplicate, Overtake, Upset
    <2>3. \/ lost' = lost + 1 /\ duplicated' = duplicated /\ overtaken' = overtaken
          \/ lost' = lost /\ duplicated' = duplicated + 1 /\ overtaken' = overtaken
          \/ lost' = lost /\ duplicated' = duplicated /\ overtaken' = overtaken + 1
        BY DEF Disturb, Lose, Duplicate, Overtake
    <2>4. /\ lost' \in Nat /\ duplicated' \in Nat /\ overtaken' \in Nat
          /\ commands' + lost' + duplicated' + overtaken' = commands + lost + duplicated + overtaken + 1
        <3>1. \A w, x, y, z \in Nat : /\ w + (x + 1) + y + z = w + x + y + z + 1
                                      /\ w + x + (y + 1) + z = w + x + y + z + 1
                                      /\ x + 1 \in Nat
            OBVIOUS
        <3>2. CASE lost' = lost + 1 /\ duplicated' = duplicated /\ overtaken' = overtaken
            BY <2>1, <2>2, <3>1, <3>2
        <3>3. CASE lost' = lost /\ duplicated' = duplicated + 1 /\ overtaken' = overtaken
            BY <2>1, <2>2, <3>1, <3>3
        <3>4. CASE lost' = lost /\ duplicated' = duplicated /\ overtaken' = overtaken + 1
            BY <2>1, <2>2, <3>4
        <3> QED BY <2>3, <3>2, <3>3, <3>4
    <2>5. commands' \in Nat
        BY <2>1, <2>2
    <2>6. (Upsets <= MaxUpsets)'
        BY <2>2, <2>4, <2>5, OneUpsetMore
    <2> QED BY <2>4, <2>5, <2>6
<1> QED BY <1>2, <1>3, <1>4 DEF TypeOK, server, sync, users

LEMMA StepTyped == TypeOK /\ [Next]_vars => TypeOK'
<1> SUFFICES ASSUME TypeOK, [Next]_vars PROVE TypeOK'
    OBVIOUS
<1>1. ASSUME NEW c \in Client, PlayTrack(c) PROVE TypeOK'
    BY <1>1, PlayTrackTyped
<1>2. ASSUME NEW c \in Client, HandleClientTiming(c) PROVE TypeOK'
    BY <1>2, HandleClientTimingTyped
<1>3. ASSUME NEW c \in Client, Twiddle(c) PROVE TypeOK'
    BY <1>3, TwiddleTyped
<1>4. ASSUME NEW c \in Client, SetDelay(c) \/ Stop(c) \/ Start(c) PROVE TypeOK'
    BY <1>4, TypedLine
<1>5. CASE Tick
    BY <1>5, TickTyped
<1>6. CASE UNCHANGED vars
    BY <1>6 DEF TypeOK, vars, server, sync, users, network, Upsets
<1>7. ASSUME NEW c \in Client, Disturb(c) PROVE TypeOK'
    BY <1>7, DisturbTyped
<1> QED BY <1>1, <1>2, <1>3, <1>4, <1>5, <1>6, <1>7 DEF Next, Disturb

(* Types *)
THEOREM TypeCorrect == Spec => []TypeOK
<1> QED BY InitTyped, StepTyped, PTL DEF Spec

----------------------------------------------------------------------------
(* Order.  An event goes from the track's queue into a message, from the   *)
(* socket into queued_events and from there to what is heard: whatever is  *)
(* further on is earlier in the song, and each stage is in order.          *)

Increasing(message) == \A i, j \in DOMAIN message : i < j => message[i] < message[j]
InOrder(queue)      == \A i, j \in DOMAIN queue : i < j => queue[i].event < queue[j].event

EventsIn(queue)  == {queue[i].event : i \in DOMAIN queue}
Waiting(messages) == UNION {Range(messages[k]) : k \in DOMAIN messages}
Below(A, B)       == \A a \in A, b \in B : a < b

Sorted(played, queue, messages, track) ==
    /\ InOrder(played) /\ InOrder(queue) /\ Increasing(track)
    /\ \A k \in DOMAIN messages : Increasing(messages[k])
    /\ \A k, l \in DOMAIN messages : k < l => Below(Range(messages[k]), Range(messages[l]))
    /\ Below(EventsIn(played), EventsIn(queue) \cup Waiting(messages) \cup Range(track))
    /\ Below(EventsIn(queue), Waiting(messages) \cup Range(track))
    /\ Below(Waiting(messages), Range(track))

SortedInv == \A c \in Client : Sorted(heard[c], queued_events[c], socket[c], track_queues[c])

(* That is so until the network duplicates a message or lets one overtake  *)
(* another; the queues of the server are in order anyway.                  *)
Undisturbed == duplicated = 0 /\ overtaken = 0

TracksInOrder == \A c \in Client : Increasing(track_queues[c])

OrderInv == TracksInOrder /\ (Undisturbed => SortedInv)

(* The front of a track and the rest of it *)
LEMMA MessageSplits ==
    ASSUME NEW track \in Seq(Event), NEW n \in 0 .. Len(track), Increasing(track),
           NEW front, front = SubSeq(track, 1, n),
           NEW rest, rest = SubSeq(track, n + 1, Len(track))
    PROVE  /\ Increasing(front) /\ Increasing(rest)
           /\ Range(front) \subseteq Range(track) /\ Range(rest) \subseteq Range(track)
           /\ Below(Range(front), Range(rest))
<1>1. Len(track) \in Nat /\ DOMAIN track = 1 .. Len(track)
    BY LenProperties
<1>2. DOMAIN front = 1 .. n /\ \A i \in 1 .. n : front[i] = track[i]
    BY Prefix, LenProperties
<1>3. DOMAIN rest = 1 .. Len(track) - n /\ \A i \in 1 .. Len(track) - n : rest[i] = track[n + i]
    BY Suffix, LenProperties
<1>4. \A i \in DOMAIN track, j \in DOMAIN track : i < j => track[i] < track[j]
    BY DEF Increasing
<1>5. Increasing(front)
    BY <1>1, <1>2, <1>4 DEF Increasing
<1>6. Increasing(rest)
    <2> SUFFICES ASSUME NEW i \in 1 .. Len(track) - n, NEW j \in 1 .. Len(track) - n, i < j
                 PROVE  rest[i] < rest[j]
        BY <1>3 DEF Increasing
    <2>1. n + i \in DOMAIN track /\ n + j \in DOMAIN track /\ n + i < n + j
        BY <1>1
    <2> QED BY <1>3, <1>4, <2>1
<1>7. Range(front) \subseteq Range(track)
    BY <1>1, <1>2 DEF Range
<1>8. Range(rest) \subseteq Range(track)
    <2>1. \A i \in 1 .. Len(track) - n : n + i \in DOMAIN track
        BY <1>1
    <2> QED BY <1>3, <2>1 DEF Range
<1>9. Below(Range(front), Range(rest))
    <2> SUFFICES ASSUME NEW i \in 1 .. n, NEW j \in 1 .. Len(track) - n
                 PROVE  front[i] < rest[j]
        BY <1>2, <1>3 DEF Below, Range
    <2>1. i \in DOMAIN track /\ n + j \in DOMAIN track /\ i < n + j
        BY <1>1
    <2> QED BY <1>2, <1>3, <1>4, <2>1
<1> QED BY <1>5, <1>6, <1>7, <1>8, <1>9

(* The front of a client's queue, when it is played, and the rest of it *)
FrontOf(queue, front, n) ==
    DOMAIN front = 1 .. n /\ \A i \in 1 .. n : front[i].event = queue[i].event

LEMMA QueueSplits ==
    ASSUME NEW S, NEW queue \in Seq(S), NEW n \in 0 .. Len(queue), InOrder(queue),
           NEW front, FrontOf(queue, front, n),
           NEW rest, rest = SubSeq(queue, n + 1, Len(queue))
    PROVE  /\ InOrder(front) /\ InOrder(rest)
           /\ EventsIn(front) \subseteq EventsIn(queue) /\ EventsIn(rest) \subseteq EventsIn(queue)
           /\ Below(EventsIn(front), EventsIn(rest))
<1>1. Len(queue) \in Nat /\ DOMAIN queue = 1 .. Len(queue)
    BY LenProperties
<1>2. DOMAIN front = 1 .. n /\ \A i \in 1 .. n : front[i].event = queue[i].event
    BY DEF FrontOf
<1>3. DOMAIN rest = 1 .. Len(queue) - n /\ \A i \in 1 .. Len(queue) - n : rest[i] = queue[n + i]
    BY Suffix, LenProperties
<1>4. \A i \in DOMAIN queue, j \in DOMAIN queue : i < j => queue[i].event < queue[j].event
    BY DEF InOrder
<1>5. InOrder(front)
    BY <1>1, <1>2, <1>4 DEF InOrder
<1>6. InOrder(rest)
    <2> SUFFICES ASSUME NEW i \in 1 .. Len(queue) - n, NEW j \in 1 .. Len(queue) - n, i < j
                 PROVE  rest[i].event < rest[j].event
        BY <1>3 DEF InOrder
    <2>1. n + i \in DOMAIN queue /\ n + j \in DOMAIN queue /\ n + i < n + j
        BY <1>1
    <2> QED BY <1>3, <1>4, <2>1
<1>7. EventsIn(front) \subseteq EventsIn(queue)
    BY <1>1, <1>2 DEF EventsIn
<1>8. EventsIn(rest) \subseteq EventsIn(queue)
    <2>1. \A i \in 1 .. Len(queue) - n : n + i \in DOMAIN queue
        BY <1>1
    <2> QED BY <1>3, <2>1 DEF EventsIn
<1>9. Below(EventsIn(front), EventsIn(rest))
    <2> SUFFICES ASSUME NEW i \in 1 .. n, NEW j \in 1 .. Len(queue) - n
                 PROVE  front[i].event < rest[j].event
        BY <1>2, <1>3 DEF Below, EventsIn
    <2>1. i \in DOMAIN queue /\ n + j \in DOMAIN queue /\ i < n + j
        BY <1>1
    <2> QED BY <1>2, <1>3, <1>4, <2>1
<1> QED BY <1>5, <1>6, <1>7, <1>8, <1>9

(* One queue behind another *)
LEMMA EventsJoin ==
    ASSUME NEW S, NEW queue \in Seq(S), NEW more \in Seq(S)
    PROVE  /\ DOMAIN (queue \o more) = 1 .. Len(queue) + Len(more)
           /\ \A i \in 1 .. Len(queue) : (queue \o more)[i] = queue[i]
           /\ \A j \in 1 .. Len(more) : (queue \o more)[Len(queue) + j] = more[j]
           /\ \A k \in 1 .. Len(queue) + Len(more) :
                 k \in 1 .. Len(queue) \/ \E j \in 1 .. Len(more) : k = Len(queue) + j
           /\ EventsIn(queue \o more) = EventsIn(queue) \cup EventsIn(more)
<1> DEFINE both == queue \o more
           n == Len(queue)
           m == Len(more)
<1>1. n \in Nat /\ m \in Nat /\ DOMAIN queue = 1 .. n /\ DOMAIN more = 1 .. m
    BY LenProperties
<1>2. DOMAIN both = 1 .. n + m
    BY <1>1, ConcatProperties, LenProperties
<1>3. \A i \in 1 .. n + m : both[i] = IF i <= n THEN queue[i] ELSE more[i - n]
    BY ConcatProperties
<1> HIDE DEF both, n, m
<1>4. \A i \in 1 .. n : both[i] = queue[i]
    BY <1>1, <1>3
<1>5. \A j \in 1 .. m : both[n + j] = more[j] /\ n + j \in 1 .. n + m
    BY <1>1, <1>3
<1>6. \A k \in 1 .. n + m : k \in 1 .. n \/ \E j \in 1 .. m : k = n + j
    <2> SUFFICES ASSUME NEW k \in 1 .. n + m, k \notin 1 .. n PROVE \E j \in 1 .. m : k = n + j
        OBVIOUS
    <2>1. k - n \in 1 .. m /\ k = n + (k - n)
        BY <1>1
    <2> QED BY <2>1
<1>7. EventsIn(both) = EventsIn(queue) \cup EventsIn(more)
    <2>1. EventsIn(both) \subseteq EventsIn(queue) \cup EventsIn(more)
        <3> SUFFICES ASSUME NEW k \in 1 .. n + m
                     PROVE  both[k].event \in EventsIn(queue) \cup EventsIn(more)
            BY <1>2 DEF EventsIn
        <3>1. CASE k \in 1 .. n
            BY <1>1, <1>4, <3>1 DEF EventsIn
        <3>2. CASE k \notin 1 .. n
            <4>1. PICK j \in 1 .. m : k = n + j
                BY <1>6, <3>2
            <4> QED BY <1>1, <1>5, <4>1 DEF EventsIn
        <3> QED BY <3>1, <3>2
    <2>2. EventsIn(queue) \subseteq EventsIn(both)
        BY <1>1, <1>2, <1>4 DEF EventsIn
    <2>3. EventsIn(more) \subseteq EventsIn(both)
        BY <1>1, <1>2, <1>5 DEF EventsIn
    <2> QED BY <2>1, <2>2, <2>3
<1> QED BY <1>2, <1>4, <1>5, <1>6, <1>7 DEF both, n, m

(* ... and in order behind it *)
LEMMA QueuesJoin ==
    ASSUME NEW S, NEW queue \in Seq(S), NEW more \in Seq(S),
           InOrder(queue), InOrder(more), Below(EventsIn(queue), EventsIn(more))
    PROVE  /\ InOrder(queue \o more)
           /\ EventsIn(queue \o more) = EventsIn(queue) \cup EventsIn(more)
<1> DEFINE both == queue \o more
           n == Len(queue)
           m == Len(more)
<1>1. n \in Nat /\ m \in Nat /\ DOMAIN queue = 1 .. n /\ DOMAIN more = 1 .. m
    BY LenProperties
<1>2. DOMAIN both = 1 .. n + m /\ \A i \in 1 .. n : both[i] = queue[i]
    BY EventsJoin
<1>3. \A j \in 1 .. m : both[n + j] = more[j]
    BY EventsJoin
<1>4. \A k \in 1 .. n + m : k \in 1 .. n \/ \E j \in 1 .. m : k = n + j
    BY EventsJoin
<1> HIDE DEF both, n, m
<1>5. InOrder(both)
    <2> SUFFICES ASSUME NEW k \in 1 .. n + m, NEW l \in 1 .. n + m, k < l
                 PROVE  both[k].event < both[l].event
        BY <1>2 DEF InOrder
    <2>1. CASE k \in 1 .. n /\ l \in 1 .. n
        BY <1>1, <1>2, <2>1 DEF InOrder
    <2>2. CASE k \in 1 .. n /\ l \notin 1 .. n
        <3>1. PICK j \in 1 .. m : l = n + j
            BY <1>4, <2>2
        <3>2. queue[k].event \in EventsIn(queue) /\ more[j].event \in EventsIn(more)
            BY <1>1, <2>2 DEF EventsIn
        <3> QED BY <1>2, <1>3, <2>2, <3>1, <3>2 DEF Below
    <2>3. CASE k \notin 1 .. n
        <3>1. PICK i \in 1 .. m : k = n + i
            BY <1>4, <2>3
        <3>2. l \notin 1 .. n
            BY <1>1, <2>3
        <3>3. PICK j \in 1 .. m : l = n + j
            BY <1>4, <3>2
        <3>4. i < j
            BY <1>1, <3>1, <3>3
        <3> QED BY <1>1, <1>3, <3>1, <3>3, <3>4 DEF InOrder
    <2> QED BY <2>1, <2>2, <2>3
<1> QED BY <1>5, EventsJoin DEF both

(* A message leaves the server, or is dropped. *)
LEMMA SendingSorted ==
    ASSUME NEW played, NEW queue, NEW messages \in Seq(Seq(Event)), NEW track \in Seq(Event),
           Sorted(played, queue, messages, track), NEW n \in 0 .. Len(track),
           NEW front, front = SubSeq(track, 1, n),
           NEW rest, rest = SubSeq(track, n + 1, Len(track))
    PROVE  /\ Sorted(played, queue, messages, rest)
           /\ Sorted(played, queue, Append(messages, front), rest)
<1> DEFINE more == Append(messages, front)
           m == Len(messages)
<1>1. Increasing(track)
    BY DEF Sorted
<1>2. /\ Increasing(front) /\ Increasing(rest)
      /\ Range(front) \subseteq Range(track) /\ Range(rest) \subseteq Range(track)
      /\ Below(Range(front), Range(rest))
    BY <1>1, MessageSplits
<1>3. Sorted(played, queue, messages, rest)
    BY <1>2 DEF Sorted, Below
<1>4. m \in Nat /\ DOMAIN messages = 1 .. m /\ DOMAIN more = 1 .. m + 1
      /\ more[m + 1] = front /\ \A k \in 1 .. m : more[k] = messages[k]
    <2>1. front \in Seq(Event)
        BY Prefix
    <2>2. more \in Seq(Seq(Event)) /\ Len(more) = m + 1 /\ more[m + 1] = front
          /\ \A k \in 1 .. m : more[k] = messages[k]
        BY <2>1, AppendProperties
    <2> QED BY <2>2, LenProperties
<1> HIDE DEF more, m
<1>5. \A k \in 1 .. m : Range(messages[k]) \subseteq Waiting(messages)
    BY <1>4 DEF Waiting
<1>6. Waiting(more) = Waiting(messages) \cup Range(front)
    <2>1. \A k \in 1 .. m + 1 : k \in 1 .. m \/ k = m + 1
        BY <1>4
    <2>2. \A k \in 1 .. m : k \in 1 .. m + 1
        BY <1>4
    <2>3. m + 1 \in 1 .. m + 1
        BY <1>4
    <2> QED BY <1>4, <2>1, <2>2, <2>3 DEF Waiting
<1>7. \A k \in DOMAIN more : Increasing(more[k])
    <2>1. \A k \in 1 .. m + 1 : k \in 1 .. m \/ k = m + 1
        BY <1>4
    <2> QED BY <1>2, <1>4, <2>1 DEF Sorted
<1>8. \A k, l \in DOMAIN more : k < l => Below(Range(more[k]), Range(more[l]))
    <2> SUFFICES ASSUME NEW k \in 1 .. m + 1, NEW l \in 1 .. m + 1, k < l
                 PROVE  Below(Range(more[k]), Range(more[l]))
        BY <1>4
    <2>1. k \in 1 .. m
        BY <1>4
    <2>2. CASE l \in 1 .. m
        BY <1>4, <2>1, <2>2 DEF Sorted
    <2>3. CASE l = m + 1
        <3>1. Below(Waiting(messages), Range(track))
            BY DEF Sorted
        <3> QED BY <1>2, <1>4, <1>5, <2>1, <2>3, <3>1 DEF Below
    <2> QED BY <1>4, <2>2, <2>3
<1>9. /\ Below(EventsIn(played), EventsIn(queue) \cup Waiting(more) \cup Range(rest))
      /\ Below(EventsIn(queue), Waiting(more) \cup Range(rest))
      /\ Below(Waiting(more), Range(rest))
    BY <1>2, <1>6 DEF Sorted, Below
<1> QED BY <1>2, <1>3, <1>7, <1>8, <1>9 DEF Sorted, more

(* The client queues what it takes of a message. *)
LEMMA ReceivingSorted ==
    ASSUME NEW S, NEW played, NEW queue \in Seq(S), NEW messages \in Seq(Seq(Event)), NEW track,
           Sorted(played, queue, messages, track), messages # <<>>,
           NEW more \in Seq(S), InOrder(more), EventsIn(more) \subseteq Range(Head(messages))
    PROVE  Sorted(played, queue \o more, Tail(messages), track)
<1> DEFINE m == Len(messages)
           left == Tail(messages)
<1>1. m \in Nat \ {0} /\ DOMAIN messages = 1 .. m
    BY LenProperties, EmptySeq
<1>2. Head(messages) = messages[1]
    OBVIOUS
<1>3. DOMAIN left = 1 .. m - 1 /\ \A k \in 1 .. m - 1 : left[k] = messages[k + 1]
    BY HeadTailProperties, LenProperties
<1> HIDE DEF m, left
<1>4. EventsIn(more) \subseteq Waiting(messages)
    <2>1. 1 \in DOMAIN messages
        BY <1>1
    <2> QED BY <1>2, <2>1 DEF Waiting
<1>5. InOrder(queue \o more) /\ EventsIn(queue \o more) = EventsIn(queue) \cup EventsIn(more)
    <2>1. Below(EventsIn(queue), EventsIn(more))
        BY <1>4 DEF Sorted, Below
    <2>2. InOrder(queue)
        BY DEF Sorted
    <2> QED BY <2>1, <2>2, QueuesJoin
<1>6. \A k \in 1 .. m - 1 : k + 1 \in DOMAIN messages /\ 1 < k + 1 /\ 1 \in DOMAIN messages
    BY <1>1
<1>7. Waiting(left) \subseteq Waiting(messages)
    BY <1>3, <1>6 DEF Waiting
<1>8. Below(EventsIn(more), Waiting(left))
    <2> SUFFICES ASSUME NEW a \in EventsIn(more), NEW k \in 1 .. m - 1, NEW b \in Range(left[k])
                 PROVE  a < b
        BY <1>3 DEF Below, Waiting
    <2>1. Below(Range(messages[1]), Range(messages[k + 1]))
        BY <1>6 DEF Sorted
    <2> QED BY <1>2, <1>3, <2>1 DEF Below
<1>9. \A k \in DOMAIN left : Increasing(left[k])
    BY <1>3, <1>6 DEF Sorted
<1>10. \A k, l \in DOMAIN left : k < l => Below(Range(left[k]), Range(left[l]))
    <2> SUFFICES ASSUME NEW k \in 1 .. m - 1, NEW l \in 1 .. m - 1, k < l
                 PROVE  Below(Range(left[k]), Range(left[l]))
        BY <1>3
    <2>1. k + 1 < l + 1
        BY <1>1
    <2> QED BY <1>3, <1>6, <2>1 DEF Sorted
<1>11. /\ Below(EventsIn(played), EventsIn(queue \o more) \cup Waiting(left) \cup Range(track))
       /\ Below(Waiting(left), Range(track))
    BY <1>4, <1>5, <1>7 DEF Sorted, Below
<1>12. Below(EventsIn(queue \o more), Waiting(left) \cup Range(track))
    BY <1>4, <1>5, <1>7, <1>8 DEF Sorted, Below
<1> QED BY <1>5, <1>9, <1>10, <1>11, <1>12 DEF Sorted, left

(* The client plays the front of its queue. *)
LEMMA PlayingSorted ==
    ASSUME NEW S, NEW S2, NEW played \in Seq(S2), NEW queue \in Seq(S), NEW messages, NEW track,
           Sorted(played, queue, messages, track), NEW n \in 0 .. Len(queue), NEW front \in Seq(S2),
           FrontOf(queue, front, n),
           NEW rest, rest = SubSeq(queue, n + 1, Len(queue))
    PROVE  Sorted(played \o front, rest, messages, track)
<1>1. InOrder(played) /\ InOrder(queue)
    BY DEF Sorted
<1>2. /\ InOrder(front) /\ InOrder(rest)
      /\ EventsIn(front) \subseteq EventsIn(queue) /\ EventsIn(rest) \subseteq EventsIn(queue)
      /\ Below(EventsIn(front), EventsIn(rest))
    BY <1>1, QueueSplits
<1>3. Below(EventsIn(played), EventsIn(front))
    BY <1>2 DEF Sorted, Below
<1>4. /\ InOrder(played \o front)
      /\ EventsIn(played \o front) = EventsIn(played) \cup EventsIn(front)
    BY <1>1, <1>2, <1>3, QueuesJoin
<1>5. Below(EventsIn(played \o front), EventsIn(rest) \cup Waiting(messages) \cup Range(track))
    BY <1>2, <1>4 DEF Sorted, Below
<1>6. Below(EventsIn(rest), Waiting(messages) \cup Range(track))
    BY <1>2 DEF Sorted, Below
<1> QED BY <1>2, <1>4, <1>5, <1>6 DEF Sorted

(* "stop" empties the queue. *)
LEMMA ForgettingSorted ==
    ASSUME NEW played, NEW queue, NEW messages, NEW track, Sorted(played, queue, messages, track)
    PROVE  Sorted(played, <<>>, messages, track)
<1>1. InOrder(<<>>) /\ EventsIn(<<>>) = {}
    BY DEF InOrder, EventsIn
<1> QED BY <1>1 DEF Sorted, Below

LEMMA InitSorted == Init => OrderInv
<1> SUFFICES ASSUME Init, NEW c \in Client
             PROVE  /\ Increasing(track_queues[c])
                    /\ Sorted(heard[c], queued_events[c], socket[c], track_queues[c])
    BY DEF OrderInv, TracksInOrder, SortedInv
<1>1. heard[c] = <<>> /\ queued_events[c] = <<>> /\ socket[c] = <<>>
    BY DEF Init
<1>2. track_queues[c] = [i \in Events(c) |-> i]
    BY DEF Init
<1>3. Increasing(track_queues[c])
    BY <1>2 DEF Increasing
<1>4. InOrder(<<>>) /\ EventsIn(<<>>) = {} /\ Waiting(<<>>) = {}
    BY DEF InOrder, EventsIn, Waiting
<1>5. \A A : Below({}, A)
    BY DEF Below
<1>6. \A k \in DOMAIN <<>> : FALSE
    OBVIOUS
<1> QED BY <1>1, <1>3, <1>4, <1>5, <1>6 DEF Sorted

LEMMA PlayTrackSorted ==
    ASSUME TypeOK, SortedInv, NEW c \in Client, PlayTrack(c)
    PROVE  SortedInv'
<1> DEFINE rest == SubSeq(track_queues[c], Len(Due(c)) + 1, Len(track_queues[c]))
<1>1. track_queues[c] \in Seq(Event) /\ socket[c] \in Seq(Seq(Event))
    BY DEF TypeOK
<1>2. PICK n \in 0 .. Len(track_queues[c]) : Due(c) = SubSeq(track_queues[c], 1, n)
    BY <1>1, DueIsPrefix
<1>3. rest = SubSeq(track_queues[c], n + 1, Len(track_queues[c]))
    <2>1. Len(Due(c)) = n
        BY <1>1, <1>2, Prefix
    <2> QED BY <2>1
<1>4. Sorted(heard[c], queued_events[c], socket[c], track_queues[c])
    BY DEF SortedInv
<1> HIDE DEF rest
<1>5. /\ Sorted(heard[c], queued_events[c], socket[c], rest)
      /\ Sorted(heard[c], queued_events[c], Append(socket[c], Due(c)), rest)
    BY <1>1, <1>2, <1>3, <1>4, SendingSorted
<1>6. Sorted(heard[c], queued_events[c], Sent(socket[c], Due(c)), rest)
    BY <1>5 DEF Sent
<1>7. /\ heard' = heard /\ queued_events' = queued_events
      /\ socket' = [socket EXCEPT ![c] = Sent(@, Due(c))]
      /\ track_queues' = [track_queues EXCEPT ![c] = rest]
    BY DEF PlayTrack, users, rest
<1>8. socket'[c] = Sent(socket[c], Due(c)) /\ track_queues'[c] = rest
      /\ \A d \in Client \ {c} : socket'[d] = socket[d] /\ track_queues'[d] = track_queues[d]
    BY <1>7 DEF TypeOK
<1> QED BY <1>6, <1>7, <1>8 DEF SortedInv

(* The client plays from a queue that is in order with what it has in its  *)
(* socket after the step.                                                  *)
LEMMA PlayMidiDataSorted ==
    ASSUME TypeOK, SortedInv, NEW c \in Client, NEW queue \in Seq([first : Nat, event : Event]),
           PlayMidiData(c, queue), Sorted(heard[c], queue, socket'[c], track_queues[c]),
           track_queues' = track_queues, \A d \in Client \ {c} : socket'[d] = socket[d]
    PROVE  SortedInv'
<1> DEFINE Sound == [time : Nat, event : Event]
           Put == [first : Nat, event : Event]
<1>1. PICK n \in 0 .. Len(queue) : Plays(c, queue, n)
    BY PlayedIsPrefix
<1> DEFINE front == [i \in 1 .. n |-> [time |-> midi_timer, event |-> queue[i].event]]
<1>2. n \in Nat /\ \A i \in 1 .. n : queue[i] \in Put
    <2>1. Len(queue) \in Nat /\ queue \in Seq(Put)
        BY LenProperties
    <2> HIDE DEF Put
    <2> QED BY <2>1, ElementOfSeq
<1>3. front \in [1 .. n -> Sound]
    <2>1. midi_timer \in Nat
        BY Numbers
    <2> QED BY <1>2, <2>1
<1>4. FrontOf(queue, front, n)
    BY DEF FrontOf
<1>5. heard[c] \in Seq(Sound)
    BY DEF TypeOK
<1> HIDE DEF front, Sound
<1>6. front \in Seq(Sound)
    BY <1>2, <1>3, FunctionIsSeq
<1>7. queue \in Seq(Put)
    OBVIOUS
<1> HIDE DEF Put
<1>8. Sorted(heard[c] \o front, SubSeq(queue, n + 1, Len(queue)), socket'[c], track_queues[c])
    BY <1>4, <1>5, <1>6, <1>7, PlayingSorted
<1>9. /\ queued_events'[c] = SubSeq(queue, n + 1, Len(queue)) /\ heard'[c] = heard[c] \o front
      /\ \A d \in Client \ {c} : queued_events'[d] = queued_events[d] /\ heard'[d] = heard[d]
    BY <1>1 DEF TypeOK, front, Plays
<1> QED BY <1>8, <1>9 DEF SortedInv

LEMMA TwiddleSorted ==
    ASSUME TypeOK, SortedInv, NEW c \in Client, Twiddle(c)
    PROVE  SortedInv'
<1> DEFINE Put == [first : Nat, event : Event]
<1>1. /\ queued_events[c] \in Seq(Put) /\ socket[c] \in Seq(Seq(Event))
      /\ midi_timer \in Nat /\ delay[c] \in Nat
    BY Numbers DEF TypeOK
<1>2. Sorted(heard[c], queued_events[c], socket[c], track_queues[c])
    BY DEF SortedInv
<1>3. track_queues' = track_queues
    BY DEF Twiddle, server
<1>4. CASE Receives(c)
    <2> DEFINE message == Head(socket[c])
               taken == PutOff(c, message)
    <2>1. socket[c] # <<>>
        BY <1>4 DEF Receives
    <2>2. message \in Seq(Event)
        BY <1>1, <2>1, HeadTailProperties
    <2> HIDE DEF message
    <2>3. /\ taken \in Seq(Put) /\ Len(taken) <= Len(message)
          /\ \A i \in 1 .. Len(taken) : taken[i].event = message[i]
        <3>1. midi_timer \in Nat /\ delay[c] \in Nat
            BY <1>1
        <3>2. taken \in Seq(Put) /\ Len(taken) <= Len(message)
            BY <2>2, <3>1, PlaybackAssumption, TakenInOrder
        <3>3. \A i \in 1 .. Len(taken) : taken[i].event = message[i]
            BY <2>2, <3>1, PlaybackAssumption, TakenInOrder
        <3> QED BY <3>2, <3>3
    <2>4. /\ Len(taken) \in Nat /\ Len(message) \in Nat
          /\ DOMAIN taken = 1 .. Len(taken) /\ DOMAIN message = 1 .. Len(message)
        BY <2>2, <2>3, LenProperties
    <2> HIDE DEF taken, Put
    <2>5. \A i \in DOMAIN taken : i \in DOMAIN message
        BY <2>3, <2>4
    <2>6. Increasing(message)
        <3>1. 1 \in DOMAIN socket[c] /\ message = socket[c][1]
            BY <1>1, <2>1, LenProperties, EmptySeq DEF message
        <3> QED BY <1>2, <3>1 DEF Sorted
    <2>7. InOrder(taken)
        BY <2>3, <2>4, <2>5, <2>6 DEF InOrder, Increasing
    <2>8. EventsIn(taken) \subseteq Range(message)
        BY <2>3, <2>4, <2>5 DEF EventsIn, Range
    <2>9. Sorted(heard[c], queued_events[c] \o taken, Tail(socket[c]), track_queues[c])
        BY <1>1, <1>2, <2>1, <2>3, <2>7, <2>8, ReceivingSorted DEF message
    <2>10. queued_events[c] \o taken \in Seq(Put)
        BY <1>1, <2>3, ConcatProperties
    <2>11. PlayMidiData(c, queued_events[c] \o taken)
        BY <1>4 DEF Twiddle, Queued, taken, message
    <2>12. socket'[c] = Tail(socket[c]) /\ \A d \in Client \ {c} : socket'[d] = socket[d]
        BY <1>4 DEF Twiddle, TypeOK
    <2> QED BY <1>3, <2>9, <2>10, <2>11, <2>12, PlayMidiDataSorted DEF Put
<1>5. CASE ~Receives(c)
    <2>1. socket' = socket /\ PlayMidiData(c, queued_events[c])
        BY <1>5 DEF Twiddle
    <2> QED BY <1>1, <1>2, <1>3, <2>1, PlayMidiDataSorted
<1> QED BY <1>4, <1>5

LEMMA TypedLineSorted ==
    ASSUME TypeOK, SortedInv, NEW c \in Client, SetDelay(c) \/ Stop(c) \/ Start(c)
    PROVE  SortedInv'
<1> DEFINE Put == [first : Nat, event : Event]
<1>1. Sorted(heard[c], queued_events[c], socket[c], track_queues[c])
    BY DEF SortedInv
<1>2. Sorted(heard[c], <<>>, socket[c], track_queues[c])
    BY <1>1, ForgettingSorted
<1>3. queued_events[c] \in Seq(Put) /\ <<>> \in Seq(Put)
    BY EmptySeq DEF TypeOK
<1>4. track_queues' = track_queues /\ socket' = socket
    BY DEF SetDelay, Stop, Start, server
<1>5. PlayMidiData(c, queued_events[c]) \/ PlayMidiData(c, <<>>)
    BY DEF SetDelay, Stop, Start
<1>6. CASE PlayMidiData(c, queued_events[c])
    BY <1>1, <1>3, <1>4, <1>6, PlayMidiDataSorted
<1>7. CASE PlayMidiData(c, <<>>)
    BY <1>2, <1>3, <1>4, <1>7, PlayMidiDataSorted
<1> QED BY <1>5, <1>6, <1>7

(* A message is lost. *)
LEMMA LoseSorted ==
    ASSUME TypeOK, SortedInv, NEW c \in Client, Lose(c)
    PROVE  SortedInv'
<1> DEFINE Put == [first : Nat, event : Event]
<1>1. /\ queued_events[c] \in Seq(Put) /\ socket[c] \in Seq(Seq(Event)) /\ socket[c] # <<>>
    BY DEF TypeOK, Lose, Upset
<1>2. Sorted(heard[c], queued_events[c], socket[c], track_queues[c])
    BY DEF SortedInv
<1>3. <<>> \in Seq(Put) /\ InOrder(<<>>) /\ EventsIn(<<>>) \subseteq Range(Head(socket[c]))
    BY EmptySeq DEF InOrder, EventsIn
<1> HIDE DEF Put
<1>4. Sorted(heard[c], queued_events[c] \o <<>>, Tail(socket[c]), track_queues[c])
    BY <1>1, <1>2, <1>3, ReceivingSorted
<1>5. queued_events[c] \o <<>> = queued_events[c]
    BY <1>1, ConcatEmptySeq
<1>6. /\ heard' = heard /\ queued_events' = queued_events /\ track_queues' = track_queues
      /\ socket'[c] = Tail(socket[c]) /\ \A d \in Client \ {c} : socket'[d] = socket[d]
    BY DEF Lose, server, TypeOK
<1> QED BY <1>4, <1>5, <1>6 DEF SortedInv

(* What the server leaves of a track is in order. *)
LEMMA StepTracksInOrder ==
    ASSUME TypeOK, TracksInOrder, [Next]_vars
    PROVE  TracksInOrder'
<1>1. ASSUME NEW c \in Client, PlayTrack(c) PROVE TracksInOrder'
    <2>1. track_queues[c] \in Seq(Event) /\ Increasing(track_queues[c])
        BY DEF TypeOK, TracksInOrder
    <2>2. PICK n \in 0 .. Len(track_queues[c]) : Due(c) = SubSeq(track_queues[c], 1, n)
        BY <2>1, DueIsPrefix
    <2> DEFINE rest == SubSeq(track_queues[c], Len(Due(c)) + 1, Len(track_queues[c]))
    <2>3. rest = SubSeq(track_queues[c], n + 1, Len(track_queues[c]))
        <3>1. Len(Due(c)) = n
            BY <2>1, <2>2, Prefix
        <3> QED BY <3>1
    <2>4. track_queues' = [track_queues EXCEPT ![c] = rest]
        BY <1>1 DEF PlayTrack
    <2> HIDE DEF rest
    <2>5. Increasing(rest)
        BY <2>1, <2>2, <2>3, MessageSplits
    <2>6. track_queues'[c] = rest /\ \A d \in Client \ {c} : track_queues'[d] = track_queues[d]
        BY <2>4 DEF TypeOK
    <2> QED BY <2>5, <2>6 DEF TracksInOrder
<1>2. CASE ~\E c \in Client : PlayTrack(c)
    <2>1. track_queues' = track_queues
        BY <1>2 DEF Next, HandleClientTiming, Twiddle, SetDelay, Stop, Start, Lose, Duplicate,
                    Overtake, Tick, vars, server
    <2> QED BY <2>1 DEF TracksInOrder
<1> QED BY <1>1, <1>2

LEMMA StepSorted == TypeOK /\ OrderInv /\ [Next]_vars => OrderInv'
<1> SUFFICES ASSUME TypeOK, OrderInv, [Next]_vars, Undisturbed' PROVE SortedInv'
    BY StepTracksInOrder DEF OrderInv
<1>0. Undisturbed /\ ~\E c \in Client : Duplicate(c) \/ Overtake(c)
    <2>1. duplicated \in Nat /\ overtaken \in Nat
        BY DEF TypeOK
    <2>2. ASSUME NEW c \in Client PROVE ~Duplicate(c) /\ ~Overtake(c)
        BY <2>1 DEF Duplicate, Overtake, Undisturbed
    <2>3. duplicated' = duplicated /\ overtaken' = overtaken
        BY <2>2 DEF Next, PlayTrack, HandleClientTiming, Twiddle, SetDelay, Stop, Start, Lose,
                    Tick, vars, network
    <2> QED BY <2>2, <2>3 DEF Undisturbed
<1> SortedInv
    BY <1>0 DEF OrderInv
<1>1. ASSUME NEW c \in Client, PlayTrack(c) PROVE SortedInv'
    BY <1>1, PlayTrackSorted
<1>2. ASSUME NEW c \in Client, HandleClientTiming(c) PROVE SortedInv'
    BY <1>2 DEF HandleClientTiming, SortedInv, server, users
<1>3. ASSUME NEW c \in Client, Twiddle(c) PROVE SortedInv'
    BY <1>3, TwiddleSorted
<1>4. ASSUME NEW c \in Client, SetDelay(c) \/ Stop(c) \/ Start(c) PROVE SortedInv'
    BY <1>4, TypedLineSorted
<1>5. CASE Tick
    BY <1>5 DEF Tick, SortedInv
<1>6. CASE UNCHANGED vars
    BY <1>6 DEF SortedInv, vars, server
<1>7. ASSUME NEW c \in Client, Lose(c) PROVE SortedInv'
    BY <1>7, LoseSorted
<1> QED BY <1>0, <1>1, <1>2, <1>3, <1>4, <1>5, <1>6, <1>7 DEF Next

(* A client plays its track in order, whatever is typed at it, however     *)
(* long the server leaves the track, whatever the network loses, its       *)
(* socket drops and its count of events forgets, as long as the network    *)
(* duplicates no message and lets none overtake another.                   *)
THEOREM PlaysInOrder == Spec => []HeardInOrder
<1>1. OrderInv => HeardInOrder
    BY DEF OrderInv, Undisturbed, SortedInv, Sorted, InOrder, HeardInOrder
<1> QED BY <1>1, InitTyped, StepTyped, InitSorted, StepSorted, PTL DEF Spec

----------------------------------------------------------------------------
(* Estimates.  However long a song, an estimate moves by no more than the  *)
(* server's lag makes the round trip longer, wherever in the rounding of   *)
(* the smoothing the song has found it.                                    *)

Half(d)    == HalfTrip(RoundTrip(d))
Longest(d) == HalfTrip(RoundTrip(d) + Lag)

(* What the estimate of a client with delay d that is a when the song      *)
(* starts may be while it plays                                            *)
Lowest(a, d)  == IF a <= Half(d) THEN a ELSE Half(d)
Highest(a, d) == IF a <= Longest(d) - 7 THEN Longest(d) - 7 ELSE a

(* How far apart these are: half of the lag, rounded up *)
Wandering == HalfTrip(Lag + 1)

LEMMA LagsHalf == Wandering \in Nat /\ 2 * Wandering <= Lag + 1
BY PlaybackAssumption DEF PlaybackAssumption, Wandering, HalfTrip

LEMMA EstimateStarts ==
    ASSUME NEW d \in Nat, NEW a \in Estimates(d)
    PROVE  /\ Lowest(a, d) \in Nat /\ Highest(a, d) \in Nat /\ Half(d) \in Nat /\ Longest(d) \in Nat
           /\ a \in Lowest(a, d) .. Highest(a, d)
           /\ Half(d) - 7 <= Lowest(a, d) /\ Highest(a, d) <= Longest(d)
           /\ Highest(a, d) <= Half(d) + Wandering
           /\ Highest(a, d) <= Lowest(a, d) + Wandering
<1>1. Lag \in Nat
    BY PlaybackAssumption DEF PlaybackAssumption
<1>2. a \in Nat /\ a <= Longest(d) /\ a >= Half(d) - 7
    BY <1>1 DEF Estimates, Half, Longest, HalfTrip, RoundTrip
<1>3. Half(d) \in Nat /\ Longest(d) \in Nat /\ Half(d) <= Longest(d)
      /\ Longest(d) <= Half(d) + Wandering /\ Wandering \in Nat
    BY <1>1 DEF Half, Longest, HalfTrip, RoundTrip, Wandering
<1> QED BY <1>2, <1>3 DEF Lowest, Highest

LEMMA EstimateStays ==
    ASSUME NEW d \in Nat, NEW a \in Estimates(d), NEW e \in Lowest(a, d) .. Highest(a, d),
           NEW lag \in 0 .. Lag
    PROVE  Smoothed(e, HalfTrip(RoundTrip(d) + lag)) \in Lowest(a, d) .. Highest(a, d)
<1>1. Lag \in Nat
    BY PlaybackAssumption DEF PlaybackAssumption
<1> DEFINE half == HalfTrip(RoundTrip(d) + lag)
<1>2. half \in Nat /\ Half(d) <= half /\ half <= Longest(d)
    BY <1>1 DEF Half, Longest, HalfTrip, RoundTrip
<1>3. /\ Lowest(a, d) \in Nat /\ Highest(a, d) \in Nat
      /\ Lowest(a, d) <= Half(d) /\ Longest(d) - 7 <= Highest(a, d)
      /\ Half(d) \in Nat /\ Longest(d) \in Nat
    BY EstimateStarts DEF Lowest, Highest, Estimates
<1> HIDE DEF half
<1> DEFINE low == Lowest(a, d)
           high == Highest(a, d)
<1>4. e \in Nat /\ low <= e /\ e <= high /\ low <= half /\ half <= high + 7
      /\ low \in Nat /\ high \in Nat
    BY <1>2, <1>3
<1> HIDE DEF low, high
<1>5. Smoothed(e, half) \in low .. high
    BY <1>2, <1>4 DEF Smoothed
<1> QED BY <1>5 DEF half, low, high

(* The song starts with the estimates a and the delays d of the clients. *)
StartsWith(a, d) == avg_delay = a /\ delay = d

Settled(a, d) ==
    /\ d \in [Client -> Delays] /\ a \in [Client -> Nat]
    /\ \A c \in Client : a[c] \in Estimates(d[c])

(* While nobody types a line, the estimates stay where they may be, and    *)
(* the greatest of some of them too.                                       *)
Lows(a, d)  == [c \in Client |-> Lowest(a[c], d[c])]
Highs(a, d) == [c \in Client |-> Highest(a[c], d[c])]

Estimated(a, d) ==
    Steady =>
    /\ delay = d
    /\ \A c \in Client : client_alive[c] /\ avg_delay[c] \in Lows(a, d)[c] .. Highs(a, d)[c]
    /\ max_client_delay \in Greatest(Lows(a, d)) .. Greatest(Highs(a, d))

LEMMA LowsAndHighs ==
    ASSUME NEW a, NEW d, Settled(a, d)
    PROVE  /\ Lows(a, d) \in [Client -> Nat] /\ Highs(a, d) \in [Client -> Nat]
           /\ Greatest(Lows(a, d)) \in Nat /\ Greatest(Highs(a, d)) \in Nat
           /\ \A c \in Client : d[c] \in Nat
<1>1. \A c \in Client : d[c] \in Nat
    BY PlaybackAssumption DEF PlaybackAssumption, Settled
<1>2. \A c \in Client : Lowest(a[c], d[c]) \in Nat /\ Highest(a[c], d[c]) \in Nat
    BY <1>1, EstimateStarts DEF Settled
<1>3. Lows(a, d) \in [Client -> Nat] /\ Highs(a, d) \in [Client -> Nat]
    BY <1>2 DEF Lows, Highs
<1> QED BY <1>1, <1>3, GreatestBounds, PlaybackAssumption

(* The greatest estimate of a round is within the same bounds. *)
LEMMA RoundEstimated ==
    ASSUME NEW a, NEW d, Settled(a, d), NEW estimates \in [Client -> Nat],
           \A c \in Client : estimates[c] \in Lows(a, d)[c] .. Highs(a, d)[c]
    PROVE  Greatest(estimates) \in Greatest(Lows(a, d)) .. Greatest(Highs(a, d))
<1> DEFINE low == Lows(a, d)
           high == Highs(a, d)
<1>1. low \in [Client -> Nat] /\ high \in [Client -> Nat]
    BY LowsAndHighs
<1>2. \A c \in Client : low[c] <= estimates[c] /\ estimates[c] <= high[c]
    BY <1>1
<1> HIDE DEF low, high
<1> USE PlaybackAssumption
<1>3. /\ Greatest(estimates) \in Nat /\ Greatest(low) \in Nat /\ Greatest(high) \in Nat
      /\ \A c \in Client : estimates[c] <= Greatest(estimates) /\ high[c] <= Greatest(high)
    BY <1>1, GreatestBounds
<1>4. Greatest(low) <= Greatest(estimates)
    <2>1. \A c \in Client : low[c] <= Greatest(estimates)
        BY <1>1, <1>2, <1>3
    <2> QED BY <1>1, <1>3, <2>1, GreatestBounds
<1>5. Greatest(estimates) <= Greatest(high)
    <2>1. \A c \in Client : estimates[c] <= Greatest(high)
        BY <1>1, <1>2, <1>3
    <2> QED BY <1>3, <2>1, GreatestBounds
<1> QED BY <1>3, <1>4, <1>5 DEF low, high

LEMMA InitEstimated ==
    ASSUME NEW a, NEW d, Init, StartsWith(a, d)
    PROVE  Settled(a, d) /\ Estimated(a, d)
<1>1. Settled(a, d)
    BY InitTyped DEF Init, StartsWith, Settled, TypeOK
<1>2. \A c \in Client : d[c] \in Nat
    BY <1>1, LowsAndHighs
<1>3. \A c \in Client : a[c] \in Lows(a, d)[c] .. Highs(a, d)[c]
    BY <1>1, <1>2, EstimateStarts DEF Settled, Lows, Highs
<1>4. max_client_delay \in Greatest(Lows(a, d)) .. Greatest(Highs(a, d))
    BY <1>1, <1>3, RoundEstimated DEF Init, StartsWith, Settled
<1> QED BY <1>1, <1>3, <1>4 DEF Estimated, StartsWith, Init

(* What a step does while nobody has typed a line yet *)
QuietStep ==
    /\ Steady
    /\ \/ \E c \in Client : PlayTrack(c) \/ HandleClientTiming(c) \/ Twiddle(c) \/ Disturb(c)
       \/ Tick
       \/ UNCHANGED vars

LEMMA Quiet ==
    ASSUME TypeOK, [Next]_vars, Steady', Steady => \A c \in Client : client_alive[c]
    PROVE  QuietStep
<1>1. commands \in Nat
    BY DEF TypeOK
<1>2. ASSUME NEW c \in Client, SetDelay(c) \/ Stop(c) PROVE FALSE
    BY <1>1, <1>2 DEF SetDelay, Stop, Steady
<1>3. commands' = commands
    BY <1>2 DEF Next, PlayTrack, HandleClientTiming, Twiddle, Start, Lose, Duplicate, Overtake,
                Tick, users, vars
<1>4. Steady
    BY <1>3 DEF Steady
<1>5. ASSUME NEW c \in Client, Start(c) PROVE FALSE
    BY <1>4, <1>5 DEF Start
<1> QED BY <1>2, <1>4, <1>5 DEF Next, QuietStep, Disturb

LEMMA StepEstimated ==
    ASSUME NEW a, NEW d, Settled(a, d), TypeOK, Estimated(a, d), [Next]_vars
    PROVE  Estimated(a, d)'
<1> SUFFICES ASSUME Steady'
             PROVE  /\ delay' = d
                    /\ \A c \in Client : /\ client_alive'[c]
                                         /\ avg_delay'[c] \in Lows(a, d)[c] .. Highs(a, d)[c]
                    /\ max_client_delay' \in Greatest(Lows(a, d)) .. Greatest(Highs(a, d))
    BY DEF Estimated, Lows, Highs, Lowest, Highest, Half, Longest, HalfTrip, RoundTrip, Greatest
<1>1. QuietStep
    BY Quiet DEF Estimated
<1>2. /\ delay = d /\ \A c \in Client : client_alive[c]
      /\ \A c \in Client : avg_delay[c] \in Lows(a, d)[c] .. Highs(a, d)[c]
      /\ max_client_delay \in Greatest(Lows(a, d)) .. Greatest(Highs(a, d))
    BY <1>1 DEF QuietStep, Estimated
<1>3. delay' = d /\ \A c \in Client : client_alive'[c]
    BY <1>1, <1>2 DEF QuietStep, PlayTrack, HandleClientTiming, Twiddle, Disturb, Lose, Duplicate,
                      Overtake, Tick, users, vars
<1>4. ASSUME NEW c \in Client, HandleClientTiming(c)
      PROVE  /\ \A e \in Client : avg_delay'[e] \in Lows(a, d)[e] .. Highs(a, d)[e]
             /\ max_client_delay' \in Greatest(Lows(a, d)) .. Greatest(Highs(a, d))
    <2>1. PICK lag \in 0 .. Lag :
              avg_delay' = [avg_delay EXCEPT
                               ![c] = Smoothed(@, HalfTrip(RoundTrip(delay[c]) + lag))]
        BY <1>4 DEF HandleClientTiming
    <2>2. d[c] \in Nat /\ a[c] \in Estimates(d[c])
        BY LowsAndHighs DEF Settled
    <2>3. avg_delay[c] \in Lowest(a[c], d[c]) .. Highest(a[c], d[c])
        BY <1>2 DEF Lows, Highs
    <2>4. avg_delay \in [Client -> Nat]
        BY DEF TypeOK
    <2>5. /\ avg_delay'[c] = Smoothed(avg_delay[c], HalfTrip(RoundTrip(d[c]) + lag))
          /\ \A e \in Client \ {c} : avg_delay'[e] = avg_delay[e]
        BY <1>2, <2>1, <2>4
    <2>6. avg_delay'[c] \in Lowest(a[c], d[c]) .. Highest(a[c], d[c])
        BY <2>2, <2>3, <2>5, EstimateStays
    <2>7. \A e \in Client : avg_delay'[e] \in Lows(a, d)[e] .. Highs(a, d)[e]
        BY <1>2, <2>5, <2>6 DEF Lows, Highs
    <2>8. avg_delay' \in [Client -> Nat]
        BY <1>4, HandleClientTimingTyped DEF TypeOK
    <2>9. Greatest(avg_delay') \in Greatest(Lows(a, d)) .. Greatest(Highs(a, d))
        BY <2>7, <2>8, RoundEstimated
    <2> QED BY <1>2, <1>4, <2>7, <2>9 DEF HandleClientTiming
<1>5. CASE \E c \in Client : HandleClientTiming(c)
    BY <1>3, <1>4, <1>5
<1>6. CASE ~\E c \in Client : HandleClientTiming(c)
    <2>1. avg_delay' = avg_delay /\ max_client_delay' = max_client_delay
        BY <1>1, <1>6 DEF QuietStep, PlayTrack, Twiddle, Disturb, Lose, Duplicate, Overtake, Tick,
                          sync, vars
    <2> QED BY <1>2, <1>3, <2>1
<1> QED BY <1>5, <1>6

----------------------------------------------------------------------------
(* Time.  While nobody types a line an event leaves the server no earlier  *)
(* than what its client is put off by at least after its time in the song  *)
(* and, with the lag, no later than what it is put off by at most after    *)
(* that, or after the song began; it is heard the client's delay and a     *)
(* millisecond later.                                                      *)

Earliest(a, d, c) == Greatest(Lows(a, d)) - Highs(a, d)[c]
PutOffMost(a, d, c) == Greatest(Highs(a, d)) - Lows(a, d)[c]
Latest(a, d, c)   == Lag + (IF PutOffMost(a, d, c) > 0 THEN PutOffMost(a, d, c) - 1 ELSE 0)

LEMMA TimesSpread ==
    ASSUME NEW a, NEW d, Settled(a, d), NEW c \in Client
    PROVE  /\ Earliest(a, d, c) \in Int /\ Latest(a, d, c) \in Nat
           /\ Lag <= Latest(a, d, c)
           /\ Latest(a, d, c) - Earliest(a, d, c) <= 2 * Lag
<1> DEFINE low == Lows(a, d)
           high == Highs(a, d)
           L == Greatest(low)
           H == Greatest(high)
<1>1. low \in [Client -> Nat] /\ high \in [Client -> Nat] /\ L \in Nat /\ H \in Nat
    BY LowsAndHighs
<1>2. \A f \in Client : low[f] <= high[f] /\ high[f] <= low[f] + Wandering
    <2> SUFFICES ASSUME NEW f \in Client
                 PROVE  Lowest(a[f], d[f]) <= Highest(a[f], d[f])
                        /\ Highest(a[f], d[f]) <= Lowest(a[f], d[f]) + Wandering
        BY DEF Lows, Highs
    <2>1. d[f] \in Nat /\ a[f] \in Estimates(d[f])
        BY LowsAndHighs DEF Settled
    <2> QED BY <2>1, EstimateStarts
<1>3. Wandering \in Nat /\ 2 * Wandering <= Lag + 1 /\ Lag \in Nat
    BY LagsHalf, PlaybackAssumption DEF PlaybackAssumption
<1> HIDE DEF low, high
<1>4. low[c] <= L /\ high[c] <= H
    BY <1>1, GreatestBounds, PlaybackAssumption
<1>5. H <= L + Wandering
    <2>1. \A f \in Client : high[f] <= L + Wandering
        <3> SUFFICES ASSUME NEW f \in Client PROVE high[f] <= L + Wandering
            OBVIOUS
        <3>1. low[f] <= L /\ low[f] \in Nat /\ high[f] \in Nat
            BY <1>1, GreatestBounds, PlaybackAssumption
        <3> QED BY <1>1, <1>2, <1>3, <3>1
    <2>2. L + Wandering \in Nat
        BY <1>1, <1>3
    <2> QED BY <1>1, <2>1, <2>2, GreatestBounds, PlaybackAssumption
<1>6. low[c] \in Nat /\ high[c] \in Nat /\ low[c] <= high[c] /\ high[c] <= low[c] + Wandering
    BY <1>1, <1>2
<1>7. Earliest(a, d, c) = L - high[c] /\ PutOffMost(a, d, c) = H - low[c]
    BY DEF Earliest, PutOffMost, low, high
<1> HIDE DEF L, H
<1> QED BY <1>1, <1>3, <1>4, <1>5, <1>6, <1>7 DEF Latest

LEMMA PutOffInWindow ==
    ASSUME NEW a, NEW d, Settled(a, d), TypeOK, Estimated(a, d), Steady, NEW c \in Client
    PROVE  /\ PutOffBy(c) \in Int
           /\ Earliest(a, d, c) <= PutOffBy(c)
           /\ PutOffBy(c) <= Latest(a, d, c) - Lag + 1
<1>1. /\ avg_delay[c] \in Lows(a, d)[c] .. Highs(a, d)[c]
      /\ max_client_delay \in Greatest(Lows(a, d)) .. Greatest(Highs(a, d))
    BY DEF Estimated
<1>2. /\ Lows(a, d)[c] \in Nat /\ Highs(a, d)[c] \in Nat
      /\ Greatest(Lows(a, d)) \in Nat /\ Greatest(Highs(a, d)) \in Nat
    BY LowsAndHighs
<1>3. Lag \in Nat
    BY PlaybackAssumption DEF PlaybackAssumption
<1> QED BY <1>1, <1>2, <1>3 DEF PutOffBy, Earliest, Latest, PutOffMost

(* An event of c is sent at a time that is due for it. *)
InTime(c, time, event, early, latest) ==
    /\ event \in Events(c)
    /\ time - Track[c][event] >= early /\ time - Moment(c, event) <= latest

TrackInTime(c, track, now, left, latest) ==
    /\ \A i \in DOMAIN track : track[i] \in Events(c)
    /\ track # <<>> => now - left <= Moment(c, Head(track)) + (latest - Lag)

MessagesInTime(c, messages, now, early, latest) ==
    \A k \in DOMAIN messages : \A i \in DOMAIN messages[k] :
        InTime(c, now, messages[k][i], early, latest)

QueueInTime(c, queue, now, early, latest) ==
    /\ \A i \in DOMAIN queue :
          /\ InTime(c, queue[i].first - delay[c], queue[i].event, early, latest)
          /\ queue[i].first \in now - 1 .. now + delay[c]
    /\ \A i, j \in DOMAIN queue : i <= j => queue[i].first <= queue[j].first

HeardInTime(c, played, early, latest) ==
    \A i \in DOMAIN played :
        InTime(c, played[i].time - delay[c] - 1, played[i].event, early, latest)

Timed(c, early, latest) ==
    /\ TrackInTime(c, track_queues[c], midi_timer, late[c], latest)
    /\ MessagesInTime(c, socket[c], midi_timer, early, latest)
    /\ QueueInTime(c, queued_events[c], midi_timer, early, latest)
    /\ HeardInTime(c, heard[c], early, latest)

LEMMA TimesOfTrack ==
    ASSUME NEW c \in Client
    PROVE  /\ \A i \in Events(c) : Track[c][i] \in Nat /\ i \in Nat
           /\ \A i, j \in Events(c) : i <= j => Track[c][i] <= Track[c][j]
<1>1. Track[c] \in Seq(Nat)
    BY PlaybackAssumption DEF PlaybackAssumption
<1>2. \A i \in DOMAIN Track[c] : Track[c][i] \in Nat /\ i \in Nat
    BY <1>1, LenProperties, ElementOfSeq
<1> QED BY <1>2, PlaybackAssumption DEF PlaybackAssumption, Events

LEMMA Moments ==
    ASSUME TypeOK, NEW c \in Client
    PROVE  /\ \A i \in Events(c) : /\ Track[c][i] \in Nat /\ Moment(c, i) \in Nat
                                   /\ Track[c][i] <= Moment(c, i) /\ began <= Moment(c, i)
                                   /\ Fresh(c, i) => Moment(c, i) = Track[c][i]
           /\ \A i, j \in Events(c) : i <= j => Moment(c, i) <= Moment(c, j)
<1>1. began \in Nat
    BY Numbers
<1>2. \A t \in Nat : LET m == IF t < began THEN began ELSE t
                     IN  m \in Nat /\ t <= m /\ began <= m /\ (t >= began => m = t)
    BY <1>1
<1>3. \A t, u \in Nat : t <= u =>
          (IF t < began THEN began ELSE t) <= (IF u < began THEN began ELSE u)
    BY <1>1
<1> QED BY <1>2, <1>3, TimesOfTrack DEF Moment, Fresh

(* The server's step. *)
LEMMA PlayTrackInTime ==
    ASSUME TypeOK, TracksInOrder, NEW c \in Client, NEW early \in Int, NEW latest \in Nat,
           Lag <= latest, PutOffBy(c) \in Int, early <= PutOffBy(c),
           PutOffBy(c) <= latest - Lag + 1,
           Timed(c, early, latest), PlayTrack(c)
    PROVE  Timed(c, early, latest)'
<1> DEFINE track == track_queues[c]
           rest  == SubSeq(track, Len(Due(c)) + 1, Len(track))
           now   == midi_timer
<1>1. track \in Seq(Event) /\ socket[c] \in Seq(Seq(Event)) /\ Len(track) \in Nat
      /\ DOMAIN track = 1 .. Len(track)
    BY LenProperties DEF TypeOK
<1>2. PICK n \in 0 .. Len(track) : /\ Due(c) = SubSeq(track, 1, n)
                                   /\ SplitsAt(track, HeldBack(c), n)
    BY <1>1, DueIsPrefix
<1>3. /\ Due(c) \in Seq(Event) /\ Len(Due(c)) = n
      /\ \A i \in 1 .. n : Due(c)[i] = track[i]
      /\ DOMAIN Due(c) = 1 .. n
    <2> HIDE DEF track
    <2>1. /\ Due(c) \in Seq(Event) /\ Len(Due(c)) = n
          /\ \A i \in 1 .. n : Due(c)[i] = track[i]
        BY <1>1, <1>2, Prefix
    <2> QED BY <2>1, LenProperties
<1>4. /\ rest \in Seq(Event) /\ Len(rest) = Len(track) - n
      /\ \A i \in 1 .. Len(track) - n : rest[i] = track[n + i]
      /\ DOMAIN rest = 1 .. Len(track) - n
    <2> HIDE DEF track
    <2>1. rest = SubSeq(track, n + 1, Len(track))
        BY <1>3
    <2>2. /\ rest \in Seq(Event) /\ Len(rest) = Len(track) - n
          /\ \A i \in 1 .. Len(track) - n : rest[i] = track[n + i]
        BY <1>1, <2>1, Suffix
    <2> QED BY <2>2, LenProperties
<1>5. now \in Nat /\ late[c] \in 0 .. Lag /\ Lag \in Nat
    BY Numbers, PlaybackAssumption DEF TypeOK, PlaybackAssumption
<1>6. /\ \A i \in 1 .. Len(track) : track[i] \in Events(c)
      /\ track # <<>> => now - late[c] <= Moment(c, Head(track)) + (latest - Lag)
    BY <1>1 DEF Timed, TrackInTime
<1>7. \A i \in 1 .. Len(track) : /\ Track[c][track[i]] \in Nat /\ Moment(c, track[i]) \in Nat
                                 /\ Track[c][track[i]] <= Moment(c, track[i])
                                 /\ Moment(c, track[1]) <= Moment(c, track[i])
    <2> SUFFICES ASSUME NEW i \in 1 .. Len(track)
                 PROVE  /\ Track[c][track[i]] \in Nat /\ Moment(c, track[i]) \in Nat
                        /\ Track[c][track[i]] <= Moment(c, track[i])
                        /\ Moment(c, track[1]) <= Moment(c, track[i])
        OBVIOUS
    <2>1. 1 \in 1 .. Len(track) /\ (1 < i \/ i = 1)
        BY <1>1
    <2>2. Increasing(track)
        BY DEF TracksInOrder
    <2>3. track[1] \in Events(c) /\ track[i] \in Events(c) /\ (track[1] < track[i] \/ track[1] = track[i])
        BY <1>1, <1>6, <2>1, <2>2 DEF Increasing
    <2>4. track[1] \in Nat /\ track[i] \in Nat /\ track[1] <= track[i]
        BY <2>3, TimesOfTrack
    <2> QED BY <2>3, <2>4, Moments
<1>8. \A i \in 1 .. n : InTime(c, now, Due(c)[i], early, latest)
    <2> SUFFICES ASSUME NEW i \in 1 .. n PROVE InTime(c, now, track[i], early, latest)
        BY <1>3
    <2>1. i \in 1 .. Len(track) /\ track # <<>>
        BY <1>1
    <2>2. ~(Track[c][track[i]] + PutOffBy(c) > now)
        BY <1>2, <2>1 DEF SplitsAt, HeldBack
    <2>3. Head(track) = track[1]
        OBVIOUS
    <2>4. now - late[c] <= Moment(c, track[1]) + (latest - Lag)
        BY <1>6, <2>1, <2>3
    <2>5. /\ Track[c][track[i]] \in Nat /\ Moment(c, track[i]) \in Nat
          /\ Moment(c, track[1]) \in Nat /\ Moment(c, track[1]) <= Moment(c, track[i])
        <3>1. 1 \in 1 .. Len(track)
            BY <1>1, <2>1
        <3> QED BY <1>7, <2>1, <3>1
    <2>6. now - Track[c][track[i]] >= early /\ now - Moment(c, track[i]) <= latest
        <3> DEFINE T == Track[c][track[i]]
                   M == Moment(c, track[i])
                   F == Moment(c, track[1])
        <3>1. ~(T + PutOffBy(c) > now) /\ now - late[c] <= F + (latest - Lag) /\ F <= M
              /\ T \in Nat /\ M \in Nat /\ F \in Nat
            BY <2>2, <2>4, <2>5
        <3> HIDE DEF T, M, F
        <3>2. now - T >= early /\ now - M <= latest
            BY <1>5, <3>1
        <3> QED BY <3>2 DEF T, M
    <2>7. track[i] \in Events(c)
        BY <1>6, <2>1
    <2> QED BY <2>6, <2>7 DEF InTime
<1>9. TrackInTime(c, rest, now, 0, latest)
    <2>1. \A i \in DOMAIN rest : rest[i] \in Events(c)
        <3>1. \A i \in 1 .. Len(track) - n : n + i \in 1 .. Len(track)
            BY <1>1
        <3> QED BY <1>4, <1>6, <3>1
    <2>2. ASSUME rest # <<>>
          PROVE  now - 0 <= Moment(c, Head(rest)) + (latest - Lag)
        <3>1. n < Len(track)
            <4>1. Len(rest) # 0
                BY <1>4, <2>2, EmptySeq
            <4> QED BY <1>1, <1>4, <4>1
        <3>2. n + 1 \in 1 .. Len(track) /\ 1 \in 1 .. Len(track) - n
            BY <1>1, <3>1
        <3>3. Head(rest) = track[n + 1]
            <4> HIDE DEF track, rest
            <4>1. Head(rest) = rest[1]
                OBVIOUS
            <4> QED BY <1>4, <3>2, <4>1
        <3>4. Track[c][track[n + 1]] + PutOffBy(c) > now
            BY <1>2, <3>1 DEF SplitsAt, HeldBack
        <3>5. /\ Track[c][track[n + 1]] \in Nat /\ Moment(c, track[n + 1]) \in Nat
              /\ Track[c][track[n + 1]] <= Moment(c, track[n + 1])
            <4> HIDE DEF track
            <4> QED BY <1>7, <3>2
        <3> DEFINE T == Track[c][track[n + 1]]
                   M == Moment(c, track[n + 1])
        <3>6. T \in Nat /\ M \in Nat /\ T <= M /\ T + PutOffBy(c) > now
            BY <3>4, <3>5
        <3> HIDE DEF T, M
        <3>7. now - 0 <= M + (latest - Lag)
            BY <1>5, <3>6
        <3> QED BY <3>3, <3>7 DEF M
    <2> QED BY <2>1, <2>2 DEF TrackInTime
<1>10. MessagesInTime(c, Sent(socket[c], Due(c)), now, early, latest)
    <2>1. MessagesInTime(c, socket[c], now, early, latest)
        BY DEF Timed
    <2>2. MessagesInTime(c, Append(socket[c], Due(c)), now, early, latest)
        <3> DEFINE more == Append(socket[c], Due(c))
                   m == Len(socket[c])
        <3>1. m \in Nat /\ DOMAIN socket[c] = 1 .. m /\ DOMAIN more = 1 .. m + 1
              /\ more[m + 1] = Due(c) /\ \A k \in 1 .. m : more[k] = socket[c][k]
            <4>1. more \in Seq(Seq(Event)) /\ Len(more) = m + 1 /\ more[m + 1] = Due(c)
                  /\ \A k \in 1 .. m : more[k] = socket[c][k]
                BY <1>1, <1>3, AppendProperties
            <4> QED BY <1>1, <4>1, LenProperties
        <3> HIDE DEF more, m
        <3>2. \A k \in 1 .. m + 1 : k \in 1 .. m \/ k = m + 1
            BY <3>1
        <3>3. MessagesInTime(c, more, now, early, latest)
            BY <1>3, <1>8, <2>1, <3>1, <3>2 DEF MessagesInTime
        <3> QED BY <3>3 DEF more
    <2> QED BY <2>1, <2>2 DEF Sent
<1>11. /\ track_queues'[c] = rest /\ socket'[c] = Sent(socket[c], Due(c)) /\ late'[c] = 0
       /\ UNCHANGED <<midi_timer, began, queued_events, delay, heard>>
    <2>1. track_queues' = [track_queues EXCEPT ![c] = rest]
        BY DEF PlayTrack
    <2>2. socket' = [socket EXCEPT ![c] = Sent(@, Due(c))] /\ late' = [late EXCEPT ![c] = 0]
          /\ UNCHANGED <<midi_timer, began, queued_events, delay, heard>>
        BY DEF PlayTrack, users
    <2> HIDE DEF rest
    <2> QED BY <2>1, <2>2 DEF TypeOK
<1> HIDE DEF rest, track
<1>12. QueueInTime(c, queued_events[c], now, early, latest)'
       /\ HeardInTime(c, heard[c], early, latest)'
    BY <1>11 DEF Timed, QueueInTime, HeardInTime, InTime, Moment
<1>13. TrackInTime(c, track_queues[c], midi_timer, late[c], latest)'
    BY <1>9, <1>11 DEF TrackInTime, Moment
<1>14. MessagesInTime(c, socket[c], midi_timer, early, latest)'
    BY <1>10, <1>11 DEF MessagesInTime, InTime, Moment
<1> QED BY <1>12, <1>13, <1>14 DEF Timed

(* The client's step: what it takes is due a delay from now, ... *)
LEMMA TakingInTime ==
    ASSUME TypeOK, NEW c \in Client, NEW early \in Int, NEW latest \in Nat,
           NEW S, NEW queue \in Seq(S), NEW taken \in Seq(S),
           QueueInTime(c, queue, midi_timer, early, latest),
           \A j \in 1 .. Len(taken) : /\ taken[j].first = midi_timer + delay[c]
                                      /\ InTime(c, midi_timer, taken[j].event, early, latest)
    PROVE  QueueInTime(c, queue \o taken, midi_timer, early, latest)
<1> DEFINE both == queue \o taken
           n == Len(queue)
           m == Len(taken)
           now == midi_timer
           held == delay[c]
<1>1. n \in Nat /\ m \in Nat /\ DOMAIN queue = 1 .. n /\ now \in Nat /\ held \in Nat
    BY Numbers, LenProperties
<1>2. /\ DOMAIN both = 1 .. n + m
      /\ \A i \in 1 .. n : both[i] = queue[i]
      /\ \A j \in 1 .. m : both[n + j] = taken[j]
      /\ \A k \in 1 .. n + m : k \in 1 .. n \/ \E j \in 1 .. m : k = n + j
    BY EventsJoin
<1>3. /\ \A i \in 1 .. n : /\ InTime(c, queue[i].first - held, queue[i].event, early, latest)
                           /\ queue[i].first \in now - 1 .. now + held
      /\ \A i, j \in 1 .. n : i <= j => queue[i].first <= queue[j].first
    BY <1>1 DEF QueueInTime
<1>4. \A j \in 1 .. m : taken[j].first = now + held /\ InTime(c, now, taken[j].event, early, latest)
    OBVIOUS
<1>5. (now + held) - held = now /\ now + held \in now - 1 .. now + held
    BY <1>1
<1> HIDE DEF both, n, m, now, held
<1>6. \A i \in 1 .. n : /\ InTime(c, both[i].first - held, both[i].event, early, latest)
                        /\ both[i].first \in now - 1 .. now + held
    BY <1>2, <1>3
<1>7. \A j \in 1 .. m : /\ InTime(c, both[n + j].first - held, both[n + j].event, early, latest)
                        /\ both[n + j].first = now + held
    BY <1>2, <1>4, <1>5
<1>8. \A k \in 1 .. n + m : /\ InTime(c, both[k].first - held, both[k].event, early, latest)
                            /\ both[k].first \in now - 1 .. now + held
    BY <1>2, <1>5, <1>6, <1>7
<1>9. ASSUME NEW k \in 1 .. n + m, NEW l \in 1 .. n + m, k <= l
      PROVE  both[k].first <= both[l].first
    <2>1. CASE l \in 1 .. n
        <3>1. k \in 1 .. n
            BY <1>1, <1>9, <2>1
        <3> QED BY <1>2, <1>3, <1>9, <2>1, <3>1
    <2>2. CASE l \notin 1 .. n
        <3>1. both[l].first = now + held
            BY <1>2, <1>7, <2>2
        <3>2. both[k].first \in now - 1 .. now + held
            BY <1>8
        <3> QED BY <1>1, <3>1, <3>2
    <2> QED BY <2>1, <2>2
<1>10. QueueInTime(c, both, now, early, latest)
    BY <1>2, <1>8, <1>9 DEF QueueInTime, held
<1> QED BY <1>10 DEF both, now

(* ... and what it plays was ready a millisecond ago. *)
LEMMA HearingInTime ==
    ASSUME NEW c, NEW early, NEW latest, NEW S, NEW played \in Seq(S), NEW more \in Seq(S),
           HeardInTime(c, played, early, latest),
           \A j \in 1 .. Len(more) :
               InTime(c, more[j].time - delay[c] - 1, more[j].event, early, latest)
    PROVE  HeardInTime(c, played \o more, early, latest)
<1> DEFINE both == played \o more
           n == Len(played)
           m == Len(more)
<1>1. /\ DOMAIN both = 1 .. n + m
      /\ \A i \in 1 .. n : both[i] = played[i]
      /\ \A j \in 1 .. m : both[n + j] = more[j]
      /\ \A k \in 1 .. n + m : k \in 1 .. n \/ \E j \in 1 .. m : k = n + j
    BY EventsJoin
<1>2. DOMAIN played = 1 .. n
    BY LenProperties
<1> HIDE DEF both
<1>3. \A i \in 1 .. n : InTime(c, both[i].time - delay[c] - 1, both[i].event, early, latest)
    BY <1>1, <1>2 DEF HeardInTime
<1>4. \A j \in 1 .. m :
          InTime(c, both[n + j].time - delay[c] - 1, both[n + j].event, early, latest)
    BY <1>1
<1>5. HeardInTime(c, both, early, latest)
    BY <1>1, <1>3, <1>4 DEF HeardInTime
<1> QED BY <1>5 DEF both

LEMMA PlayingInTime ==
    ASSUME TypeOK, NEW c \in Client, NEW early \in Int, NEW latest \in Nat,
           NEW queue \in Seq([first : Nat, event : Event]),
           QueueInTime(c, queue, midi_timer, early, latest), HeardInTime(c, heard[c], early, latest),
           PlayMidiData(c, queue), delay' = delay, midi_timer' = midi_timer, began' = began
    PROVE  (QueueInTime(c, queued_events[c], midi_timer, early, latest)
                /\ HeardInTime(c, heard[c], early, latest))'
<1> DEFINE Put == [first : Nat, event : Event]
           Sound == [time : Nat, event : Event]
           now == midi_timer
           held == delay[c]
<1>1. PICK n \in 0 .. Len(queue) : Plays(c, queue, n)
    BY PlayedIsPrefix
<1> DEFINE rest == SubSeq(queue, n + 1, Len(queue))
           front == [i \in 1 .. n |-> [time |-> now, event |-> queue[i].event]]
<1>2. now \in Nat /\ held \in Nat /\ n \in Nat /\ Len(queue) \in Nat
      /\ DOMAIN queue = 1 .. Len(queue)
    BY Numbers, LenProperties
<1>3. queued_events'[c] = rest /\ heard'[c] = heard[c] \o front /\ heard[c] \in Seq(Sound)
    <2>1. /\ queued_events' = [queued_events EXCEPT ![c] = rest]
          /\ heard' = [heard EXCEPT ![c] = @ \o front]
        BY <1>1 DEF Plays
    <2> HIDE DEF rest, front
    <2> QED BY <2>1 DEF TypeOK
<1>4. DOMAIN rest = 1 .. Len(queue) - n /\ \A i \in 1 .. Len(queue) - n : rest[i] = queue[n + i]
    <2>1. queue \in Seq(Put)
        OBVIOUS
    <2> HIDE DEF Put
    <2>2. /\ rest \in Seq(Put) /\ Len(rest) = Len(queue) - n
          /\ \A i \in 1 .. Len(queue) - n : rest[i] = queue[n + i]
        BY <2>1, Suffix
    <2> HIDE DEF rest
    <2> QED BY <2>2, LenProperties
<1>5. front \in Seq(Sound) /\ Len(front) = n
      /\ \A i \in 1 .. n : front[i].time = now /\ front[i].event = queue[i].event
    <2>1. \A i \in 1 .. n : queue[i] \in Put
        <3>1. queue \in Seq(Put)
            OBVIOUS
        <3> HIDE DEF Put
        <3> QED BY <1>2, <3>1, ElementOfSeq
    <2>2. front \in [1 .. n -> Sound]
        BY <1>2, <2>1
    <2>3. \A i \in 1 .. n : front[i].time = now /\ front[i].event = queue[i].event
        OBVIOUS
    <2> HIDE DEF front, Sound
    <2> QED BY <1>2, <2>2, <2>3, FunctionIsSeq
<1>6. /\ \A i \in 1 .. Len(queue) :
            /\ InTime(c, queue[i].first - held, queue[i].event, early, latest)
            /\ queue[i].first \in now - 1 .. now + held
      /\ \A i, j \in 1 .. Len(queue) : i <= j => queue[i].first <= queue[j].first
    BY <1>2 DEF QueueInTime
<1>7. \A i \in 1 .. n : InTime(c, now - held - 1, queue[i].event, early, latest)
    <2> SUFFICES ASSUME NEW i \in 1 .. n
                 PROVE  InTime(c, now - held - 1, queue[i].event, early, latest)
        OBVIOUS
    <2>1. i \in 1 .. Len(queue)
        BY <1>2
    <2>2. ~(queue[i].first >= now)
        BY <1>1, <2>1 DEF Plays, SplitsAt, NotReady
    <2>3. queue[i].first \in now - 1 .. now + held
        BY <1>6, <2>1
    <2>4. queue[i].first - held = now - held - 1
        <3> DEFINE f == queue[i].first
        <3>1. f \in now - 1 .. now + held /\ ~(f >= now)
            BY <2>2, <2>3
        <3> HIDE DEF f, now, held
        <3>2. f - held = now - held - 1
            BY <1>2, <3>1
        <3> QED BY <3>2 DEF f
    <2>5. InTime(c, queue[i].first - held, queue[i].event, early, latest)
        BY <1>6, <2>1
    <2> QED BY <2>4, <2>5
<1> HIDE DEF rest, front
<1>8. QueueInTime(c, rest, now, early, latest)
    <2>1. \A i \in 1 .. Len(queue) - n : n + i \in 1 .. Len(queue)
        BY <1>2
    <2>2. ASSUME NEW i \in DOMAIN rest, NEW j \in DOMAIN rest, i <= j
          PROVE  rest[i].first <= rest[j].first
        <3>1. i \in 1 .. Len(queue) - n /\ j \in 1 .. Len(queue) - n
            BY <1>4
        <3>2. n + i <= n + j
            BY <1>2, <2>2, <3>1
        <3> QED BY <1>4, <1>6, <2>1, <3>1, <3>2
    <2>3. \A i \in DOMAIN rest :
            /\ InTime(c, rest[i].first - held, rest[i].event, early, latest)
            /\ rest[i].first \in now - 1 .. now + held
        BY <1>4, <1>6, <2>1
    <2> QED BY <2>2, <2>3 DEF QueueInTime
<1>9. HeardInTime(c, heard[c] \o front, early, latest)
    <2>1. \A j \in 1 .. Len(front) :
            InTime(c, front[j].time - held - 1, front[j].event, early, latest)
        BY <1>5, <1>7
    <2> HIDE DEF Sound
    <2> QED BY <1>3, <1>5, <2>1, HearingInTime
<1>10. QueueInTime(c, queued_events[c], midi_timer, early, latest)'
    BY <1>3, <1>8 DEF QueueInTime, InTime, Moment
<1>11. HeardInTime(c, heard[c], early, latest)'
    BY <1>3, <1>9 DEF HeardInTime, InTime, Moment
<1> QED BY <1>10, <1>11

LEMMA TwiddleInTime ==
    ASSUME TypeOK, NEW c \in Client, NEW early \in Int, NEW latest \in Nat,
           Timed(c, early, latest), Twiddle(c)
    PROVE  Timed(c, early, latest)'
<1> DEFINE Put == [first : Nat, event : Event]
<1>1. /\ queued_events[c] \in Seq(Put) /\ socket[c] \in Seq(Seq(Event))
      /\ midi_timer \in Nat /\ delay[c] \in Nat
    BY Numbers DEF TypeOK
<1>2. UNCHANGED <<midi_timer, began, track_queues, late, delay>>
    BY DEF Twiddle, server, users
<1>3. TrackInTime(c, track_queues[c], midi_timer, late[c], latest)'
    BY <1>2 DEF Timed, TrackInTime, Moment
<1>4. /\ QueueInTime(c, queued_events[c], midi_timer, early, latest)
      /\ HeardInTime(c, heard[c], early, latest)
      /\ MessagesInTime(c, socket[c], midi_timer, early, latest)
    BY DEF Timed
<1>5. CASE Receives(c)
    <2> DEFINE message == Head(socket[c])
               taken == PutOff(c, message)
               m == Len(socket[c])
    <2>1. /\ m \in Nat \ {0} /\ DOMAIN socket[c] = 1 .. m /\ message = socket[c][1]
          /\ message \in Seq(Event)
        BY <1>1, <1>5, LenProperties, EmptySeq, HeadTailProperties DEF Receives
    <2>2. DOMAIN Tail(socket[c]) = 1 .. m - 1
          /\ \A k \in 1 .. m - 1 : Tail(socket[c])[k] = socket[c][k + 1] /\ k + 1 \in 1 .. m
        <3>1. socket[c] # <<>>
            BY <1>5 DEF Receives
        <3> QED BY <1>1, <3>1, HeadTailProperties, LenProperties
    <2>3. socket'[c] = Tail(socket[c]) /\ PlayMidiData(c, queued_events[c] \o taken)
        BY <1>5 DEF Twiddle, TypeOK, Queued
    <2>4. MessagesInTime(c, socket[c], midi_timer, early, latest)'
        <3>1. \A k \in DOMAIN socket'[c] : \E l \in DOMAIN socket[c] : socket'[c][k] = socket[c][l]
            BY <2>1, <2>2, <2>3
        <3> QED BY <1>2, <1>4, <3>1 DEF MessagesInTime, InTime, Moment
    <2> HIDE DEF message
    <2>5. /\ taken \in Seq(Put) /\ Len(taken) <= Len(message)
          /\ \A i \in 1 .. Len(taken) : /\ taken[i].event = message[i]
                                        /\ taken[i].first = midi_timer + delay[c]
        BY <1>1, <2>1, PlaybackAssumption, TakenInOrder
    <2>6. Len(taken) \in Nat /\ Len(message) \in Nat /\ DOMAIN message = 1 .. Len(message)
        BY <2>1, <2>5, LenProperties
    <2> HIDE DEF taken, Put
    <2>7. \A i \in 1 .. Len(taken) : InTime(c, midi_timer, taken[i].event, early, latest)
        <3>1. \A i \in 1 .. Len(taken) : i \in DOMAIN message
            BY <2>5, <2>6
        <3>2. 1 \in DOMAIN socket[c]
            BY <2>1
        <3> QED BY <1>4, <2>1, <2>5, <3>1, <3>2 DEF MessagesInTime
    <2>8. QueueInTime(c, queued_events[c] \o taken, midi_timer, early, latest)
        BY <1>1, <1>4, <2>5, <2>7, TakingInTime
    <2>9. queued_events[c] \o taken \in Seq(Put)
        BY <1>1, <2>5, ConcatProperties
    <2>10. (QueueInTime(c, queued_events[c], midi_timer, early, latest)
                /\ HeardInTime(c, heard[c], early, latest))'
        BY <1>2, <1>4, <2>3, <2>8, <2>9, PlayingInTime DEF Put
    <2> QED BY <1>3, <2>4, <2>10 DEF Timed
<1>6. CASE ~Receives(c)
    <2>1. socket' = socket /\ PlayMidiData(c, queued_events[c])
        BY <1>6 DEF Twiddle
    <2>2. MessagesInTime(c, socket[c], midi_timer, early, latest)'
        BY <1>2, <1>4, <2>1 DEF MessagesInTime, InTime, Moment
    <2>3. (QueueInTime(c, queued_events[c], midi_timer, early, latest)
                /\ HeardInTime(c, heard[c], early, latest))'
        BY <1>1, <1>2, <1>4, <2>1, PlayingInTime
    <2> QED BY <1>3, <2>2, <2>3 DEF Timed
<1> QED BY <1>5, <1>6

(* The network's step *)
LEMMA DisturbInTime ==
    ASSUME TypeOK, NEW c \in Client, NEW early, NEW latest, Timed(c, early, latest), Disturb(c)
    PROVE  Timed(c, early, latest)'
<1>1. PICK after \in Seq(Seq(Event)) : /\ socket' = [socket EXCEPT ![c] = after]
                                      /\ Disturbed(socket[c], after, lost' # 0)
    BY NetworkStep
<1>2. UNCHANGED <<midi_timer, began, track_queues, late, queued_events, delay, heard>>
    BY NetworkStep DEF server, users
<1>3. socket'[c] = after
    BY <1>1 DEF TypeOK
<1>4. MessagesInTime(c, after, midi_timer, early, latest)
    BY <1>1 DEF Timed, MessagesInTime, Disturbed
<1>5. MessagesInTime(c, socket[c], midi_timer, early, latest)'
    BY <1>2, <1>3, <1>4 DEF MessagesInTime, InTime, Moment
<1>6. TrackInTime(c, track_queues[c], midi_timer, late[c], latest)'
    BY <1>2 DEF Timed, TrackInTime, Moment
<1>7. QueueInTime(c, queued_events[c], midi_timer, early, latest)'
    BY <1>2 DEF Timed, QueueInTime, InTime, Moment
<1>8. HeardInTime(c, heard[c], early, latest)'
    BY <1>2 DEF Timed, HeardInTime, InTime, Moment
<1> QED BY <1>5, <1>6, <1>7, <1>8 DEF Timed

(* A millisecond: sockets are empty, and nothing is ready. *)
LEMMA TickInTime ==
    ASSUME TypeOK, NEW c \in Client, client_alive[c], NEW early \in Int, NEW latest \in Nat,
           Lag <= latest, Timed(c, early, latest), Tick
    PROVE  Timed(c, early, latest)'
<1> DEFINE now == midi_timer
           track == track_queues[c]
           queue == queued_events[c]
<1>1. /\ now \in Nat /\ delay[c] \in Nat /\ late[c] \in 0 .. Lag /\ Lag \in Nat
      /\ queue \in Seq([first : Nat, event : Event]) /\ Len(queue) \in Nat
      /\ DOMAIN queue = 1 .. Len(queue)
    BY Numbers, LenProperties, PlaybackAssumption DEF TypeOK, PlaybackAssumption
<1>2. /\ midi_timer' = now + 1
      /\ UNCHANGED <<began, track_queues, socket, queued_events, delay, heard>>
      /\ late'[c] = IF FrontDue(c) THEN late[c] + 1 ELSE 0
    BY DEF Tick, users
<1>3. socket[c] = <<>> /\ (queue # <<>> => ~(Head(queue).first < now))
    BY DEF Tick, ClientDue, Receives
<1>4. TrackInTime(c, track_queues[c], midi_timer, late[c], latest)'
    <2>1. TrackInTime(c, track, now, late[c], latest)
        BY DEF Timed
    <2>2. ASSUME track # <<>>
          PROVE  (now + 1) - late'[c] <= Moment(c, Head(track)) + (latest - Lag)
        <3> DEFINE T == Track[c][Head(track)]
                   M == Moment(c, Head(track))
        <3>1. T \in Nat /\ M \in Nat /\ T <= M /\ now - late[c] <= M + (latest - Lag)
            <4>1. Head(track) \in Events(c)
                <5>1. track \in Seq(Event)
                    BY DEF TypeOK
                <5> HIDE DEF track
                <5>2. Head(track) = track[1] /\ 1 \in DOMAIN track
                    BY <2>2, <5>1, LenProperties, EmptySeq
                <5> QED BY <2>1, <5>2 DEF TrackInTime
            <4> QED BY <2>1, <2>2, <4>1, Moments DEF TrackInTime
        <3>2. FrontDue(c) <=> T <= now
            BY <2>2 DEF FrontDue
        <3> HIDE DEF T, M
        <3> DEFINE l == late'[c]
        <3>3. (FrontDue(c) /\ l = late[c] + 1) \/ (~FrontDue(c) /\ l = 0)
            BY <1>2
        <3> HIDE DEF l, now
        <3>4. (now + 1) - l <= M + (latest - Lag)
            BY <1>1, <3>1, <3>2, <3>3
        <3> QED BY <3>4 DEF M, l
    <2> QED BY <1>2, <2>1, <2>2 DEF TrackInTime, Moment
<1>5. MessagesInTime(c, socket[c], midi_timer, early, latest)'
    BY <1>2, <1>3 DEF MessagesInTime
<1>6. QueueInTime(c, queued_events[c], midi_timer, early, latest)'
    <2>1. QueueInTime(c, queue, now, early, latest)
        BY DEF Timed
    <2>2. ASSUME NEW i \in DOMAIN queue
          PROVE  queue[i].first \in (now + 1) - 1 .. (now + 1) + delay[c]
        <3>1. 1 \in DOMAIN queue /\ 1 <= i /\ queue # <<>>
            BY <1>1, <2>2
        <3>2. Head(queue) = queue[1]
            OBVIOUS
        <3>3. queue[1].first <= queue[i].first /\ queue[i].first \in now - 1 .. now + delay[c]
              /\ queue[1].first \in now - 1 .. now + delay[c]
            BY <2>1, <3>1 DEF QueueInTime
        <3>4. ~(queue[1].first < now)
            BY <1>3, <3>1, <3>2
        <3> DEFINE f == queue[1].first
                   g == queue[i].first
                   d == delay[c]
        <3>5. f \in now - 1 .. now + d /\ g \in now - 1 .. now + d /\ f <= g /\ ~(f < now)
            BY <3>3, <3>4
        <3>6. d \in Nat /\ now \in Nat
            BY <1>1
        <3> HIDE DEF f, g, d, now
        <3>7. g \in (now + 1) - 1 .. (now + 1) + d
            BY <3>5, <3>6
        <3> QED BY <3>7 DEF g, d
    <2> QED BY <1>2, <2>1, <2>2 DEF QueueInTime, InTime, Moment
<1>7. HeardInTime(c, heard[c], early, latest)'
    BY <1>2 DEF Timed, HeardInTime, InTime, Moment
<1> QED BY <1>4, <1>5, <1>6, <1>7 DEF Timed

(* Every client's events are in time, in all states of a song nobody types *)
(* a line in.                                                              *)
TimedInv(a, d) ==
    Steady => \A c \in Client : Timed(c, Earliest(a, d, c), Latest(a, d, c))

SongInv(a, d) == TypeOK /\ OrderInv /\ Settled(a, d) /\ Estimated(a, d) /\ TimedInv(a, d)

LEMMA InitTimed ==
    ASSUME NEW a, NEW d, Init, Settled(a, d)
    PROVE  TimedInv(a, d)
<1> SUFFICES ASSUME NEW c \in Client PROVE Timed(c, Earliest(a, d, c), Latest(a, d, c))
    BY DEF TimedInv
<1>1. /\ midi_timer = began /\ late[c] = 0 /\ track_queues[c] = [i \in Events(c) |-> i]
      /\ socket[c] = <<>> /\ queued_events[c] = <<>> /\ heard[c] = <<>>
    BY DEF Init
<1>2. DOMAIN <<>> = {}
    OBVIOUS
<1>3. \A i \in DOMAIN track_queues[c] : track_queues[c][i] \in Events(c)
    BY <1>1
<1>4. ASSUME track_queues[c] # <<>>
      PROVE  began - 0 <= Moment(c, Head(track_queues[c])) + (Latest(a, d, c) - Lag)
    <2>1. Head(track_queues[c]) \in Events(c)
        <3>1. track_queues[c] \in Seq(Event)
            BY InitTyped DEF TypeOK
        <3>2. Head(track_queues[c]) = track_queues[c][1] /\ 1 \in DOMAIN track_queues[c]
            BY <1>4, <3>1, LenProperties, EmptySeq
        <3> QED BY <1>3, <3>2
    <2>2. /\ began \in Nat /\ Moment(c, Head(track_queues[c])) \in Nat
          /\ began <= Moment(c, Head(track_queues[c]))
        BY <2>1, InitTyped, Moments, Numbers
    <2>3. Latest(a, d, c) \in Nat /\ Lag \in Nat /\ Lag <= Latest(a, d, c)
        BY TimesSpread, PlaybackAssumption DEF PlaybackAssumption
    <2> QED BY <2>2, <2>3
<1>5. TrackInTime(c, track_queues[c], midi_timer, late[c], Latest(a, d, c))
    BY <1>1, <1>3, <1>4 DEF TrackInTime
<1> QED BY <1>1, <1>2, <1>5 DEF Timed, MessagesInTime, QueueInTime, HeardInTime

LEMMA StepTimed ==
    ASSUME NEW a, NEW d, SongInv(a, d), [Next]_vars
    PROVE  TimedInv(a, d)'
<1> USE DEF SongInv
<1> SUFFICES ASSUME Steady', NEW c \in Client
             PROVE  Timed(c, Earliest(a, d, c), Latest(a, d, c))'
    BY DEF TimedInv
<1> DEFINE early  == Earliest(a, d, c)
           latest == Latest(a, d, c)
<1>1. QuietStep
    BY Quiet DEF Estimated
<1>2. /\ early \in Int /\ latest \in Nat /\ Lag <= latest
      /\ PutOffBy(c) \in Int /\ early <= PutOffBy(c) /\ PutOffBy(c) <= latest - Lag + 1
    BY <1>1, TimesSpread, PutOffInWindow DEF QuietStep
<1>3. Timed(c, early, latest) /\ client_alive[c]
    BY <1>1 DEF QuietStep, TimedInv, Estimated
<1>4. early' = early /\ latest' = latest
    BY DEF Earliest, Latest, PutOffMost, Lows, Highs, Lowest, Highest, Half, Longest, HalfTrip,
           RoundTrip, Greatest
<1>5. ASSUME UNCHANGED <<midi_timer, began, delay>>, track_queues'[c] = track_queues[c],
             late'[c] = late[c], socket'[c] = socket[c],
             queued_events'[c] = queued_events[c], heard'[c] = heard[c]
      PROVE  Timed(c, early, latest)'
    BY <1>3, <1>4, <1>5 DEF Timed, TrackInTime, MessagesInTime, QueueInTime, HeardInTime, InTime,
                            Moment
<1> HIDE DEF early, latest
<1>6. ASSUME NEW e \in Client, PlayTrack(e) PROVE Timed(c, early, latest)'
    <2>1. CASE e = c
        BY <1>2, <1>3, <1>4, <1>6, <2>1, PlayTrackInTime DEF OrderInv
    <2>2. CASE e # c
        <3>1. UNCHANGED <<midi_timer, began, delay, queued_events, heard>>
            BY <1>6 DEF PlayTrack, users
        <3>2. track_queues'[c] = track_queues[c] /\ late'[c] = late[c] /\ socket'[c] = socket[c]
            BY <1>6, <2>2 DEF PlayTrack, TypeOK
        <3> QED BY <1>5, <3>1, <3>2
    <2> QED BY <2>1, <2>2
<1>7. ASSUME NEW e \in Client, Twiddle(e) PROVE Timed(c, early, latest)'
    <2>1. CASE e = c
        BY <1>2, <1>3, <1>4, <1>7, <2>1, TwiddleInTime
    <2>2. CASE e # c
        <3>1. UNCHANGED <<midi_timer, began, delay, track_queues, late>> /\ socket'[c] = socket[c]
            BY SMTT(30), <1>7, <2>2 DEF Twiddle, server, users, TypeOK
        <3>2. queued_events'[c] = queued_events[c] /\ heard'[c] = heard[c]
            BY <1>7, <2>2 DEF Twiddle, PlayMidiData, TypeOK
        <3> QED BY <1>5, <3>1, <3>2
    <2> QED BY <2>1, <2>2
<1>8. ASSUME Tick PROVE Timed(c, early, latest)'
    <2>1. client_alive[c] /\ Timed(c, early, latest)
        BY <1>3
    <2> QED BY <1>2, <1>4, <1>8, <2>1, TickInTime
<1>9. ASSUME NEW e \in Client, HandleClientTiming(e) PROVE Timed(c, early, latest)'
    BY <1>5, <1>9 DEF HandleClientTiming, server, users
<1>10. ASSUME UNCHANGED vars PROVE Timed(c, early, latest)'
    <2>1. UNCHANGED <<midi_timer, began, delay, track_queues, late, socket, queued_events, heard>>
        BY <1>10 DEF vars, server, users
    <2> QED BY <1>5, <2>1
<1>11. ASSUME NEW e \in Client, Disturb(e) PROVE Timed(c, early, latest)'
    <2>1. CASE e = c
        BY <1>3, <1>11, <2>1, DisturbInTime
    <2>2. CASE e # c
        <3>1. UNCHANGED <<midi_timer, began, delay, track_queues, late, queued_events, heard>>
            BY <1>11, NetworkStep DEF server, users
        <3>2. socket'[c] = socket[c]
            BY <1>11, <2>2, NetworkStep DEF TypeOK
        <3> QED BY <1>5, <3>1, <3>2
    <2> QED BY <2>1, <2>2
<1>12. Timed(c, early, latest)'
    BY <1>1, <1>6, <1>7, <1>8, <1>9, <1>10, <1>11 DEF QuietStep
<1> QED BY <1>12 DEF early, latest

(* The invariant, from any estimates and delays a song may start with *)
THEOREM SongInvariant ==
    ASSUME NEW a, NEW d
    PROVE  StartsWith(a, d) /\ Spec => []SongInv(a, d)
<1>1. StartsWith(a, d) /\ Init => SongInv(a, d)
    BY InitTyped, InitSorted, InitEstimated, InitTimed DEF SongInv
<1>2. SongInv(a, d) /\ [Next]_vars => SongInv(a, d)'
    <2> SUFFICES ASSUME SongInv(a, d), [Next]_vars PROVE SongInv(a, d)'
        OBVIOUS
    <2>1. TypeOK' /\ OrderInv' /\ Estimated(a, d)' /\ TimedInv(a, d)'
        BY StepTyped, StepSorted, StepEstimated, StepTimed DEF SongInv
    <2>2. Settled(a, d)'
        BY DEF SongInv, Settled, Estimates, HalfTrip, RoundTrip
    <2> QED BY <2>1, <2>2 DEF SongInv
<1> QED BY <1>1, <1>2, PTL DEF Spec

SongBegins == \E a \in [Client -> Nat], d \in [Client -> Delays] : StartsWith(a, d)

LEMMA SongsBegin == Spec => SongBegins
<1>1. Init => SongBegins
    BY InitTyped DEF SongBegins, StartsWith, TypeOK
<1> QED BY <1>1, PTL DEF Spec

----------------------------------------------------------------------------
(* What is heard, and what a message holds *)

(* When an event has been heard *)
LEMMA HeardWhen ==
    ASSUME NEW a, NEW d, SongInv(a, d), Steady, NEW c \in Client, NEW k \in DOMAIN heard[c]
    PROVE  /\ Track[c][heard[c][k].event] \in Nat /\ heard[c][k].time \in Nat
           /\ Fresh(c, heard[c][k].event) =>
                 heard[c][k].time - delay[c] - 1 - Track[c][heard[c][k].event]
                     \in Earliest(a, d, c) .. Latest(a, d, c)
<1> DEFINE Sound == [time : Nat, event : Event]
<1>1. InTime(c, heard[c][k].time - delay[c] - 1, heard[c][k].event,
             Earliest(a, d, c), Latest(a, d, c))
    BY DEF SongInv, TimedInv, Timed, HeardInTime
<1>2. Track[c][heard[c][k].event] \in Nat
    BY <1>1, TimesOfTrack DEF InTime
<1>3. heard[c][k].time \in Nat
    <2>1. heard[c] \in Seq(Sound)
        BY DEF SongInv, TypeOK
    <2>2. heard[c][k] \in Sound
        <3> HIDE DEF Sound
        <3> QED BY <2>1, LenProperties, ElementOfSeq
    <2> QED BY <2>2
<1>4. Fresh(c, heard[c][k].event) => Moment(c, heard[c][k].event) = Track[c][heard[c][k].event]
    BY <1>1, Moments DEF SongInv, InTime
<1>5. Earliest(a, d, c) \in Int /\ Latest(a, d, c) \in Nat /\ delay[c] \in Nat
    BY TimesSpread, Numbers DEF SongInv
<1>6. \A t, dl, T, e, l \in Int : t - dl - 1 - T >= e /\ t - dl - 1 - T <= l => t - dl - 1 - T \in e .. l
    OBVIOUS
<1> QED BY <1>1, <1>2, <1>3, <1>4, <1>5, <1>6 DEF InTime

LEMMA SpacingInTime == ASSUME NEW a, NEW d PROVE SongInv(a, d) => SpacingKept
<1> SUFFICES ASSUME SongInv(a, d), Steady, NEW c \in Client,
                    NEW i \in DOMAIN heard[c], NEW j \in DOMAIN heard[c],
                    Fresh(c, heard[c][i].event), Fresh(c, heard[c][j].event)
             PROVE  (heard[c][j].time - heard[c][i].time)
                        - (Track[c][heard[c][j].event] - Track[c][heard[c][i].event])
                            \in -(2 * Lag) .. 2 * Lag
    BY DEF SpacingKept
<1> DEFINE early  == Earliest(a, d, c)
           latest == Latest(a, d, c)
           T(k) == Track[c][heard[c][k].event]
           t(k) == heard[c][k].time
           held == delay[c]
<1>1. early \in Int /\ latest \in Nat /\ latest - early <= 2 * Lag /\ Lag \in Nat
    BY TimesSpread, PlaybackAssumption DEF SongInv, PlaybackAssumption
<1>2. \A k \in {i, j} : T(k) \in Nat /\ t(k) \in Nat /\ t(k) - held - 1 - T(k) \in early .. latest
    BY HeardWhen
<1>3. held \in Nat
    BY Numbers DEF SongInv
<1>4. T(i) \in Nat /\ t(i) \in Nat /\ t(i) - held - 1 - T(i) \in early .. latest
      /\ T(j) \in Nat /\ t(j) \in Nat /\ t(j) - held - 1 - T(j) \in early .. latest
    BY <1>2
<1> HIDE DEF early, latest, T, t, held
<1>5. (t(j) - t(i)) - (T(j) - T(i)) \in -(2 * Lag) .. 2 * Lag
    BY <1>1, <1>3, <1>4
<1> QED BY <1>5 DEF t, T

LEMMA MessagesFitInTime == ASSUME NEW a, NEW d PROVE SongInv(a, d) => MessagesFit
<1> SUFFICES ASSUME SongInv(a, d), Steady, NEW c \in Client, NEW i \in DOMAIN socket[c],
                    socket[c][i] # <<>>
             PROVE  Track[c][Last(socket[c][i])] - Moment(c, Head(socket[c][i])) <= 2 * Lag
    BY DEF MessagesFit
<1> DEFINE early   == Earliest(a, d, c)
           latest  == Latest(a, d, c)
           message == socket[c][i]
           n == Len(message)
<1>1. early \in Int /\ latest \in Nat /\ latest - early <= 2 * Lag /\ Lag \in Nat
    BY TimesSpread, PlaybackAssumption DEF SongInv, PlaybackAssumption
<1>2. message \in Seq(Event)
    <2>1. socket[c] \in Seq(Seq(Event))
        BY DEF SongInv, TypeOK
    <2> QED BY <2>1, LenProperties, ElementOfSeq
<1>3. \A k \in DOMAIN message : InTime(c, midi_timer, message[k], early, latest)
    BY DEF SongInv, TimedInv, Timed, MessagesInTime
<1>4. Last(message) = message[n] /\ Head(message) = message[1]
      /\ 1 \in DOMAIN message /\ n \in DOMAIN message
    <2>1. n \in Nat \ {0} /\ DOMAIN message = 1 .. n
        BY <1>2, LenProperties, EmptySeq
    <2>2. Head(message) = message[1]
        OBVIOUS
    <2> QED BY <2>1, <2>2 DEF Last
<1> HIDE DEF early, latest, message, n
<1> DEFINE first == Moment(c, message[1])
           last == Track[c][message[n]]
<1>5. first \in Nat /\ last \in Nat /\ midi_timer - first <= latest /\ midi_timer - last >= early
    BY <1>3, <1>4, Moments DEF InTime, SongInv
<1>6. midi_timer \in Nat
    BY Numbers DEF SongInv
<1> HIDE DEF first, last
<1>7. last - first <= 2 * Lag
    BY <1>1, <1>5, <1>6
<1> QED BY <1>4, <1>7 DEF first, last, message

(* Two events of a track that are not past when the song begins are heard  *)
(* as far apart as they are in the song, whenever it begins, for any lag   *)
(* of the server, however long the song and however often its estimates    *)
(* change, whatever the network loses, duplicates or reorders.             *)
THEOREM SpacingIsKept == Spec => []SpacingKept
<1>1. ASSUME NEW a \in [Client -> Nat], NEW d \in [Client -> Delays]
      PROVE  StartsWith(a, d) /\ Spec => []SpacingKept
    BY SpacingInTime, SongInvariant, PTL
<1>2. SongBegins /\ Spec => []SpacingKept
    BY <1>1 DEF SongBegins
<1> QED BY <1>2, SongsBegin

(* No message holds more than the track has within twice the lag and, once *)
(* at the beginning, what is past then.                                    *)
THEOREM MessagesAlwaysFit == Spec => []MessagesFit
<1>1. ASSUME NEW a \in [Client -> Nat], NEW d \in [Client -> Delays]
      PROVE  StartsWith(a, d) /\ Spec => []MessagesFit
    BY MessagesFitInTime, SongInvariant, PTL
<1>2. SongBegins /\ Spec => []MessagesFit
    BY <1>1 DEF SongBegins
<1> QED BY <1>2, SongsBegin

(* What sets two clients apart: half of what is measured of each is added  *)
(* to when its events are sent.                                            *)
LEMMA ClientsApart ==
    ASSUME NEW a, NEW d, Settled(a, d), NEW c \in Client, NEW f \in Client
    PROVE  /\ Half(d[c]) \in Nat /\ Half(d[f]) \in Nat
           /\ (Latest(a, d, c) + Half(d[c])) - (Earliest(a, d, f) + Half(d[f])) <= Slack
<1> DEFINE low == Lows(a, d)
           high == Highs(a, d)
           L == Greatest(low)
           H == Greatest(high)
<1>1. low \in [Client -> Nat] /\ high \in [Client -> Nat] /\ L \in Nat /\ H \in Nat
    BY LowsAndHighs
<1>2. \A e \in Client : /\ Half(d[e]) \in Nat /\ Half(d[e]) - 7 <= low[e]
                        /\ high[e] <= Half(d[e]) + Wandering
                        /\ high[e] <= low[e] + Wandering
    <2> SUFFICES ASSUME NEW e \in Client
                 PROVE  /\ Half(d[e]) \in Nat /\ Half(d[e]) - 7 <= Lowest(a[e], d[e])
                        /\ Highest(a[e], d[e]) <= Half(d[e]) + Wandering
                        /\ Highest(a[e], d[e]) <= Lowest(a[e], d[e]) + Wandering
        BY DEF Lows, Highs
    <2>1. d[e] \in Nat /\ a[e] \in Estimates(d[e])
        BY LowsAndHighs DEF Settled
    <2> QED BY <2>1, EstimateStarts
<1>3. Wandering \in Nat /\ 2 * Wandering <= Lag + 1 /\ Lag \in Nat
    BY LagsHalf, PlaybackAssumption DEF PlaybackAssumption
<1> HIDE DEF low, high
<1>4. low[c] <= L
    BY <1>1, GreatestBounds, PlaybackAssumption
<1>5. H <= L + Wandering
    <2>1. \A e \in Client : high[e] <= L + Wandering
        <3> SUFFICES ASSUME NEW e \in Client PROVE high[e] <= L + Wandering
            OBVIOUS
        <3>1. low[e] <= L /\ low[e] \in Nat /\ high[e] \in Nat
            BY <1>1, GreatestBounds, PlaybackAssumption
        <3> QED BY <1>1, <1>2, <1>3, <3>1
    <2>2. L + Wandering \in Nat
        BY <1>1, <1>3
    <2> QED BY <1>1, <2>1, <2>2, GreatestBounds, PlaybackAssumption
<1>6. /\ low[c] \in Nat /\ high[f] \in Nat /\ Half(d[c]) \in Nat /\ Half(d[f]) \in Nat
      /\ Half(d[c]) - 7 <= low[c] /\ high[f] <= Half(d[f]) + Wandering
    BY <1>1, <1>2
<1>7. Earliest(a, d, f) = L - high[f] /\ PutOffMost(a, d, c) = H - low[c]
    BY DEF Earliest, PutOffMost, low, high
<1> HIDE DEF L, H
<1> DEFINE hc == Half(d[c])
           hf == Half(d[f])
<1>8. hc \in Nat /\ hf \in Nat /\ hc - 7 <= low[c] /\ high[f] <= hf + Wandering
    BY <1>6
<1> HIDE DEF hc, hf
<1>9. CASE H - low[c] > 0
    <2>1. Latest(a, d, c) = Lag + (H - low[c] - 1)
        BY <1>7, <1>9 DEF Latest
    <2>2. (Latest(a, d, c) + hc) - (Earliest(a, d, f) + hf) <= Slack
        BY <1>1, <1>3, <1>5, <1>6, <1>7, <1>8, <2>1 DEF Slack
    <2> QED BY <1>6, <2>2 DEF hc, hf
<1>10. CASE ~(H - low[c] > 0)
    <2>1. Latest(a, d, c) = Lag
        BY <1>3, <1>7, <1>10 DEF Latest
    <2>2. (Latest(a, d, c) + hc) - (Earliest(a, d, f) + hf) <= Slack
        BY <1>1, <1>3, <1>4, <1>6, <1>7, <1>8, <2>1 DEF Slack
    <2> QED BY <1>6, <2>2 DEF hc, hf
<1> QED BY <1>9, <1>10

LEMMA TogetherInTime == ASSUME NEW a, NEW d PROVE SongInv(a, d) => Together
<1> SUFFICES ASSUME SongInv(a, d), Steady, NEW c \in Client, NEW f \in Client,
                    NEW i \in DOMAIN heard[c], NEW j \in DOMAIN heard[f],
                    Fresh(c, heard[c][i].event),
                    Track[c][heard[c][i].event] = Track[f][heard[f][j].event]
             PROVE  (heard[c][i].time - heard[f][j].time) - (Left(c) - Left(f)) \in -Slack .. Slack
    BY DEF Together
<1> DEFINE T  == Track[c][heard[c][i].event]
           x  == heard[c][i].time
           y  == heard[f][j].time
           dc == delay[c]
           df == delay[f]
           hc == Half(d[c])
           hf == Half(d[f])
           ec == Earliest(a, d, c)
           ef == Earliest(a, d, f)
           lc == Latest(a, d, c)
           lf == Latest(a, d, f)
<1>1. T \in Nat /\ x \in Nat /\ y \in Nat
      /\ x - dc - 1 - T \in ec .. lc /\ y - df - 1 - T \in ef .. lf
    <2>1. Fresh(f, heard[f][j].event)
        BY DEF Fresh
    <2> QED BY <2>1, HeardWhen
<1>2. dc \in Nat /\ df \in Nat /\ delay = d
    BY Numbers DEF SongInv, Estimated
<1>3. Left(c) = dc - hc /\ Left(f) = df - hf
    BY <1>2 DEF Left, Half
<1>4. hc \in Nat /\ hf \in Nat /\ (lc + hc) - (ef + hf) <= Slack /\ (lf + hf) - (ec + hc) <= Slack
    BY ClientsApart DEF SongInv
<1>5. ec \in Int /\ ef \in Int /\ lc \in Nat /\ lf \in Nat
    BY TimesSpread DEF SongInv
<1>6. Slack \in Nat
    <2>1. Lag \in Nat
        BY PlaybackAssumption, Zenon DEF PlaybackAssumption
    <2> QED BY <2>1 DEF Slack
<1> HIDE DEF T, x, y, dc, df, hc, hf, ec, ef, lc, lf
<1> DEFINE p == x - dc - 1 - T
           q == y - df - 1 - T
<1>7. p \in Int /\ q \in Int /\ (x - y) - ((dc - hc) - (df - hf)) = (p + hc) - (q + hf)
    BY <1>1, <1>2, <1>4
<1>8. ec <= p /\ p <= lc /\ ef <= q /\ q <= lf
    BY <1>1, <1>5
<1> HIDE DEF p, q
<1>9. (p + hc) - (q + hf) \in -Slack .. Slack
    BY <1>4, <1>5, <1>6, <1>7, <1>8
<1> QED BY <1>3, <1>7, <1>9 DEF x, y

(* The same moment of the song sounds at two clients half the difference   *)
(* of their delays apart, within the rounding of the estimates and twice   *)
(* the lag, at any number of clients, unless it was past when the song     *)
(* began, whatever the network loses, duplicates or reorders.              *)
THEOREM AlwaysTogether == Spec => []Together
<1>1. ASSUME NEW a \in [Client -> Nat], NEW d \in [Client -> Delays]
      PROVE  StartsWith(a, d) /\ Spec => []Together
    BY TogetherInTime, SongInvariant, PTL
<1>2. SongBegins /\ Spec => []Together
    BY <1>1 DEF SongBegins
<1> QED BY <1>2, SongsBegin

----------------------------------------------------------------------------
(* Nothing lost, while the network loses no message, but the events that   *)
(* may be in a message whose count wraps.                                  *)
Crowds(c) == {i \in Events(c) : Crowded(c, i)}

(* The server's queue and the messages are stretches of the track. *)
Stretch(message) == \A i, j \in DOMAIN message : message[j] - message[i] = j - i

InHand(c) == Range(track_queues[c]) \cup Waiting(socket[c])
                \cup EventsIn(queued_events[c]) \cup EventsIn(heard[c])

Whole(c) ==
    /\ Stretch(track_queues[c])
    /\ \A k \in DOMAIN socket[c] : Stretch(socket[c][k])
    /\ Events(c) \subseteq InHand(c) \cup Crowds(c)

NothingLost == Steady /\ lost = 0 => \A c \in Client : Whole(c)

(* The parts of a queue hold what the queue holds. *)
HeldBy(whole, front, rest) == whole \subseteq front \cup rest

LEMMA TrackSplits ==
    ASSUME NEW track \in Seq(Event), NEW n \in 0 .. Len(track), Stretch(track),
           NEW front, front = SubSeq(track, 1, n),
           NEW rest, rest = SubSeq(track, n + 1, Len(track))
    PROVE  /\ Stretch(front) /\ Stretch(rest)
           /\ HeldBy(Range(track), Range(front), Range(rest))
<1>1. Len(track) \in Nat /\ DOMAIN track = 1 .. Len(track)
    BY LenProperties
<1>2. DOMAIN front = 1 .. n /\ \A i \in 1 .. n : front[i] = track[i]
    BY Prefix, LenProperties
<1>3. DOMAIN rest = 1 .. Len(track) - n /\ \A i \in 1 .. Len(track) - n : rest[i] = track[n + i]
    BY Suffix, LenProperties
<1>4. Stretch(front)
    <2>1. \A i \in 1 .. n : i \in DOMAIN track
        BY <1>1
    <2> QED BY <1>2, <2>1 DEF Stretch
<1>5. Stretch(rest)
    <2> SUFFICES ASSUME NEW i \in 1 .. Len(track) - n, NEW j \in 1 .. Len(track) - n
                 PROVE  rest[j] - rest[i] = j - i
        BY <1>3 DEF Stretch
    <2>1. n + i \in DOMAIN track /\ n + j \in DOMAIN track
        BY <1>1
    <2>2. track[n + j] - track[n + i] = (n + j) - (n + i)
        BY <2>1 DEF Stretch
    <2>3. (n + j) - (n + i) = j - i
        BY <1>1
    <2> QED BY <1>3, <2>2, <2>3
<1>6. Range(track) \subseteq Range(front) \cup Range(rest)
    <2> SUFFICES ASSUME NEW i \in 1 .. Len(track), track[i] \notin Range(front)
                 PROVE  track[i] \in Range(rest)
        BY <1>1 DEF Range
    <2>1. i \notin 1 .. n
        BY <1>2 DEF Range
    <2>2. i - n \in 1 .. Len(track) - n /\ n + (i - n) = i
        BY <1>1, <2>1
    <2> QED BY <1>3, <2>2 DEF Range
<1> QED BY <1>4, <1>5, <1>6 DEF HeldBy

LEMMA QueueHolds ==
    ASSUME NEW S, NEW queue \in Seq(S), NEW n \in 0 .. Len(queue),
           NEW front, FrontOf(queue, front, n),
           NEW rest, rest = SubSeq(queue, n + 1, Len(queue))
    PROVE  HeldBy(EventsIn(queue), EventsIn(front), EventsIn(rest))
<1>1. Len(queue) \in Nat /\ DOMAIN queue = 1 .. Len(queue)
    BY LenProperties
<1>2. DOMAIN rest = 1 .. Len(queue) - n /\ \A i \in 1 .. Len(queue) - n : rest[i] = queue[n + i]
    BY Suffix, LenProperties
<1> SUFFICES ASSUME NEW i \in 1 .. Len(queue), queue[i].event \notin EventsIn(front)
             PROVE  queue[i].event \in EventsIn(rest)
    BY <1>1 DEF EventsIn, HeldBy
<1>3. i \notin 1 .. n
    BY DEF FrontOf, EventsIn
<1>4. i - n \in 1 .. Len(queue) - n /\ n + (i - n) = i
    BY <1>1, <1>3
<1> QED BY <1>2, <1>4 DEF EventsIn

(* A message is taken off the socket. *)
LEMMA WaitingSplits ==
    ASSUME NEW messages \in Seq(Seq(Event)), messages # <<>>
    PROVE  /\ Waiting(messages) \subseteq Range(Head(messages)) \cup Waiting(Tail(messages))
           /\ \A k \in DOMAIN Tail(messages) : \E l \in DOMAIN messages :
                 Tail(messages)[k] = messages[l]
<1> DEFINE m == Len(messages)
           left == Tail(messages)
<1>1. m \in Nat \ {0} /\ DOMAIN messages = 1 .. m /\ Head(messages) = messages[1]
    BY LenProperties, EmptySeq
<1>2. DOMAIN left = 1 .. m - 1 /\ \A k \in 1 .. m - 1 : left[k] = messages[k + 1]
    BY HeadTailProperties, LenProperties
<1> HIDE DEF m, left
<1>3. \A k \in 1 .. m - 1 : k + 1 \in 1 .. m
    BY <1>1
<1>4. Waiting(messages) \subseteq Range(messages[1]) \cup Waiting(left)
    <2> SUFFICES ASSUME NEW k \in 1 .. m, NEW e \in Range(messages[k]), k # 1
                 PROVE  e \in Waiting(left)
        BY <1>1 DEF Waiting
    <2>1. k - 1 \in 1 .. m - 1 /\ (k - 1) + 1 = k
        BY <1>1
    <2>2. left[k - 1] = messages[k]
        BY <1>2, <2>1
    <2> QED BY <1>2, <2>1, <2>2 DEF Waiting
<1> QED BY <1>1, <1>2, <1>3, <1>4 DEF left

LEMMA CrowdsStay == ASSUME NEW c \in Client, began' = began PROVE Crowds(c)' = Crowds(c)
BY DEF Crowds, Crowded, Moment

(* A message that makes the client's count wrap holds crowded events only. *)
LEMMA CountHolds ==
    ASSUME NEW a, NEW d, SongInv(a, d), Steady, NEW c \in Client, Whole(c),
           NEW k \in DOMAIN socket[c]
    PROVE  \/ Len(socket[c][k]) % EVENT_COUNTS = Len(socket[c][k])
           \/ Range(socket[c][k]) \subseteq Crowds(c)
<1> DEFINE message == socket[c][k]
           n == Len(message)
<1>1. message \in Seq(Event)
    <2>1. socket[c] \in Seq(Seq(Event))
        BY DEF SongInv, TypeOK
    <2> QED BY <2>1, LenProperties, ElementOfSeq
<1>2. n \in Nat /\ DOMAIN message = 1 .. n /\ EVENT_COUNTS \in Nat \ {0} /\ Lag \in Nat
    BY <1>1, LenProperties, PlaybackAssumption DEF PlaybackAssumption
<1>3. CASE n < EVENT_COUNTS
    <2>1. \A x \in Nat, y \in Nat \ {0} : x < y => x % y = x
        OBVIOUS
    <2> QED BY <1>2, <1>3, <2>1
<1>4. ASSUME n >= EVENT_COUNTS, NEW i \in 1 .. n PROVE message[i] \in Crowds(c)
    <2> DEFINE q == IF i <= EVENT_COUNTS THEN 1 ELSE i - EVENT_COUNTS + 1
               r == q + EVENT_COUNTS - 1
    <2>1. q \in 1 .. n /\ r \in 1 .. n /\ 1 \in 1 .. n /\ n \in 1 .. n /\ q <= i /\ i <= r
        BY <1>2, <1>4
    <2>2. Track[c][message[n]] - Moment(c, message[1]) <= 2 * Lag
        <3>1. message # <<>> /\ Last(message) = message[n] /\ Head(message) = message[1]
            BY <1>1, <1>2, <2>1, EmptySeq DEF Last
        <3> QED BY <3>1, MessagesFitInTime DEF MessagesFit
    <2>3. \A j \in 1 .. n : message[j] \in Events(c)
        BY <1>2 DEF SongInv, TimedInv, Timed, MessagesInTime, InTime
    <2>4. \A j, l \in 1 .. n : message[j] - message[l] = j - l
        BY <1>2 DEF Whole, Stretch
    <2> HIDE DEF message, n, q, r
    <2> DEFINE first == message[1]
               last == message[n]
               from == message[q]
               to == message[r]
               it == message[i]
    <2>5. /\ first \in Events(c) /\ last \in Events(c) /\ from \in Events(c)
          /\ to \in Events(c) /\ it \in Events(c)
        BY <2>1, <2>3
    <2>6. /\ from - first = q - 1 /\ last - to = n - r /\ to - from = r - q
          /\ it - from = i - q /\ to - it = r - i
        BY <1>4, <2>1, <2>4
    <2>7. first \in Nat /\ last \in Nat /\ from \in Nat /\ to \in Nat /\ it \in Nat
        BY <2>5, TimesOfTrack
    <2> HIDE DEF first, last, from, to, it
    <2>8. q \in Nat /\ r \in Nat /\ i \in Nat /\ 1 <= q /\ r <= n /\ r - q = EVENT_COUNTS - 1
        BY <1>2, <1>4, <2>1 DEF r
    <2>9. first <= from /\ to <= last /\ to = from + EVENT_COUNTS - 1 /\ from <= it /\ it <= to
        BY <1>2, <2>1, <2>6, <2>7, <2>8
    <2>10. Track[c][to] <= Track[c][last] /\ Moment(c, first) <= Moment(c, from)
        BY <2>5, <2>9, TimesOfTrack, Moments DEF SongInv
    <2>11. Track[c][to] \in Nat /\ Track[c][last] \in Nat /\ Moment(c, first) \in Nat
           /\ Moment(c, from) \in Nat
        BY <2>5, TimesOfTrack, Moments DEF SongInv
    <2>12. Track[c][last] - Moment(c, first) <= 2 * Lag
        BY <2>2 DEF first, last
    <2>13. Track[c][to] <= Moment(c, from) + 2 * Lag
        <3>1. \A x, y, z, w, g \in Nat : x <= y /\ z <= w /\ y - z <= g => x <= w + g
            OBVIOUS
        <3>2. 2 * Lag \in Nat
            BY <1>2
        <3> QED BY <2>10, <2>11, <2>12, <3>1, <3>2
    <2>14. Crowded(c, it)
        BY <2>5, <2>9, <2>13 DEF Crowded
    <2> QED BY <2>5, <2>14 DEF Crowds, it
<1>5. CASE ~(n < EVENT_COUNTS)
    <2>1. n >= EVENT_COUNTS
        BY <1>2, <1>5
    <2> QED BY <1>2, <1>4, <2>1 DEF Range
<1> QED BY <1>3, <1>5

LEMMA PlayTrackWhole ==
    ASSUME NEW a, NEW d, SongInv(a, d), Steady, NEW c \in Client, Whole(c), PlayTrack(c)
    PROVE  Whole(c)'
<1> DEFINE track == track_queues[c]
           rest  == SubSeq(track, Len(Due(c)) + 1, Len(track))
           more  == Append(socket[c], Due(c))
           m     == Len(socket[c])
<1>1. track \in Seq(Event) /\ socket[c] \in Seq(Seq(Event))
    BY DEF SongInv, TypeOK
<1>2. PICK n \in 0 .. Len(track) : Due(c) = SubSeq(track, 1, n)
    BY <1>1, DueIsPrefix
<1>3. Due(c) \in Seq(Event) /\ rest = SubSeq(track, n + 1, Len(track))
    <2> HIDE DEF track
    <2>1. Due(c) \in Seq(Event) /\ Len(Due(c)) = n
        BY <1>1, <1>2, Prefix
    <2> QED BY <2>1
<1>4. /\ Stretch(Due(c)) /\ Stretch(rest)
      /\ Range(track) \subseteq Range(Due(c)) \cup Range(rest)
    <2>1. Stretch(track)
        BY DEF Whole
    <2> HIDE DEF track, rest
    <2>2. PICK front : front = Due(c)
        OBVIOUS
    <2>3. front = SubSeq(track, 1, n) /\ rest = SubSeq(track, n + 1, Len(track))
        BY <1>2, <1>3, <2>2
    <2>4. /\ Stretch(front) /\ Stretch(rest)
          /\ Range(track) \subseteq Range(front) \cup Range(rest)
        <3>1. /\ Stretch(front) /\ Stretch(rest)
              /\ HeldBy(Range(track), Range(front), Range(rest))
            BY <1>1, <1>2, <2>1, <2>3, TrackSplits
        <3> QED BY <3>1 DEF HeldBy
    <2> QED BY <2>2, <2>4
<1>5. /\ m \in Nat /\ DOMAIN socket[c] = 1 .. m /\ DOMAIN more = 1 .. m + 1
      /\ more[m + 1] = Due(c) /\ \A k \in 1 .. m : more[k] = socket[c][k]
    <2>1. more \in Seq(Seq(Event)) /\ Len(more) = m + 1 /\ more[m + 1] = Due(c)
          /\ \A k \in 1 .. m : more[k] = socket[c][k]
        BY <1>1, <1>3, AppendProperties
    <2> QED BY <1>1, <2>1, LenProperties
<1>6. track_queues'[c] = rest /\ socket'[c] = more /\ UNCHANGED <<queued_events, heard>>
    <2>1. client_alive[c]
        BY DEF SongInv, Estimated
    <2>2. Len(socket[c]) < MaxWaiting
        BY <2>1 DEF PlayTrack
    <2>3. Sent(socket[c], Due(c)) = more
        BY <2>2 DEF Sent
    <2>4. /\ track_queues' = [track_queues EXCEPT ![c] = rest]
          /\ socket' = [socket EXCEPT ![c] = Sent(@, Due(c))]
          /\ UNCHANGED <<queued_events, heard>>
        BY DEF PlayTrack, users
    <2> HIDE DEF rest, more
    <2> QED BY <2>3, <2>4 DEF SongInv, TypeOK
<1>7. Range(track) \cup Waiting(socket[c]) \subseteq Range(rest) \cup Waiting(more)
    <2> HIDE DEF track, rest, more, m
    <2>1. Range(Due(c)) \subseteq Waiting(more)
        <3>1. m + 1 \in DOMAIN more
            BY <1>5
        <3> QED BY <1>5, <3>1 DEF Waiting
    <2>2. Waiting(socket[c]) \subseteq Waiting(more)
        <3>1. \A k \in 1 .. m : k \in DOMAIN more
            BY <1>5
        <3> QED BY <1>5, <3>1 DEF Waiting
    <2> QED BY <1>4, <2>1, <2>2
<1>8. \A k \in DOMAIN more : Stretch(more[k])
    <2> HIDE DEF track, rest, more, m
    <2>1. \A k \in 1 .. m + 1 : k \in 1 .. m \/ k = m + 1
        BY <1>5
    <2> QED BY <1>4, <1>5, <2>1 DEF Whole
<1>9. Events(c) \subseteq InHand(c) \cup Crowds(c) /\ Crowds(c)' = Crowds(c)
    BY CrowdsStay DEF PlayTrack, Whole
<1> HIDE DEF rest, more, m
<1>10. (Events(c) \subseteq InHand(c) \cup Crowds(c))'
    BY <1>6, <1>7, <1>9 DEF InHand
<1> QED BY <1>4, <1>6, <1>8, <1>10 DEF Whole

LEMMA TwiddleWhole ==
    ASSUME NEW a, NEW d, SongInv(a, d), Steady, NEW c \in Client, Whole(c), Twiddle(c)
    PROVE  Whole(c)'
<1> DEFINE Put == [first : Nat, event : Event]
           Sound == [time : Nat, event : Event]
           queue == IF Receives(c) THEN Queued(c, Head(socket[c])) ELSE queued_events[c]
<1>1. /\ queued_events[c] \in Seq(Put) /\ socket[c] \in Seq(Seq(Event)) /\ heard[c] \in Seq(Sound)
      /\ midi_timer \in Nat /\ delay[c] \in Nat
    BY Numbers DEF SongInv, TypeOK
<1>2. track_queues' = track_queues /\ PlayMidiData(c, queue)
      /\ socket'[c] = IF Receives(c) THEN Tail(socket[c]) ELSE socket[c]
    BY DEF SongInv, TypeOK, Twiddle, server
<1>3. /\ queue \in Seq(Put)
      /\ Waiting(socket[c]) \cup EventsIn(queued_events[c])
             \subseteq Waiting(socket[c])' \cup EventsIn(queue) \cup Crowds(c)
      /\ \A k \in DOMAIN socket'[c] : Stretch(socket'[c][k])
    <2>1. CASE Receives(c)
        <3> DEFINE message == Head(socket[c])
                   taken == PutOff(c, message)
        <3>1. socket[c] # <<>>
            BY <2>1 DEF Receives
        <3>2. message \in Seq(Event) /\ 1 \in DOMAIN socket[c] /\ message = socket[c][1]
            BY <1>1, <3>1, HeadTailProperties, LenProperties, EmptySeq
        <3>3. Len(message) % EVENT_COUNTS = Len(message) \/ Range(message) \subseteq Crowds(c)
            BY <3>2, CountHolds
        <3> HIDE DEF message
        <3>4. /\ taken \in Seq(Put) /\ Len(taken) = Len(message) % EVENT_COUNTS
              /\ \A i \in 1 .. Len(taken) : taken[i].event = message[i]
            <4>1. taken \in Seq(Put)
                BY <1>1, <3>2, PlaybackAssumption, TakenInOrder
            <4>2. Len(taken) = Len(message) % EVENT_COUNTS
                BY <1>1, <3>2, PlaybackAssumption, TakenInOrder
            <4>3. midi_timer \in Nat /\ delay[c] \in Nat /\ message \in Seq(Event)
                BY <1>1, <3>2
            <4>4. \A i \in 1 .. Len(taken) : taken[i].event = message[i]
                BY <4>3, PlaybackAssumption, TakenInOrder
            <4> QED BY <4>1, <4>2, <4>4
        <3>5. DOMAIN taken = 1 .. Len(taken) /\ DOMAIN message = 1 .. Len(message)
            BY <3>2, <3>4, LenProperties
        <3> HIDE DEF taken, Put
        <3>6. Range(message) \subseteq EventsIn(taken) \cup Crowds(c)
            <4>1. Len(message) % EVENT_COUNTS = Len(message) => Range(message) \subseteq EventsIn(taken)
                BY <3>4, <3>5 DEF EventsIn, Range
            <4> QED BY <3>3, <4>1
        <3>7. queue = queued_events[c] \o taken
            BY <2>1 DEF Queued, taken, message
        <3> HIDE DEF queue
        <3>8. queue \in Seq(Put) /\ EventsIn(queue) = EventsIn(queued_events[c]) \cup EventsIn(taken)
            BY <1>1, <3>4, <3>7, ConcatProperties, EventsJoin
        <3>9. Waiting(socket[c]) \subseteq Range(message) \cup Waiting(Tail(socket[c]))
              /\ \A k \in DOMAIN Tail(socket[c]) : \E l \in DOMAIN socket[c] :
                    Tail(socket[c])[k] = socket[c][l]
            BY <1>1, <3>1, WaitingSplits DEF message
        <3>10. socket'[c] = Tail(socket[c])
            BY <1>2, <2>1
        <3>11. \A k \in DOMAIN socket'[c] : Stretch(socket'[c][k])
            BY <3>9, <3>10 DEF Whole
        <3>12. Waiting(socket[c])' = Waiting(Tail(socket[c]))
            BY <3>10 DEF Waiting
        <3> QED BY <3>6, <3>8, <3>9, <3>11, <3>12
    <2>2. CASE ~Receives(c)
        <3>1. queue = queued_events[c] /\ socket'[c] = socket[c]
            BY <1>2, <2>2
        <3>2. Waiting(socket[c])' = Waiting(socket[c])
            BY <3>1 DEF Waiting
        <3> QED BY <1>1, <3>1, <3>2 DEF Whole
    <2> QED BY <2>1, <2>2
<1> HIDE DEF queue
<1>4. EventsIn(queue) \cup EventsIn(heard[c]) \subseteq (EventsIn(queued_events[c]) \cup EventsIn(heard[c]))'
    <2>1. PICK n \in 0 .. Len(queue) : Plays(c, queue, n)
        <3> HIDE DEF Put
        <3> QED BY <1>2, <1>3, PlayedIsPrefix
    <2> DEFINE rest == SubSeq(queue, n + 1, Len(queue))
               front == [i \in 1 .. n |-> [time |-> midi_timer, event |-> queue[i].event]]
    <2>2. queued_events'[c] = rest /\ heard'[c] = heard[c] \o front
        <3>1. /\ queued_events' = [queued_events EXCEPT ![c] = rest]
              /\ heard' = [heard EXCEPT ![c] = @ \o front]
            BY <2>1 DEF Plays
        <3> HIDE DEF rest, front
        <3> QED BY <3>1 DEF SongInv, TypeOK
    <2>3. FrontOf(queue, front, n)
        BY DEF FrontOf
    <2>4. front \in Seq(Sound)
        <3>1. n \in Nat /\ \A i \in 1 .. n : queue[i] \in Put
            <4> HIDE DEF Put
            <4>1. Len(queue) \in Nat
                BY <1>3, LenProperties
            <4> QED BY <1>3, <4>1, ElementOfSeq
        <3>2. front \in [1 .. n -> Sound]
            BY <1>1, <3>1
        <3> HIDE DEF front, Sound
        <3> QED BY <3>1, <3>2, FunctionIsSeq
    <2> HIDE DEF rest, front, Sound, Put
    <2>5. EventsIn(queue) \subseteq EventsIn(front) \cup EventsIn(rest)
        <3>1. queue \in Seq(Put) /\ rest = SubSeq(queue, n + 1, Len(queue))
            BY <1>3 DEF rest
        <3>2. HeldBy(EventsIn(queue), EventsIn(front), EventsIn(rest))
            BY <2>1, <2>3, <3>1, QueueHolds
        <3> QED BY <3>2 DEF HeldBy
    <2>6. EventsIn(heard[c] \o front) = EventsIn(heard[c]) \cup EventsIn(front)
        BY <1>1, <2>4, EventsJoin
    <2>7. EventsIn(queued_events[c])' = EventsIn(rest) /\ EventsIn(heard[c])' = EventsIn(heard[c] \o front)
        BY <2>2 DEF EventsIn
    <2> QED BY <2>5, <2>6, <2>7
<1>5. Events(c) \subseteq InHand(c) \cup Crowds(c) /\ Crowds(c)' = Crowds(c)
    BY CrowdsStay DEF Twiddle, Whole
<1>6. (Events(c) \subseteq InHand(c) \cup Crowds(c))'
    BY <1>2, <1>3, <1>4, <1>5 DEF InHand
<1> QED BY <1>2, <1>3, <1>6 DEF Whole

LEMMA InitWhole == Init => NothingLost
<1> SUFFICES ASSUME Init, NEW c \in Client PROVE Whole(c)
    BY DEF NothingLost
<1>1. track_queues[c] = [i \in Events(c) |-> i] /\ socket[c] = <<>>
    BY DEF Init
<1>2. Stretch(track_queues[c])
    BY <1>1 DEF Stretch
<1>3. Events(c) \subseteq Range(track_queues[c])
    BY <1>1 DEF Range
<1>4. \A k \in DOMAIN <<>> : FALSE
    OBVIOUS
<1> QED BY <1>1, <1>2, <1>3, <1>4 DEF Whole, InHand

LEMMA StepWhole ==
    ASSUME NEW a, NEW d, SongInv(a, d), NothingLost, [Next]_vars
    PROVE  NothingLost'
<1> SUFFICES ASSUME Steady', lost' = 0, NEW c \in Client PROVE Whole(c)'
    BY DEF NothingLost
<1>1. QuietStep
    BY Quiet DEF SongInv, Estimated
<1>2. Steady /\ Whole(c)
    <2>1. lost \in Nat
        BY DEF SongInv, TypeOK
    <2>2. lost' = lost \/ lost' = lost + 1
        BY <1>1 DEF QuietStep, PlayTrack, HandleClientTiming, Twiddle, Disturb, Lose, Duplicate,
                    Overtake, Tick, network, vars
    <2> QED BY <1>1, <2>1, <2>2 DEF QuietStep, NothingLost
<1>3. ASSUME track_queues'[c] = track_queues[c], socket'[c] = socket[c],
             queued_events'[c] = queued_events[c], heard'[c] = heard[c], began' = began
      PROVE  Whole(c)'
    <2>1. Crowds(c)' = Crowds(c)
        BY <1>3, CrowdsStay
    <2> QED BY <1>2, <1>3, <2>1 DEF Whole, InHand, Waiting, EventsIn
<1>4. ASSUME NEW e \in Client, PlayTrack(e) PROVE Whole(c)'
    <2>1. CASE e = c
        BY <1>2, <1>4, <2>1, PlayTrackWhole
    <2>2. CASE e # c
        <3>1. UNCHANGED <<began, queued_events, heard>>
            BY <1>4 DEF PlayTrack, users
        <3>2. track_queues'[c] = track_queues[c] /\ socket'[c] = socket[c]
            BY <1>4, <2>2 DEF PlayTrack, SongInv, TypeOK
        <3> QED BY <1>3, <3>1, <3>2
    <2> QED BY <2>1, <2>2
<1>5. ASSUME NEW e \in Client, Twiddle(e) PROVE Whole(c)'
    <2>1. CASE e = c
        BY <1>2, <1>5, <2>1, TwiddleWhole
    <2>2. CASE e # c
        <3>1. track_queues' = track_queues /\ socket'[c] = socket[c] /\ began' = began
            BY SMTT(30), <1>5, <2>2 DEF Twiddle, server, SongInv, TypeOK
        <3>2. queued_events'[c] = queued_events[c] /\ heard'[c] = heard[c]
            BY <1>5, <2>2 DEF Twiddle, PlayMidiData, SongInv, TypeOK
        <3> QED BY <1>3, <3>1, <3>2
    <2> QED BY <2>1, <2>2
<1>6. ASSUME NEW e \in Client, HandleClientTiming(e) PROVE Whole(c)'
    BY <1>3, <1>6 DEF HandleClientTiming, server, users
<1>7. CASE Tick
    BY <1>3, <1>7 DEF Tick, users
<1>8. CASE UNCHANGED vars
    <2>1. UNCHANGED <<began, track_queues, socket, queued_events, heard>>
        BY <1>8 DEF vars, server
    <2> QED BY <1>3, <2>1
<1>9. ASSUME NEW e \in Client, Disturb(e) PROVE Whole(c)'
    <2>1. /\ \E after \in Seq(Seq(Event)) : /\ socket' = [socket EXCEPT ![e] = after]
                                            /\ Disturbed(socket[e], after, lost' # 0)
          /\ UNCHANGED <<midi_timer, began, server, sync, queued_events, users, heard>>
        BY <1>9, NetworkStep DEF SongInv
    <2>2. PICK after \in Seq(Seq(Event)) : /\ socket' = [socket EXCEPT ![e] = after]
                                           /\ Disturbed(socket[e], after, lost' # 0)
        BY <2>1
    <2>3. UNCHANGED <<began, track_queues, queued_events, heard>>
        BY <2>1 DEF server
    <2>4. CASE e = c
        <3>1. socket'[c] = after
            BY <2>2, <2>4 DEF SongInv, TypeOK
        <3>2. /\ \A k \in DOMAIN after : \E l \in DOMAIN socket[c] : after[k] = socket[c][l]
              /\ \A l \in DOMAIN socket[c] : \E k \in DOMAIN after : after[k] = socket[c][l]
            BY <2>2, <2>4 DEF Disturbed
        <3>3. \A k \in DOMAIN socket'[c] : Stretch(socket'[c][k])
            BY <1>2, <3>1, <3>2 DEF Whole
        <3>4. Waiting(socket[c]) \subseteq Waiting(socket[c])'
            BY <3>1, <3>2 DEF Waiting
        <3>5. Crowds(c)' = Crowds(c)
            BY <2>3, CrowdsStay
        <3>6. (Events(c) \subseteq InHand(c) \cup Crowds(c))'
            BY <1>2, <2>3, <3>4, <3>5 DEF Whole, InHand, EventsIn
        <3> QED BY <1>2, <2>3, <3>3, <3>6 DEF Whole
    <2>5. CASE e # c
        BY <1>3, <2>2, <2>3, <2>5 DEF SongInv, TypeOK
    <2> QED BY <2>4, <2>5
<1> QED BY <1>1, <1>4, <1>5, <1>6, <1>7, <1>8, <1>9 DEF QuietStep

(* The time of the farthest client is put off by no more than this. *)
LEMMA LatestBound ==
    ASSUME NEW a, NEW d, Settled(a, d), NEW c \in Client
    PROVE  LET farthest == Greatest([e \in Client |-> Longest(d[e])])
           IN  farthest \in Nat /\ Latest(a, d, c) <= farthest - Half(d[c]) + Slack
<1> DEFINE low == Lows(a, d)
           high == Highs(a, d)
           longest == [e \in Client |-> Longest(d[e])]
           H == Greatest(high)
           F == Greatest(longest)
<1>1. low \in [Client -> Nat] /\ high \in [Client -> Nat] /\ H \in Nat
    BY LowsAndHighs
<1>2. \A e \in Client : Longest(d[e]) \in Nat /\ high[e] <= Longest(d[e])
    <2> SUFFICES ASSUME NEW e \in Client
                 PROVE  Longest(d[e]) \in Nat /\ Highest(a[e], d[e]) <= Longest(d[e])
        BY DEF Highs
    <2>1. d[e] \in Nat /\ a[e] \in Estimates(d[e])
        BY LowsAndHighs DEF Settled
    <2> QED BY <2>1, EstimateStarts
<1>3. Half(d[c]) \in Nat /\ Half(d[c]) - 7 <= low[c] /\ Half(d[c]) <= Longest(d[c])
    <2>1. d[c] \in Nat /\ a[c] \in Estimates(d[c]) /\ low[c] = Lowest(a[c], d[c]) /\ Lag \in Nat
        BY LowsAndHighs, PlaybackAssumption DEF Settled, Lows, PlaybackAssumption
    <2>2. Half(d[c]) <= Longest(d[c])
        BY <2>1 DEF Half, Longest, HalfTrip, RoundTrip
    <2> HIDE DEF low
    <2> QED BY <2>1, <2>2, EstimateStarts
<1>4. longest \in [Client -> Nat] /\ \A e \in Client : longest[e] = Longest(d[e])
    BY <1>2
<1>5. PutOffMost(a, d, c) = H - low[c] /\ Lag \in Nat
    BY PlaybackAssumption DEF PutOffMost, PlaybackAssumption
<1> HIDE DEF low, high, longest
<1>6. F \in Nat /\ \A e \in Client : longest[e] <= F
    BY <1>4, GreatestBounds, PlaybackAssumption
<1>7. H <= F
    <2>1. \A e \in Client : high[e] <= F
        <3> SUFFICES ASSUME NEW e \in Client PROVE high[e] <= F
            OBVIOUS
        <3>1. high[e] \in Nat /\ Longest(d[e]) \in Nat /\ high[e] <= Longest(d[e])
              /\ Longest(d[e]) <= F
            BY <1>1, <1>2, <1>4, <1>6
        <3> HIDE DEF F
        <3> QED BY <1>6, <3>1
    <2> QED BY <1>1, <1>6, <2>1, GreatestBounds, PlaybackAssumption
<1>8. low[c] \in Nat /\ Longest(d[c]) \in Nat /\ Longest(d[c]) <= F
    BY <1>1, <1>2, <1>4, <1>6
<1> HIDE DEF H, F
<1>9. Latest(a, d, c) <= F - Half(d[c]) + Slack
    <2>1. CASE H - low[c] > 0
        <3>1. Latest(a, d, c) = Lag + (H - low[c] - 1)
            BY <1>5, <2>1 DEF Latest
        <3> QED BY <1>1, <1>3, <1>5, <1>6, <1>7, <1>8, <3>1 DEF Slack
    <2>2. CASE ~(H - low[c] > 0)
        <3>1. Latest(a, d, c) = Lag
            BY <1>5, <2>2 DEF Latest
        <3> QED BY <1>3, <1>5, <1>6, <1>8, <3>1 DEF Slack
    <2> QED BY <2>1, <2>2
<1> QED BY <1>6, <1>9 DEF F, longest

LEMMA OnTimeInTime == ASSUME NEW a, NEW d PROVE SongInv(a, d) /\ NothingLost => OnTime
<1> DEFINE farthest == Greatest([e \in Client |-> HalfTrip(RoundTrip(delay[e]) + Lag)])
<1> SUFFICES ASSUME SongInv(a, d), NothingLost, Steady, lost = 0,
                    NEW c \in Client, NEW i \in Events(c), ~Crowded(c, i),
                    ~\E k \in DOMAIN heard[c] : heard[c][k].event = i
             PROVE  midi_timer <= Moment(c, i) + farthest - HalfTrip(RoundTrip(delay[c]))
                                      + Slack + delay[c] + 1
    BY DEF OnTime
<1> DEFINE latest == Latest(a, d, c)
           early == Earliest(a, d, c)
           T == Moment(c, i)
           now == midi_timer
           held == delay[c]
<1>1. farthest \in Nat /\ latest <= farthest - Half(held) + Slack
    <2>1. delay = d /\ Settled(a, d)
        BY DEF SongInv, Estimated
    <2> QED BY <2>1, LatestBound DEF Longest
<1>2. /\ early \in Int /\ latest \in Nat /\ Lag <= latest /\ Lag \in Nat
      /\ T \in Nat /\ now \in Nat /\ held \in Nat /\ late[c] \in 0 .. Lag
    BY TimesSpread, Moments, Numbers, PlaybackAssumption DEF SongInv, TypeOK, PlaybackAssumption
<1>3. Half(held) \in Nat
    BY <1>2 DEF Half, HalfTrip, RoundTrip
<1>4. Timed(c, early, latest) /\ Whole(c)
    BY DEF SongInv, TimedInv, NothingLost
<1>5. SUFFICES now <= T + latest + held + 1
    <2>1. HalfTrip(RoundTrip(held)) = Half(held) /\ Slack \in Nat
        BY <1>2 DEF Half, Slack
    <2> HIDE DEF latest, early, T, now, farthest, held
    <2>2. now <= T + farthest - Half(held) + Slack + held + 1
        BY <1>1, <1>2, <1>3, <1>5, <2>1
    <2> QED BY <2>1, <2>2 DEF T, now, farthest, held
<1>6. i \notin EventsIn(heard[c])
    BY DEF EventsIn
<1>7. CASE i \in Range(track_queues[c])
    <2> DEFINE track == track_queues[c]
    <2>1. PICK k \in DOMAIN track : track[k] = i
        BY <1>7 DEF Range
    <2>2. track # <<>> /\ Head(track) = track[1] /\ 1 \in DOMAIN track /\ (1 < k \/ k = 1)
        <3>1. track \in Seq(Event)
            BY DEF SongInv, TypeOK
        <3> HIDE DEF track
        <3> QED BY <2>1, <3>1, LenProperties, EmptySeq
    <2>3. TrackInTime(c, track, now, late[c], latest) /\ Increasing(track)
        BY <1>4 DEF Timed, SongInv, OrderInv, TracksInOrder
    <2> HIDE DEF track
    <2>4. track[1] \in Events(c) /\ (track[1] < i \/ track[1] = i)
        BY <2>1, <2>2, <2>3 DEF TrackInTime, Increasing
    <2>5. Moment(c, track[1]) \in Nat /\ Moment(c, track[1]) <= T
        <3>1. track[1] \in Nat /\ i \in Nat
            BY <2>4, TimesOfTrack
        <3>2. track[1] <= i
            BY <2>4, <3>1
        <3> QED BY <2>4, <3>2, Moments DEF SongInv
    <2>6. now - late[c] <= Moment(c, track[1]) + (latest - Lag)
        BY <2>2, <2>3 DEF TrackInTime
    <2> DEFINE first == Moment(c, track[1])
    <2>7. first \in Nat /\ first <= T /\ now - late[c] <= first + (latest - Lag)
        BY <2>5, <2>6
    <2> HIDE DEF first, latest, T, now, held
    <2> QED BY <1>2, <2>7
<1>8. CASE i \in Waiting(socket[c])
    <2>1. PICK k \in DOMAIN socket[c] : i \in Range(socket[c][k])
        BY <1>8 DEF Waiting
    <2>2. PICK j \in DOMAIN socket[c][k] : socket[c][k][j] = i
        BY <2>1 DEF Range
    <2>3. now - T <= latest
        BY <1>4, <2>1, <2>2 DEF Timed, MessagesInTime, InTime
    <2> HIDE DEF latest, early, T, now, held
    <2> QED BY <1>2, <2>3
<1>9. CASE i \in EventsIn(queued_events[c])
    <2>1. PICK k \in DOMAIN queued_events[c] : queued_events[c][k].event = i
        BY <1>9 DEF EventsIn
    <2> DEFINE first == queued_events[c][k].first
    <2>2. (first - held) - T <= latest /\ first \in now - 1 .. now + held
        BY <1>4, <2>1 DEF Timed, QueueInTime, InTime
    <2> HIDE DEF latest, early, T, now, held, first
    <2> QED BY <1>2, <2>2
<1> QED BY <1>4, <1>6, <1>7, <1>8, <1>9 DEF Whole, InHand, Crowds

(* While the network loses no message no event is lost or left behind, but *)
(* those a message may hold whose count wraps: the queues of the server,   *)
(* the socket and the queue of the client hold it no longer than the       *)
(* farthest client's time and the client's own delay take, for any tracks, *)
(* any size of the count and whenever the song begins.                     *)
THEOREM AlwaysOnTime == Spec => []OnTime
<1>1. ASSUME NEW a \in [Client -> Nat], NEW d \in [Client -> Delays]
      PROVE  StartsWith(a, d) /\ Spec => []OnTime
    <2>1. Init => NothingLost
        BY InitWhole
    <2>2. SongInv(a, d) /\ NothingLost /\ [Next]_vars => NothingLost'
        BY StepWhole
    <2>3. SongInv(a, d) /\ NothingLost => OnTime
        BY OnTimeInTime
    <2> QED BY <2>1, <2>2, <2>3, SongInvariant, PTL DEF Spec
<1>2. SongBegins /\ Spec => []OnTime
    BY <1>1 DEF SongBegins
<1> QED BY <1>2, SongsBegin
=============================================================================
