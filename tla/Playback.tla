------------------------------ MODULE Playback ------------------------------
(***************************************************************************)
(* From a song's events to what is heard of them, in real milliseconds.    *)
(*                                                                         *)
(* handle_play_song() of srtt_server.cpp sends an event when midi_timer    *)
(* has reached its timestamp plus what the client is nearer than the       *)
(* farthest one; the client program puts it off by the delay it emulates   *)
(* and plays it.  The estimates the server compensates with are those that *)
(* SyncLink settles at, and go on being smoothed.                          *)
(*                                                                         *)
(* Each client plays one track, and the server counts on it all the time:  *)
(* hand-overs are in module Server.  midi_timer stands for the clocks of   *)
(* all programs.  The network adds less than a millisecond to a MIDI       *)
(* message, but may lose, duplicate or reorder it: nobody notices.         *)
(*                                                                         *)
(* Pt_Start() of a second song does not start the timer again, so that     *)
(* song begins when midi_timer is already past many of its events.         *)
(***************************************************************************)
EXTENDS DelayEstimate, SequencesExt, FiniteSetsExt

CONSTANTS
    Client,             \* the clients
    Track,              \* the track each of them plays: its events' timestamps
    Delays,             \* the delays the clients' users may set
    Lag,                \* how late, in ms, the server may look at a track
    EVENT_COUNTS,       \* how many values num_midi_events has
    MaxWaiting,         \* datagrams a client's socket holds
    Begins,             \* what midi_timer may be when the song begins
    MaxAnswers,         \* bound: answers smoothed while the song plays
    MaxUpsets,          \* bound: delays and "stop"s typed at the clients, and
                        \* messages lost, duplicated or overtaken
    MaxTimer            \* bound: midi_timer

ASSUME PlaybackAssumption ==
    /\ IsFiniteSet(Client) /\ Client # {}
    /\ Track \in [Client -> Seq(Nat)]
    /\ \A c \in Client : \A i, j \in DOMAIN Track[c] : i <= j => Track[c][i] <= Track[c][j]
    /\ Delays \subseteq Nat
    /\ Lag \in Nat
    /\ EVENT_COUNTS \in Nat \ {0}
    /\ MaxWaiting \in Nat \ {0}
    /\ MaxAnswers \in Nat
    /\ MaxUpsets \in Nat
    /\ MaxTimer \in Nat
    /\ Begins \subseteq 0 .. MaxTimer

VARIABLES
    midi_timer,         \* the time
    began,              \* what it was when the song began
    \* the server
    track_queues,       \* per client, the positions of the events not sent
    late,               \* per client, ms its track has been left although due
    avg_delay,          \* the estimates
    max_client_delay,   \* the greatest of them when the last round ended
    answers,            \* answers smoothed so far
    \* the clients
    socket,             \* MIDI messages on their way and in the client's socket
    queued_events,      \* events taken, with the time they are put off to
    delay, client_alive,
    commands,           \* delays and "stop"s typed so far
    heard,              \* what has been played so far, and when
    \* what the network has done to messages so far
    lost, duplicated, overtaken

server  == <<track_queues, late>>
sync    == <<avg_delay, max_client_delay, answers>>
users   == <<delay, client_alive, commands>>
network == <<lost, duplicated, overtaken>>
vars    == <<midi_timer, began, server, sync, socket, queued_events, users, heard, network>>

Upsets == commands + lost + duplicated + overtaken

Events(c) == DOMAIN Track[c]
Event     == UNION {Events(c) : c \in Client}

TypeOK ==
    /\ began \in Begins
    /\ midi_timer \in began .. MaxTimer
    /\ track_queues \in [Client -> Seq(Event)]
    /\ late \in [Client -> 0 .. Lag]
    /\ avg_delay \in [Client -> Nat]
    /\ max_client_delay \in Nat
    /\ answers \in 0 .. MaxAnswers
    /\ socket \in [Client -> Seq(Seq(Event))]
    /\ \A c \in Client : Len(socket[c]) <= MaxWaiting
    /\ queued_events \in [Client -> Seq([first : Nat, event : Event])]
    /\ delay \in [Client -> Delays]
    /\ client_alive \in [Client -> BOOLEAN]
    /\ heard \in [Client -> Seq([time : Nat, event : Event])]
    /\ commands \in Nat /\ lost \in Nat /\ duplicated \in Nat /\ overtaken \in Nat
    /\ Upsets <= MaxUpsets

(* Where the estimate of a client with delay d settles (EstimateSettles of *)
(* module SyncLink): its answers come after d + 1 ms.                      *)
RoundTrip(d) == d + 1
Estimates(d) == {e \in 0 .. HalfTrip(RoundTrip(d) + Lag) : e >= HalfTrip(RoundTrip(d)) - 7}

Greatest(estimates) == Max({0} \cup {estimates[c] : c \in Client})

(* parse_midi_input() has dealt the song, and Pt_Start() has started the   *)
(* timer, unless an earlier song did.  A round of syncs is over.           *)
Init ==
    /\ began \in Begins
    /\ midi_timer = began
    /\ track_queues = [c \in Client |-> [i \in Events(c) |-> i]]
    /\ late = [c \in Client |-> 0]
    /\ delay \in [Client -> Delays]
    /\ avg_delay \in [Client -> UNION {Estimates(d) : d \in Delays}]
    /\ \A c \in Client : avg_delay[c] \in Estimates(delay[c])
    /\ max_client_delay = Greatest(avg_delay)
    /\ socket = [c \in Client |-> <<>>]
    /\ queued_events = [c \in Client |-> <<>>]
    /\ client_alive = [c \in Client |-> TRUE]
    /\ answers = 0 /\ commands = 0
    /\ lost = 0 /\ duplicated = 0 /\ overtaken = 0
    /\ heard = [c \in Client |-> <<>>]

----------------------------------------------------------------------------
(* The server *)

(* What a queue has before the first that is held back: all if none is.    *)
Before(queue, held) == IF held = 0 THEN queue ELSE SubSeq(queue, 1, held - 1)

FrontDue(c) ==
    track_queues[c] # <<>> /\ Track[c][Head(track_queues[c])] <= midi_timer

(* Mistakes: no compensation; the loop goes by the time of the front       *)
(* event, which it forgets to read again.                                  *)
DueUncompensated(c) ==
    Before(track_queues[c], SelectInSeq(track_queues[c], LAMBDA i : Track[c][i] > midi_timer))
DueByFront(c) ==
    LET putOff == max_client_delay - avg_delay[c]
        queue  == track_queues[c]
    IN  Before(queue, SelectInSeq(queue, LAMBDA i : Track[c][Head(queue)] + putOff > midi_timer))

(* A mistake: the last event that is due waits for the next one.           *)
DueButLast(c) ==
    LET putOff == max_client_delay - avg_delay[c]
        queue  == track_queues[c]
        held   == SelectInSeq(queue, LAMBDA i : Track[c][i] + putOff > midi_timer)
    IN  Before(queue, IF held < 2 THEN held ELSE held - 1)

(* The events whose time, put off by what c is nearer than the farthest    *)
(* client, has come: possibly none, and then the message is empty.         *)
Due(c) ==
    LET putOff == max_client_delay - avg_delay[c]
        queue  == track_queues[c]
    IN  Before(queue, SelectInSeq(queue, LAMBDA i : Track[c][i] + putOff > midi_timer))

(* A mistake: no socket is ever full.                                      *)
SentAnyway(waiting, message) == Append(waiting, message)

(* send_midi_msg(): a socket that is full drops the message. *)
Sent(waiting, message) ==
    IF Len(waiting) < MaxWaiting THEN Append(waiting, message) ELSE waiting

(* A pass of handle_play_song() looks at the track of c.  It sends a       *)
(* message, empty while the front event is put off, on every pass; a       *)
(* client that is not stopped keeps up with them.                          *)
PlayTrack(c) ==
    /\ FrontDue(c)
    /\ client_alive[c] => Len(socket[c]) < MaxWaiting
    /\ late' = [late EXCEPT ![c] = 0]
    /\ socket' = [socket EXCEPT ![c] = Sent(@, Due(c))]
    /\ track_queues' = [track_queues EXCEPT ![c] = SubSeq(@, Len(Due(c)) + 1, Len(@))]
    /\ UNCHANGED <<midi_timer, began, sync, queued_events, users, heard, network>>

(* An answer of c is smoothed into its estimate; it may end a round. *)
HandleClientTiming(c) ==
    /\ client_alive[c]
    /\ answers < MaxAnswers
    /\ answers' = answers + 1
    /\ \E lag \in 0 .. Lag :
          avg_delay' = [avg_delay EXCEPT
                           ![c] = Smoothed(@, HalfTrip(RoundTrip(delay[c]) + lag))]
    /\ max_client_delay' \in {max_client_delay, Greatest(avg_delay')}
    /\ UNCHANGED <<midi_timer, began, server, socket, queued_events, users, heard, network>>

----------------------------------------------------------------------------
(* The clients *)

(* A mistake: the last event of a message is overlooked.                   *)
PutOffButLast(c, message) ==
    [i \in 1 .. (Len(message) % EVENT_COUNTS) - 1 |->
        [first |-> midi_timer + delay[c], event |-> message[i]]]

(* queue_midi_data(): the client goes by the 8-bit count of the header.    *)
PutOff(c, message) ==
    [i \in 1 .. (Len(message) % EVENT_COUNTS) |->
        [first |-> midi_timer + delay[c], event |-> message[i]]]

(* A mistake: the queue is kept in the order of the times.                 *)
QueuedByTime(c, message) ==
    SortSeq(queued_events[c] \o PutOff(c, message), LAMBDA e, f : e.first < f.first)

(* A later event waits behind an earlier one, even if its time has come.   *)
Queued(c, message) == queued_events[c] \o PutOff(c, message)

(* play_midi_data(): what is in front and put off to an earlier time.      *)
PlayMidiData(c, queue) ==
    LET ready == Before(queue, SelectInSeq(queue, LAMBDA e : e.first >= midi_timer))
    IN  /\ queued_events' = [queued_events EXCEPT ![c] = SubSeq(queue, Len(ready) + 1, Len(queue))]
        /\ heard' = [heard EXCEPT ![c] =
              @ \o [i \in DOMAIN ready |-> [time |-> midi_timer, event |-> ready[i].event]]]

Receives(c) == client_alive[c] /\ socket[c] # <<>>

ClientDue(c) ==
    \/ Receives(c)
    \/ queued_events[c] # <<>> /\ Head(queued_events[c]).first < midi_timer

(* twiddle() without user input: one datagram in, all that is ready out.   *)
Twiddle(c) ==
    /\ ClientDue(c)
    /\ socket' = IF Receives(c) THEN [socket EXCEPT ![c] = Tail(@)] ELSE socket
    /\ PlayMidiData(c, IF Receives(c)
                       THEN Queued(c, Head(socket[c]))
                       ELSE queued_events[c])
    /\ UNCHANGED <<midi_timer, began, server, sync, users, network>>

(* twiddle() with a line on stdin: handle_stdin(), and no datagram. *)
SetDelay(c) ==
    /\ Upsets < MaxUpsets
    /\ commands' = commands + 1
    /\ \E d \in Delays : delay' = [delay EXCEPT ![c] = d]
    /\ PlayMidiData(c, queued_events[c])
    /\ UNCHANGED <<midi_timer, began, server, sync, socket, client_alive, network>>

(* "stop" forgets what has not been played yet. *)
Stop(c) ==
    /\ Upsets < MaxUpsets
    /\ commands' = commands + 1
    /\ client_alive' = [client_alive EXCEPT ![c] = FALSE]
    /\ PlayMidiData(c, <<>>)
    /\ UNCHANGED <<midi_timer, began, server, sync, socket, delay, network>>

Start(c) ==
    /\ ~client_alive[c]
    /\ client_alive' = [client_alive EXCEPT ![c] = TRUE]
    /\ PlayMidiData(c, queued_events[c])
    /\ UNCHANGED <<midi_timer, began, server, sync, socket, delay, commands, network>>

----------------------------------------------------------------------------
(* The network: the socket is read in any order and number of the messages *)
(* sent, and twiddle() looks at no sequence number.                        *)

Upset(c) == Upsets < MaxUpsets /\ socket[c] # <<>>

(* The message that would be read next never comes. *)
Lose(c) ==
    /\ Upset(c)
    /\ lost' = lost + 1
    /\ socket' = [socket EXCEPT ![c] = Tail(@)]
    /\ UNCHANGED <<midi_timer, began, server, sync, queued_events, users, heard, duplicated, overtaken>>

(* A message comes a second time, unless the socket is full. *)
Duplicate(c) ==
    /\ Upset(c)
    /\ Len(socket[c]) < MaxWaiting
    /\ duplicated' = duplicated + 1
    /\ \E k \in DOMAIN socket[c] : socket' = [socket EXCEPT ![c] = Append(@, socket[c][k])]
    /\ UNCHANGED <<midi_timer, began, server, sync, queued_events, users, heard, lost, overtaken>>

(* A message overtakes another. *)
Overtake(c) ==
    /\ Upset(c)
    /\ overtaken' = overtaken + 1
    /\ \E k, l \in DOMAIN socket[c] :
          /\ k < l
          /\ socket' = [socket EXCEPT ![c] = [@ EXCEPT ![k] = socket[c][l], ![l] = socket[c][k]]]
    /\ UNCHANGED <<midi_timer, began, server, sync, queued_events, users, heard, lost, duplicated>>

----------------------------------------------------------------------------
(* A millisecond: the clients act at once, the server leaves a track that  *)
(* is due alone for at most Lag.                                           *)
Tick ==
    /\ midi_timer < MaxTimer
    /\ \A c \in Client : ~ClientDue(c) /\ (FrontDue(c) => late[c] < Lag)
    /\ midi_timer' = midi_timer + 1
    /\ late' = [c \in Client |-> IF FrontDue(c) THEN late[c] + 1 ELSE 0]
    /\ UNCHANGED <<began, track_queues, sync, socket, queued_events, users, heard, network>>

Next ==
    \/ \E c \in Client :
          \/ PlayTrack(c) \/ HandleClientTiming(c)
          \/ Twiddle(c) \/ SetDelay(c) \/ Stop(c) \/ Start(c)
          \/ Lose(c) \/ Duplicate(c) \/ Overtake(c)
    \/ Tick

Spec == Init /\ [][Next]_vars

----------------------------------------------------------------------------
Steady == commands = 0

(* The time from which the server may send an event.  Those that are past  *)
(* when the song begins go out at once, compensated or not; a song whose   *)
(* timer starts with it has none of them.                                  *)
Moment(c, i) == IF Track[c][i] < began THEN began ELSE Track[c][i]
Fresh(c, i)  == Track[c][i] >= began

(* What one client's events are late by when it is compensated for half    *)
(* its round trip: the emulated delay puts notes off in full.              *)
Left(c) == delay[c] - HalfTrip(RoundTrip(delay[c]))

(* How far apart the same moment of the song, when it was not past at its  *)
(* beginning, sounds at two clients: half the difference of their delays,  *)
(* give or take the rounding of the estimates and the server's lag.  What  *)
(* is lost, duplicated or overtaken on the way makes no difference to it.  *)
(* (handle_play_song(), queue_midi_data())                                 *)
Slack == 7 + 2 * Lag
Together ==
    Steady =>
    \A c, d \in Client : \A i \in DOMAIN heard[c], j \in DOMAIN heard[d] :
        /\ Fresh(c, heard[c][i].event)
        /\ Track[c][heard[c][i].event] = Track[d][heard[d][j].event]
        => (heard[c][i].time - heard[d][j].time) - (Left(c) - Left(d)) \in -Slack .. Slack

(* Two events of a track that were not past when the song began are heard  *)
(* as far apart as they are in the song, up to the server's lag and what   *)
(* the estimates may move because of it.                                   *)
(* (handle_play_song(), play_midi_data())                                  *)
SpacingKept ==
    Steady =>
    \A c \in Client : \A i, j \in DOMAIN heard[c] :
        LET inSong == Track[c][heard[c][j].event] - Track[c][heard[c][i].event]
            asHeard == heard[c][j].time - heard[c][i].time
        IN  Fresh(c, heard[c][i].event) /\ Fresh(c, heard[c][j].event) =>
                asHeard - inSong \in -(2 * Lag) .. 2 * Lag

(* A message never holds more than what the track has within a few         *)
(* milliseconds, and what was past when the song began: it is a track that *)
(* is that crowded, or a song that begins late, for which num_midi_events  *)
(* wraps and buf overflows.  (handle_play_song(), append_to_buf())         *)
MessagesFit ==
    Steady =>
    \A c \in Client : \A i \in DOMAIN socket[c] :
        LET message == socket[c][i]
        IN  message # <<>> =>
                Track[c][Last(message)] - Moment(c, Head(message)) <= 2 * Lag

(* A client plays the events of its track in their order, none twice, even *)
(* when its delay falls, it is stopped meanwhile or messages are lost; but *)
(* it plays what the network duplicates, and in the order it delivers.     *)
(* (queue_midi_data(), play_midi_data(), handle_stdin())                   *)
HeardInOrder ==
    duplicated = 0 /\ overtaken = 0 =>
    \A c \in Client : \A i, j \in DOMAIN heard[c] :
        i < j => heard[c][i].event < heard[c][j].event

(* The count of a message that holds i may wrap: as many events as it has  *)
(* values are due within twice the lag.                                    *)
Crowded(c, i) ==
    \E j \in Events(c) :
        /\ j <= i /\ i <= j + EVENT_COUNTS - 1
        /\ j + EVENT_COUNTS - 1 \in Events(c)
        /\ Track[c][j + EVENT_COUNTS - 1] <= Moment(c, j) + 2 * Lag

(* Unless the network loses a message, no event is lost or left behind but *)
(* those that may be in a message whose count wraps: it has been heard     *)
(* when the time of the farthest client and its own delay are over.        *)
(* (handle_play_song(), queue_midi_data(), play_midi_data())               *)
OnTime ==
    Steady /\ lost = 0 =>
    \A c \in Client : \A i \in Events(c) :
        \/ \E k \in DOMAIN heard[c] : heard[c][k].event = i
        \/ Crowded(c, i)
        \/ midi_timer <= Moment(c, i) + Greatest([d \in Client |-> HalfTrip(RoundTrip(delay[d]) + Lag)])
                          - HalfTrip(RoundTrip(delay[c])) + Slack + delay[c] + 1
=============================================================================
