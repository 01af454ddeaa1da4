------------------------------- MODULE Server -------------------------------
(***************************************************************************)
(* The server of srtt_server.cpp: one thread that loops through the states *)
(* WAIT_FOR_INPUT, PARSE_SONG and PLAY_SONG, and the PortMidi thread that  *)
(* advances midi_timer.                                                    *)
(*                                                                         *)
(* Every pass of handle_wait_for_input() polls, in this order, the user's  *)
(* line, the socket new clients write to, and the socket of the one client *)
(* the server is syncing with; only when that one is silent is its timeout *)
(* looked at.  A line or a datagram may come at any moment, so each poll   *)
(* may find something or nothing; `at' is the first poll not yet made, or  *)
(* "tracks" inside a pass of handle_play_song().                           *)
(*                                                                         *)
(* The clients are what the server sees of them: they owe an HS_FIN for    *)
(* their HS_GOOD and a SYNC_ACK for every SYNC, may be stopped and started *)
(* by their users, and answer in order.  Sequence numbers, which no        *)
(* decision of the server reads, are in module Conversation.               *)
(***************************************************************************)
EXTENDS DelayEstimate, SequencesExt

CONSTANTS
    Client,             \* the socket fds the server may open for clients
    NULL,               \* the null pointer
    Name,               \* the lines a user may type
    Song,               \* readable names -> the song's tracks; a track is
                        \* the sequence of its events' timestamps (ms)
    NUM_SYNC_TRIALS,    \* trials that make up a sync session
    MAX_SYNC_TIMEOUT,   \* how many average delays the server waits
    INITIAL_DELAY,      \* avg_delay of a client that just joined
    MOST_TRACKS,        \* what min_client_tracks starts from in a hand-over
    InitialMax,         \* what the uninitialised max_client_delay may hold
    MaxRequests,        \* bound: lines the user types
    MaxTimer,           \* bound: midi_timer
    MaxOwed,            \* bound: answers a client owes, datagrams in a socket
    MaxStopped,         \* bound: clients stopped at the same time
    MaxStops            \* bound: "stop"s typed at the clients

ASSUME ParametersAssumption ==
    /\ NULL \notin Client
    /\ IsFiniteSet(Client)
    /\ DOMAIN Song \subseteq Name
    /\ \A name \in DOMAIN Song : Song[name] \in Seq(Seq(Nat))
    /\ NUM_SYNC_TRIALS \in Nat \ {0}
    /\ MAX_SYNC_TIMEOUT \in Nat
    /\ INITIAL_DELAY \in Nat
    /\ MOST_TRACKS \in Nat \ {0}
    /\ InitialMax \subseteq Int
    /\ MaxRequests \in Nat
    /\ MaxTimer \in Nat
    /\ MaxOwed \in Nat \ {0}
    /\ MaxStopped \in Nat
    /\ MaxStops \in Nat

VARIABLES
    \* the state machine
    state, at, filename, requests,
    \* fd_to_client_info: its iteration order and the fields of ClientInfo
    order, active, avg_delay, session_delay_counter, sync_counter, tracks,
    \* syncing; elapsed is current_time - sync_client->last_msg_send_time and
    \* sync_it a position in order
    sync_client, sync_it, elapsed, max_client_delay,
    \* the song; visits are the clients and tracks the pass of
    \* handle_play_song() has yet to look at, midi_out the last message
    client_to_track, track_queues, song_is_playing, midi_timer, timer_started,
    visits, midi_out,
    \* the clients: what they owe, what waits in the server's socket for
    \* them, and which of them are stopped
    owed, inbox, stopped, stops

loop    == <<state, at, filename, requests>>
roster  == <<order, active, tracks>>
session == <<session_delay_counter, sync_counter, avg_delay>>
sync    == <<sync_client, sync_it, elapsed, max_client_delay>>
song    == <<client_to_track, track_queues, song_is_playing, visits, midi_out>>
timer   == <<midi_timer, timer_started>>
clients == <<owed, inbox, stopped, stops>>
vars    == <<loop, roster, session, sync, song, timer, clients>>

Track      == UNION {DOMAIN Song[s] : s \in DOMAIN Song}
Registered == {order[i] : i \in DOMAIN order}
ActiveOnes == {c \in Registered : active[c]}

(* unordered_map: after an insertion the whole order may be another one. *)
Orders(S) == {s \in [1 .. Cardinality(S) -> S] : \A c \in S : \E i \in DOMAIN s : s[i] = c}

TypeOK ==
    /\ state \in {"WAIT_FOR_INPUT", "PARSE_SONG", "PLAY_SONG"}
    /\ at \in {"stdin", "accept", "priority", "tracks"}
    /\ filename \in Name \cup {NULL}
    /\ requests \in 0 .. MaxRequests
    /\ order \in Seq(Client)
    /\ active \in [Client -> BOOLEAN]
    /\ avg_delay \in [Client -> Nat]
    /\ session_delay_counter \in [Client -> 0 .. NUM_SYNC_TRIALS - 1]
    /\ sync_counter \in [Client -> 0 .. NUM_SYNC_TRIALS - 1]
    /\ tracks \in [Client -> Seq(Track)]
    /\ sync_client \in Client \cup {NULL}
    /\ sync_it \in Nat
    /\ elapsed \in Nat
    /\ max_client_delay \in Int
    /\ client_to_track \in [Client -> Seq(Track)]
    /\ track_queues \in [Track -> Seq(Nat)]
    /\ song_is_playing \in BOOLEAN
    /\ midi_timer \in 0 .. MaxTimer
    /\ timer_started \in BOOLEAN
    /\ visits \in Seq(Client \X Track)
    /\ midi_out \in [to : Client \cup {NULL}, track : Track \cup {NULL}, events : Seq(Nat)]
    /\ owed \in [Client -> Seq({"HS_FIN", "SYNC_ACK"})]
    /\ inbox \in [Client -> Seq({"HS_FIN", "SYNC_ACK"})]
    /\ stopped \subseteq Client
    /\ stops \in 0 .. MaxStops

NoMessage == [to |-> NULL, track |-> NULL, events |-> <<>>]

Init ==
    /\ state = "WAIT_FOR_INPUT" /\ at = "stdin" /\ filename = NULL /\ requests = 0
    /\ order = <<>>
    /\ active = [c \in Client |-> FALSE]
    /\ avg_delay = [c \in Client |-> 0]
    /\ session_delay_counter = [c \in Client |-> 0]
    /\ sync_counter = [c \in Client |-> 0]
    /\ tracks = [c \in Client |-> <<>>]
    /\ sync_client = NULL /\ sync_it = 1 /\ elapsed = 0
    /\ max_client_delay \in InitialMax
    /\ client_to_track = [c \in Client |-> <<>>]
    /\ track_queues = [t \in Track |-> <<>>]
    /\ song_is_playing = FALSE /\ visits = <<>> /\ midi_out = NoMessage
    /\ midi_timer = 0 /\ timer_started = FALSE
    /\ owed = [c \in Client |-> <<>>]
    /\ inbox = [c \in Client |-> <<>>]
    /\ stopped = {} /\ stops = 0

----------------------------------------------------------------------------
(* Syncing *)

InWait(polls) == at \in polls /\ (at = "stdin" => state = "WAIT_FOR_INPUT")

(* A mistake the properties must notice: a song that plays is forgotten.   *)
EndWaitPlain ==
    /\ at' = "stdin"
    /\ state' = state

(* The end of handle_wait_for_input(): a song that plays decides the next  *)
(* state, whatever the state was set to.                                   *)
EndWait ==
    /\ at' = "stdin"
    /\ state' = IF song_is_playing THEN "PLAY_SONG" ELSE state

TimedOut == elapsed > MAX_SYNC_TIMEOUT * avg_delay[sync_client]

(* send_sync_packet(): a socket that is full drops the SYNC. *)
SendSync(c, owing) ==
    /\ elapsed' = 0
    /\ owed' = IF Len(owing[c]) < MaxOwed
               THEN [owing EXCEPT ![c] = Append(@, "SYNC_ACK")] ELSE owing

(* A mistake: one trial too many.                                          *)
OneTrialMore == session_delay_counter[sync_client] + 1 > NUM_SYNC_TRIALS

SessionEnds == session_delay_counter[sync_client] + 1 >= NUM_SYNC_TRIALS

EndSession ==
    /\ session_delay_counter' = [session_delay_counter EXCEPT ![sync_client] = 0]
    /\ sync_counter' = [sync_counter EXCEPT ![sync_client] = 0]

(* A mistake: the flag is left alone.                                      *)
ActiveAsBefore == active

Reactivated == [active EXCEPT ![sync_client] = TRUE]
Deactivated == [active EXCEPT ![sync_client] = FALSE]

MaxDelay == Max({0} \cup {avg_delay'[c] : c \in {d \in Registered : active'[d]}})

(* A mistake: the iterator starts anew for every session.                  *)
SyncNextFromFront ==
    /\ sync_it' = 1
    /\ sync_client' = order[1]
    /\ UNCHANGED max_client_delay

(* sync_next(): the largest delay is computed once per round. *)
SyncNext ==
    IF sync_it + 1 > Len(order)
    THEN /\ sync_it' = 1
         /\ sync_client' = order[1]
         /\ max_client_delay' = MaxDelay
    ELSE /\ sync_it' = sync_it + 1
         /\ sync_client' = order[sync_it + 1]
         /\ UNCHANGED max_client_delay

(* The elements of a sequence that are in a set, in their order.           *)
Among(seq, S) ==
    LET kept[n \in 0 .. Len(seq)] ==
            CASE n = 0 -> <<>>
              [] n > 0 /\ seq[n] \in S -> Append(kept[n - 1], seq[n])
              [] OTHER -> kept[n - 1]
    IN  kept[Len(seq)]

NotOf(c) == Track \ Range(client_to_track[c])

(* Mistakes: the returning client takes nothing back, takes from itself    *)
(* too, or only from the clients that are active.                          *)
TakeNothing(c) == tracks
TakeFromAll(c) == [d \in Client |-> Among(tracks[d], NotOf(c))]
TakeFromActive(c) ==
    [d \in Client |->
        IF d \in ActiveOnes \ {c} THEN Among(tracks[d], NotOf(c)) ELSE tracks[d]]

(* A client that comes back: what it was assigned when the songs were      *)
(* parsed is erased from every other client.                               *)
TakeBack(c) ==
    [d \in Client |->
        IF d \in Registered \ {c} THEN Among(tracks[d], NotOf(c)) ELSE tracks[d]]

(* handle_client_timing() *)
HandleClientTiming ==
    LET c == sync_client
    IN  /\ avg_delay' = [avg_delay EXCEPT ![c] = Smoothed(@, HalfTrip(elapsed))]
        /\ IF SessionEnds
           THEN /\ EndSession
                /\ tracks' = IF active[c] THEN tracks ELSE TakeBack(c)
                /\ active' = Reactivated
                /\ SyncNext
           ELSE /\ session_delay_counter' = [session_delay_counter EXCEPT ![c] = @ + 1]
                /\ sync_counter' = [sync_counter EXCEPT ![c] = @ + 1]
                /\ UNCHANGED <<tracks, active, sync_client, sync_it, max_client_delay>>
        /\ SendSync(sync_client', owed)

(* handle_priority_msg(): one datagram of the client being synced. *)
HandlePriorityMsg ==
    /\ InWait({"stdin", "accept", "priority"})
    /\ sync_client # NULL
    /\ inbox[sync_client] # <<>>
    /\ inbox' = [inbox EXCEPT ![sync_client] = Tail(@)]
    /\ \/ /\ Head(inbox[sync_client]) = "SYNC_ACK"
          /\ HandleClientTiming
       \/ /\ Head(inbox[sync_client]) = "HS_FIN"
          /\ UNCHANGED <<active, tracks, session, sync, owed>>
    /\ EndWait
    /\ UNCHANGED <<filename, requests, order, song, timer, stopped, stops>>

(* The positions of the active clients with the fewest tracks, if these    *)
(* are fewer than MOST_TRACKS.                                             *)
LeastLoaded(holding, able) ==
    {i \in DOMAIN order :
        /\ order[i] \in able
        /\ Len(holding[order[i]]) < MOST_TRACKS
        /\ \A c \in able : Len(holding[order[i]]) <= Len(holding[c])}

(* A mistake: who has taken the track before is forgotten.                 *)
MinClientAnew(holding, able, before) ==
    LET least == LeastLoaded(holding, able)
    IN  IF least = {} THEN NULL ELSE order[Min(least)]

(* min_client: the first of them in order, or who has taken the track      *)
(* before.                                                                 *)
MinClient(holding, able, before) ==
    LET least == LeastLoaded(holding, able)
    IN  IF least = {} THEN before ELSE order[Min(least)]

(* What a track after the other is handed over in: the lists, and who has  *)
(* taken the last one.                                                     *)
Given == [tracks : [Client -> Seq(Track)], min_client : Client \cup {NULL}]

Give(given, able, t) ==
    LET c == MinClient(given.tracks, able, given.min_client)
    IN  [tracks |-> IF c = NULL THEN given.tracks
                    ELSE [given.tracks EXCEPT ![c] = Append(@, t)],
         min_client |-> c]

(* The tracks of a client that fails are handed over one by one, and       *)
(* nobody takes them when nobody is active or all active ones have         *)
(* MOST_TRACKS; the failed client keeps its own list.  given[n] is what    *)
(* the clients hold after n of them.                                       *)
HandOver(c, able) ==
    LET give == [t \in Track |-> [before \in Given |-> Give(before, able, t)]]
        given[n \in 0 .. Len(tracks[c])] ==
            IF n = 0 THEN [tracks |-> tracks, min_client |-> NULL]
            ELSE give[tracks[c][n]][given[n - 1]]
    IN  given[Len(tracks[c])].tracks

(* handle_sync_timeout(), reached only when the client's socket is empty.  *)
HandleSyncTimeout ==
    /\ InWait({"stdin", "accept", "priority"})
    /\ sync_client # NULL
    /\ inbox[sync_client] = <<>>
    /\ TimedOut
    /\ IF SessionEnds
       THEN /\ EndSession
            /\ tracks' = IF active[sync_client]
                         THEN HandOver(sync_client, ActiveOnes \ {sync_client}) ELSE tracks
            /\ active' = Deactivated
            /\ UNCHANGED avg_delay
            /\ SyncNext
       ELSE /\ session_delay_counter' = [session_delay_counter EXCEPT ![sync_client] = @ + 1]
            /\ UNCHANGED <<sync_counter, tracks, active, avg_delay>>
            /\ UNCHANGED <<sync_client, sync_it, max_client_delay>>
    /\ SendSync(sync_client', owed)
    /\ EndWait
    /\ UNCHANGED <<filename, requests, order, song, timer, inbox, stopped, stops>>

(* A pass of handle_wait_for_input() in which the client being synced is   *)
(* silent and not overdue.                                                 *)
NothingToSync ==
    /\ InWait({"stdin", "accept", "priority"})
    /\ sync_client # NULL => inbox[sync_client] = <<>> /\ ~TimedOut
    /\ EndWait
    /\ UNCHANGED <<filename, requests, roster, session, sync, song, timer, clients>>

----------------------------------------------------------------------------
(* The user and new clients *)

(* handle_stdin() *)
HandleStdin ==
    /\ InWait({"stdin"})
    /\ requests < MaxRequests
    /\ requests' = requests + 1
    /\ filename' \in Name
    /\ state' = "PARSE_SONG"
    /\ at' = "accept"
    /\ UNCHANGED <<roster, session, sync, song, timer, clients>>

(* Mistakes: every client is taken for the first, or the second one.       *)
AnyClient    == TRUE
SecondClient == Len(order) = 1

FirstClient == order = <<>>

(* handle_new_client(): the iterator goes back to the front of the map,    *)
(* the client being synced stays, unless there was none.                   *)
HandleNewClient(c) ==
    /\ InWait({"stdin", "accept"})
    /\ c \notin Registered
    /\ order' \in Orders(Registered \cup {c})
    /\ active' = [active EXCEPT ![c] = TRUE]
    /\ avg_delay' = [avg_delay EXCEPT ![c] = INITIAL_DELAY]
    /\ session_delay_counter' = [session_delay_counter EXCEPT ![c] = 0]
    /\ sync_counter' = [sync_counter EXCEPT ![c] = 0]
    /\ sync_it' = 1
    /\ LET greeted == [owed EXCEPT ![c] = <<"HS_FIN">>]
       IN  IF FirstClient
           THEN sync_client' = c /\ SendSync(c, greeted)
           ELSE UNCHANGED <<sync_client, elapsed>> /\ owed' = greeted
    /\ at' = "priority"
    /\ UNCHANGED <<state, filename, requests, tracks, max_client_delay, song, timer>>
    /\ UNCHANGED <<inbox, stopped, stops>>

----------------------------------------------------------------------------
(* Songs *)

Playable == filename \in DOMAIN Song /\ order # <<>>

(* The tracks client c gets when those of a song are dealt out in order.   *)
Dealt(c) ==
    LET parts == DOMAIN Song[filename]
    IN  Among([t \in parts |-> t], {t \in parts : order[1 + ((t - 1) % Len(order))] = c})

(* handle_parse_song() and parse_midi_input(): the tracks of a song are    *)
(* added to what the clients hold of earlier songs, and the timer keeps    *)
(* the time it has.                                                        *)
HandleParseSong ==
    /\ state = "PARSE_SONG" /\ at = "stdin"
    /\ IF Playable
       THEN /\ track_queues' = [t \in Track |->
                   IF t \in DOMAIN Song[filename] THEN Song[filename][t] ELSE track_queues[t]]
            /\ tracks' = [c \in Client |->
                   IF c \in Registered THEN tracks[c] \o Dealt(c) ELSE tracks[c]]
            /\ client_to_track' = [c \in Client |->
                   IF c \in Registered THEN client_to_track[c] \o Dealt(c)
                   ELSE client_to_track[c]]
            /\ state' = "PLAY_SONG"
            /\ song_is_playing' = TRUE
            /\ timer_started' = TRUE
       ELSE /\ state' = "WAIT_FOR_INPUT"
            /\ UNCHANGED <<track_queues, tracks, client_to_track, song_is_playing, timer_started>>
    /\ UNCHANGED <<at, filename, requests, order, active, session, sync>>
    /\ UNCHANGED <<visits, midi_out, midi_timer, clients>>

(* handle_play_song() looks at the tracks of the active clients in order.  *)
Visits ==
    LET visitsOf(c) == [i \in DOMAIN tracks[c] |-> <<c, tracks[c][i]>>]
    IN  FlattenSeq([i \in DOMAIN order |->
                       IF active[order[i]] THEN visitsOf(order[i]) ELSE <<>>])

BeginPass ==
    /\ state = "PLAY_SONG" /\ at = "stdin"
    /\ song_is_playing' = FALSE
    /\ visits' = Visits
    /\ at' = "tracks"
    /\ UNCHANGED <<state, filename, requests, roster, session, sync>>
    /\ UNCHANGED <<client_to_track, track_queues, midi_out, timer, clients>>

(* The events a message to c takes: those whose time, put off by what c is *)
(* faster than the slowest client, has come.                               *)
Due(c, queue) ==
    LET putOff == max_client_delay - avg_delay[c]
        first  == SelectInSeq(queue, LAMBDA event : event + putOff > midi_timer)
    IN  IF first = 0 THEN queue ELSE SubSeq(queue, 1, first - 1)

(* One track of one client.  midi_timer may have moved since the last one. *)
PlayTrack ==
    /\ at = "tracks" /\ visits # <<>>
    /\ visits' = Tail(visits)
    /\ LET c     == Head(visits)[1]
           t     == Head(visits)[2]
           queue == track_queues[t]
           due   == Due(c, queue)
       IN  /\ song_is_playing' = (song_is_playing \/ queue # <<>>)
           /\ IF queue # <<>> /\ queue[1] <= midi_timer
              THEN /\ midi_out' = [to |-> c, track |-> t, events |-> due]
                   /\ track_queues' = [track_queues EXCEPT
                                         ![t] = SubSeq(@, Len(due) + 1, Len(@))]
              ELSE /\ midi_out' = NoMessage
                   /\ UNCHANGED track_queues
    /\ UNCHANGED <<loop, roster, session, sync, client_to_track, timer, clients>>

EndPass ==
    /\ at = "tracks" /\ visits = <<>>
    /\ midi_out' = NoMessage
    /\ state' = "WAIT_FOR_INPUT"
    /\ at' = "stdin"
    /\ UNCHANGED <<filename, requests, roster, session, sync>>
    /\ UNCHANGED <<client_to_track, track_queues, song_is_playing, visits, timer, clients>>

(* process_midi(), on the PortMidi thread. *)
ProcessMidi ==
    /\ timer_started /\ midi_timer < MaxTimer
    /\ midi_timer' = midi_timer + 1
    /\ UNCHANGED <<loop, roster, session, sync, song, timer_started, clients>>

----------------------------------------------------------------------------
(* The clients, and the clock they are measured with *)

Answer(c) ==
    /\ c \notin stopped
    /\ owed[c] # <<>> /\ Len(inbox[c]) < MaxOwed
    /\ inbox' = [inbox EXCEPT ![c] = Append(@, Head(owed[c]))]
    /\ owed' = [owed EXCEPT ![c] = Tail(@)]
    /\ UNCHANGED <<loop, roster, session, sync, song, timer, stopped, stops>>

(* "stop": the client forgets the SYNCs it has taken from its socket and   *)
(* finds the others there when it is started again.                        *)
Stop(c) ==
    /\ c \in Registered \ stopped
    /\ stops < MaxStops /\ Cardinality(stopped) < MaxStopped
    /\ stops' = stops + 1
    /\ stopped' = stopped \cup {c}
    /\ \E taken \in 0 .. Len(owed[c]) :
          owed' = [owed EXCEPT ![c] = SubSeq(@, taken + 1, Len(@))]
    /\ UNCHANGED <<loop, roster, session, sync, song, timer, inbox>>

Start(c) ==
    /\ c \in stopped
    /\ stopped' = stopped \ {c}
    /\ UNCHANGED <<loop, roster, session, sync, song, timer, owed, inbox, stops>>

Answering == sync_client \notin stopped /\ owed[sync_client] # <<>>

(* A client that is not stopped answers before its timeout; beyond the     *)
(* timeout the exact time is of no consequence.                            *)
ClockTick ==
    /\ sync_client # NULL
    /\ ~TimedOut
    /\ elapsed < MAX_SYNC_TIMEOUT * avg_delay[sync_client] \/ ~Answering
    /\ elapsed' = elapsed + 1
    /\ UNCHANGED <<loop, roster, session, sync_client, sync_it, max_client_delay>>
    /\ UNCHANGED <<song, timer, clients>>

----------------------------------------------------------------------------
ServerNext ==
    \/ HandlePriorityMsg \/ HandleSyncTimeout \/ NothingToSync
    \/ HandleParseSong \/ BeginPass \/ PlayTrack \/ EndPass

Next ==
    \/ ServerNext
    \/ HandleStdin
    \/ \E c \in Client : HandleNewClient(c) \/ Answer(c) \/ Stop(c) \/ Start(c)
    \/ ProcessMidi \/ ClockTick

Spec == Init /\ [][Next]_vars

(* The server loops for ever, time passes, and a client that is not        *)
(* stopped answers; nobody has to join, type or stop.                      *)
FairSpec ==
    /\ Spec
    /\ WF_vars(ServerNext) /\ WF_vars(ProcessMidi) /\ WF_vars(ClockTick)
    /\ \A c \in Client : WF_vars(Answer(c))

----------------------------------------------------------------------------
(* The counters of a sync session are those of the one client being        *)
(* synced: no other client has a session half done.  (sync_next() moves on *)
(* only after the counters are zeroed, handle_new_client() leaves the      *)
(* session of the others alone.)                                           *)
OneSessionAtATime ==
    \A c \in Client :
        session_delay_counter[c] # 0 => c = sync_client

(* The client being synced is a registered one as soon as there is one,    *)
(* and the iterator stands on a position of the map: no pass dereferences  *)
(* NULL or the end of the map.  (handle_wait_for_input(), sync_next())     *)
SyncPointers ==
    /\ order = <<>> <=> sync_client = NULL
    /\ order # <<>> => sync_client \in Registered /\ sync_it \in DOMAIN order

(* Every registered client has its turn again and again, whoever joins,    *)
(* stops or fails.  (sync_next(), handle_new_client())                     *)
EveryClientIsSynced ==
    \A c \in Client : []<>(c \in Registered => sync_client = c)

(* A client that stays stopped is given up, one that runs is counted on    *)
(* again.  (handle_sync_timeout(), handle_client_timing())                 *)
SilentIsGivenUp ==
    \A c \in Client :
        c \in Registered /\ c \in stopped ~> c \notin stopped \/ ~active[c]
ReturningIsCountedOn ==
    \A c \in Client :
        c \in Registered /\ c \notin stopped ~> c \in stopped \/ active[c]

(* A client holds what it was assigned through every failure, hand-over    *)
(* and return, until a second song is typed: its tracks have the numbers   *)
(* of the first one's, and a client that returns then takes from others    *)
(* what was dealt to both.                                                 *)
(* (handle_sync_timeout(), handle_client_timing(), parse_midi_input())     *)
OwnTracksKept ==
    requests <= 1 =>
        \A c \in Client : Range(client_to_track[c]) \subseteq Range(tracks[c])

Held(t) == \E c \in ActiveOnes : t \in Range(tracks[c])

\* the clients that get nothing in a hand-over, unless they have got a track
\* of it already
Full == {c \in Client : Len(tracks[c]) >= MOST_TRACKS}

(* No step leaves a track without an active holder that had one, as long   *)
(* as anyone is left that can take it: a failing client's tracks reach     *)
(* somebody, every one of them, and a returning client takes from the      *)
(* others only what it plays itself.  With a second song it may take what  *)
(* it has lost to another client's return.                                 *)
(* (handle_sync_timeout(), handle_client_timing())                         *)
CoverageKept ==
    [][requests' <= 1 /\ ActiveOnes' \ Full # {} =>
           \A t \in Track : Held(t) => Held(t)']_vars

(* srtt_server.cpp:205: "If the client comes back alive, remove its tracks *)
(* from other clients that took over when it failed": no track is held by  *)
(* two active clients.                                                     *)
NoTrackHeldTwice ==
    \A c, d \in ActiveOnes :
        c # d => Range(tracks[c]) \cap Range(tracks[d]) = {}

(* What the hand-overs and returns promise, with sets of tracks.           *)
Ownership == INSTANCE Roster WITH
    joined <- Registered,
    up     <- ActiveOnes,
    full   <- Full,
    owns   <- [c \in Client |-> Range(client_to_track[c])],
    holds  <- [c \in Client |-> Range(tracks[c])]

(* With one song, the server implements Roster.                            *)
ImplementsRoster == Ownership!Spec

AllSent == \A t \in Track : track_queues[t] = <<>>

Unsent(t) == track_queues[t] # <<>>

(* A song whose unsent tracks always have an active holder is sent to its  *)
(* last event, whoever stops or returns meanwhile.                         *)
(* (handle_play_song(), handle_sync_timeout(), handle_client_timing())     *)
SongEnds ==
    [](\A t \in Track : Unsent(t) => Held(t)) => (~AllSent ~> AllSent)

(* server.hpp:171: "used for track recovery when client crashes": a song   *)
(* goes on when the clients that crashed are running again.                *)
SongResumes ==
    <>[](stopped = {}) => (~AllSent ~> AllSent)
=============================================================================
