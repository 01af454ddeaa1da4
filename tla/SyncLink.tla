------------------------------ MODULE SyncLink ------------------------------
(***************************************************************************)
(* The sync sessions of the server with one client, in real milliseconds.  *)
(*                                                                         *)
(* The server sends a SYNC, the client answers it with a SYNC_ACK after    *)
(* its emulated delay, and the server turns the time since the last SYNC   *)
(* into ClientInfo.avg_delay.  When no answer comes within                 *)
(* MAX_SYNC_TIMEOUT * avg_delay the server sends another SYNC; it keeps no *)
(* record of the earlier ones, so an answer is always measured against the *)
(* SYNC sent last.                                                         *)
(*                                                                         *)
(* The client is the only one, so sync_next() chooses it again.  The       *)
(* network adds less than a millisecond.                                   *)
(***************************************************************************)
EXTENDS DelayEstimate

CONSTANTS
    NUM_SYNC_TRIALS,    \* trials that make up a sync session
    MAX_SYNC_TIMEOUT,   \* how many average delays the server waits
    NUM_DELAY_SAMPLES,  \* window of calc_delay() (server.cpp only)
    INITIAL_DELAY,      \* avg_delay of a client that just joined
    Estimators,         \* the sources the server may be built from: "srtt"
                        \* (srtt_server.cpp) and "sampled" (server.cpp)
    Delays,             \* the emulated delays the client's user may set
    Lag,                \* how late, in ms, the server may notice what is due
    MaxUnderWay,        \* bound: SYNCs and answers the sockets hold together
    MaxDelayChanges,    \* bound: delays typed at the client
    MaxStops            \* bound: "stop"s typed at the client

ASSUME ParametersAssumption ==
    /\ NUM_SYNC_TRIALS \in Nat \ {0}
    /\ MAX_SYNC_TIMEOUT \in Nat \ {0}
    /\ NUM_DELAY_SAMPLES \in Nat \ {0}
    /\ INITIAL_DELAY \in Nat
    /\ Estimators \subseteq {"srtt", "sampled"}
    /\ Delays \subseteq Nat
    /\ Lag \in Nat
    /\ MaxUnderWay \in Nat \ {0}
    /\ MaxDelayChanges \in Nat
    /\ MaxStops \in Nat

VARIABLES
    estimator,              \* the source this server is built from
    avg_delay,              \* the estimate
    elapsed,                \* current_time - last_msg_send_time
    session_delay,          \* sum of the samples of this session (sampled)
    session_delay_counter,  \* trials of this session, answered or not
    sync_counter,           \* answered trials of this session
    delay_times,            \* means of the last sessions (sampled)
    active,                 \* the server counts on this client
    inbox,                  \* SYNC_ACKs waiting at the server's socket
    late,                   \* ms the server has left something due undone
    unread,                 \* SYNCs waiting at the client's socket
    queued_syncs,           \* per SYNC taken: ms until it may be answered
    client_alive,           \* FALSE between "stop" and "start"
    delay,                  \* the delay the client emulates
    changes,                \* delays typed so far
    stops                   \* "stop"s typed so far

estimate == <<avg_delay, session_delay, sync_counter, delay_times>>
trials   == <<session_delay_counter, active>>
user     == <<client_alive, delay, changes, stops>>
vars     == <<estimator, estimate, elapsed, trials, inbox, late, unread, queued_syncs, user>>

TypeOK ==
    /\ estimator \in Estimators
    /\ avg_delay \in Nat
    /\ elapsed \in Nat
    /\ session_delay \in Nat
    /\ session_delay_counter \in 0 .. NUM_SYNC_TRIALS - 1
    /\ sync_counter \in 0 .. session_delay_counter
    /\ delay_times \in Seq(Nat)
    /\ active \in BOOLEAN
    /\ inbox \in Nat
    /\ late \in 0 .. Lag
    /\ unread \in Nat
    /\ queued_syncs \in Seq(Int)
    /\ client_alive \in BOOLEAN
    /\ delay \in Delays
    /\ changes \in 0 .. MaxDelayChanges
    /\ stops \in 0 .. MaxStops

(* handle_new_client() of the first client, up to its first SYNC. *)
Init ==
    /\ estimator \in Estimators
    /\ avg_delay = INITIAL_DELAY
    /\ session_delay = 0 /\ session_delay_counter = 0 /\ sync_counter = 0
    /\ delay_times = <<>>
    /\ active = TRUE
    /\ elapsed = 0 /\ late = 0
    /\ inbox = 0
    /\ unread = 1
    /\ queued_syncs = <<>>
    /\ client_alive = TRUE
    /\ delay \in Delays
    /\ changes = 0 /\ stops = 0

----------------------------------------------------------------------------
(* The server. *)

(* A mistake: the average is taken for the timeout.                        *)
OneDelayTimeout == elapsed > avg_delay

TimedOut == elapsed > MAX_SYNC_TIMEOUT * avg_delay

UnderWay == unread + Len(queued_syncs) + inbox

(* A mistake: last_msg_send_time is left as it was.                        *)
SendSyncKeepingTime ==
    /\ elapsed' = elapsed
    /\ late' = 0
    /\ unread' = IF unread + Len(queued_syncs) + inbox' < MaxUnderWay
                 THEN unread + 1 ELSE unread

(* send_sync_packet(): sockets that are full drop the SYNC. *)
SendSync ==
    /\ elapsed' = 0
    /\ late' = 0
    /\ unread' = IF unread + Len(queued_syncs) + inbox' < MaxUnderWay
                 THEN unread + 1 ELSE unread

(* A mistake: one trial too many.                                          *)
OneTrialMore == session_delay_counter + 1 > NUM_SYNC_TRIALS

SessionEnds == session_delay_counter + 1 >= NUM_SYNC_TRIALS

(* The part of handle_client_timing() that differs between the sources:    *)
(* srtt_server.cpp smooths every answer into the average ...               *)
Smooth ==
    /\ estimator = "srtt"
    /\ avg_delay' = Smoothed(avg_delay, HalfTrip(elapsed))
    /\ session_delay' = IF SessionEnds THEN 0 ELSE session_delay
    /\ UNCHANGED delay_times

(* ... and server.cpp keeps the mean of each session and averages those.   *)
Sample ==
    LET sum == session_delay + HalfTrip(elapsed)
    IN  /\ estimator = "sampled"
        /\ session_delay' = IF SessionEnds THEN 0 ELSE sum
        /\ delay_times' =
              IF SessionEnds
              THEN Window(delay_times, sum \div (sync_counter + 1), NUM_DELAY_SAMPLES)
              ELSE delay_times
        /\ avg_delay' = IF SessionEnds THEN Sampled(avg_delay, delay_times') ELSE avg_delay

(* handle_priority_msg() of a SYNC_ACK. *)
HandleClientTiming ==
    /\ inbox > 0
    /\ inbox' = inbox - 1
    /\ Smooth \/ Sample
    /\ session_delay_counter' = IF SessionEnds THEN 0 ELSE session_delay_counter + 1
    /\ sync_counter' = IF SessionEnds THEN 0 ELSE sync_counter + 1
    /\ active' = (active \/ SessionEnds)
    /\ SendSync
    /\ UNCHANGED <<estimator, queued_syncs, user>>

(* handle_sync_timeout(), reached only when the socket has no answer. *)
HandleSyncTimeout ==
    /\ inbox = 0
    /\ TimedOut
    /\ session_delay_counter' = IF SessionEnds THEN 0 ELSE session_delay_counter + 1
    /\ session_delay' = IF SessionEnds THEN 0 ELSE session_delay
    /\ sync_counter' = IF SessionEnds THEN 0 ELSE sync_counter
    /\ active' = (active /\ ~SessionEnds)
    /\ UNCHANGED <<estimator, avg_delay, delay_times, inbox, queued_syncs, user>>
    /\ SendSync

ServerDue == inbox > 0 \/ TimedOut

----------------------------------------------------------------------------
(* The client. *)

(* The tail of twiddle(): at most one answer, and only when it is overdue. *)
AnswerDue(queue) ==
    IF queue # <<>> /\ Head(queue) < 0
    THEN queued_syncs' = Tail(queue) /\ inbox' = inbox + 1
    ELSE queued_syncs' = queue /\ UNCHANGED inbox

Receives == client_alive /\ unread > 0

ClientDue == Receives \/ (queued_syncs # <<>> /\ Head(queued_syncs) < 0)

(* twiddle() without user input: one datagram in, one answer out. *)
Twiddle ==
    /\ ClientDue
    /\ unread' = IF Receives THEN unread - 1 ELSE unread
    /\ AnswerDue(IF Receives THEN Append(queued_syncs, delay) ELSE queued_syncs)
    /\ UNCHANGED <<estimator, estimate, elapsed, trials, late, user>>

(* twiddle() with a line on stdin: handle_stdin(), and no datagram. *)
Command(queue) ==
    /\ AnswerDue(queue)
    /\ UNCHANGED <<estimator, estimate, elapsed, trials, late, unread>>

SetDelay ==
    /\ changes < MaxDelayChanges
    /\ changes' = changes + 1
    /\ delay' \in Delays
    /\ Command(queued_syncs)
    /\ UNCHANGED <<client_alive, stops>>

(* "stop" also forgets the SYNCs that still wait for their answer. *)
Stop ==
    /\ stops < MaxStops
    /\ stops' = stops + 1
    /\ client_alive' = FALSE
    /\ Command(<<>>)
    /\ UNCHANGED <<delay, changes>>

Start ==
    /\ ~client_alive
    /\ client_alive' = TRUE
    /\ Command(queued_syncs)
    /\ UNCHANGED <<delay, changes, stops>>

----------------------------------------------------------------------------
(* A millisecond.  Both programs poll without blocking: the client acts at *)
(* once, the server leaves what is due undone for at most Lag.             *)
Tick ==
    /\ ~ClientDue
    /\ ServerDue => late < Lag
    /\ late' = IF ServerDue THEN late + 1 ELSE 0
    /\ elapsed' = elapsed + 1
    /\ queued_syncs' = [i \in DOMAIN queued_syncs |->
                           IF queued_syncs[i] < 0 THEN -1 ELSE queued_syncs[i] - 1]
    /\ UNCHANGED <<estimator, estimate, trials, inbox, unread, user>>

ServerNext == HandleClientTiming \/ HandleSyncTimeout

Next ==
    \/ ServerNext
    \/ Twiddle
    \/ SetDelay \/ Start \/ Stop
    \/ Tick

Spec == Init /\ [][Next]_vars

(* The clock does not stop and both programs loop for ever.  Nobody has to *)
(* type a command.                                                         *)
FairSpec == Spec /\ WF_vars(ServerNext) /\ WF_vars(Twiddle) /\ WF_vars(Tick)

----------------------------------------------------------------------------
(* The round trip the client's delay makes when the answer is taken at     *)
(* once: it answers when its queued time lies strictly in the past.        *)
RoundTrip(d) == d + 1

(* No answer is ever measured as longer than the timeout of the estimate   *)
(* in force, whatever the client's delay is: the timeout restarts the      *)
(* measurement.  A sample is therefore at most MAX_SYNC_TIMEOUT / 2 times  *)
(* the estimate.  (handle_wait_for_input(), handle_sync_timeout())         *)
SampleBounded == elapsed <= MAX_SYNC_TIMEOUT * avg_delay + 1 + Lag

(* An estimate that has fallen to 1 ms never rises again, however slow the *)
(* client becomes: the samples the timeout lets through are all rounded    *)
(* away by the average.  (handle_client_timing())                          *)
LowEstimateSticks == [][avg_delay <= 1 => avg_delay' <= 1]_vars

(* While the delays the user sets stay within the timeout of the estimates *)
(* they lead to, a client that is never stopped is never given up.         *)
(* (handle_wait_for_input(), handle_sync_timeout())                        *)
AnsweringClientStaysActive == active

(* ... at most one SYNC is under way between the two of them, so each      *)
(* answer is measured against the SYNC it answers ...                      *)
OneSyncUnderWay == UnderWay = 1

(* ... and once the delay is left alone the average of srtt_server.cpp     *)
(* settles within the rounding of the smoothing (7/8 ms lost per step, up  *)
(* to 7 ms below) of half the round trip.  (handle_client_timing())        *)
EstimateSettles ==
    \A d \in Delays :
        estimator = "srtt" /\ <>[](delay = d) =>
            <>[](/\ avg_delay >= HalfTrip(RoundTrip(d)) - 7
                 /\ avg_delay <= HalfTrip(RoundTrip(d) + Lag))

(* The average of server.cpp settles between half the round trip and twice *)
(* that: calc_delay() adds the samples to the average it is about to       *)
(* replace.  (server.cpp:55)                                               *)
SampledSettles ==
    \A d \in Delays :
        estimator = "sampled" /\ <>[](delay = d) =>
            <>[](/\ avg_delay >= HalfTrip(RoundTrip(d))
                 /\ avg_delay <= 2 * HalfTrip(RoundTrip(d) + Lag))
=============================================================================
