# Future Wave in TLA+

Future Wave spreads the tracks of a MIDI song over a network of instruments.  A
server reads a song, deals its tracks to the client programs that have connected
to it over UDP, measures how far each of them is away, and sends every event at
the time that makes all of them sound together.  When a client falls silent its
tracks go to others, and come back when it does.

This directory specifies that program, checks it with TLC on small instances and
proves its safety properties with TLAPS for every instance.

    tlc -workers 2 -config MCServerTracks.cfg MCServer.tla     # one run
    tlapm Server_proofs.tla                                    # the proofs of a module

## Inventory

| Component | Code | State it keeps | Operations | Module |
| --- | --- | --- | --- | --- |
| Sync sessions, delay estimate | `srtt_server.cpp` (`handle_client_timing`, `handle_sync_timeout`, `send_sync_packet`), client's `twiddle` | `avg_delay`, `last_msg_send_time`, counters; the client's `queued_syncs`, `delay`, `client_alive` | answer taken, timeout, SYNC sent; SYNC taken, answered; delay, stop, start typed | `SyncLink`, `DelayEstimate` |
| The estimate of `server.cpp` | `server.cpp` (`calc_delay`) | also `session_delay`, `delay_times` | as above | the same, `estimator = "sampled"` |
| Server state machine | `srtt_server.cpp`, `server.hpp` | `state`, `fd_to_client_info`, `sync_client`, `sync_it`, `max_client_delay`, `client_to_track`, `track_queues`, `song_is_playing`, `midi_timer` | one handler per state, and what `handle_wait_for_input` dispatches to | `Server` |
| What is promised about tracks | the hand-over and the return in the two handlers above | who owns, who holds | join, deal, fail, return | `Roster` |
| Playing a song | `handle_play_song`, `send_midi_msg`; client's `queue_midi_data`, `play_midi_data` | `track_queues`, `avg_delay`, `max_client_delay`; `queued_events`, `delay`, `client_alive` | look at a track and send; datagram taken, events put off and played; delay, stop, start typed | `Playback` |
| Client program | `client.cpp` | `state`, socket, `timeout_count`, `seq_num`, queues | handshake and its retries, `twiddle`, `handle_stdin` | `Conversation`; its timing in `SyncLink` and `Playback` |
| Datagrams | `network.cpp`, `network.hpp` | none; the sockets' queues | send, receive | `Conversation` |
| Paged buffer manager | `app/lib_example/buffer.c` | two layers of page slots with flags and timestamps; the disk | read, new, write, flush, pin, flags, cache pages, remove, begin and end | `Buffer`, `PageStore` |
| Local MIDI player | `app/midi_file_app`, `app/jeff_midi_file_app` | `eventQueue`, shared with the PortMidi thread | fill, drain | not modelled |
| Other programs | `midi_file_stats`, `linux_midi_test`, `rtmidi_tests`, mains | none between events | straight-line | not modelled |
| Third-party code | midifile, portmidi, rtmidi, wildmidi, googletest | | | not modelled |

How they interact: client and server exchange `HS`, `HS_GOOD`, `HS_FIN`, `SYNC`,
`SYNC_ACK` and `MIDI` datagrams.  `HS` goes to the server's main socket; for each
one it opens a socket (an fd) and speaks to that client through it from then on.
Inside the server two handlers, `handle_client_timing` and `handle_sync_timeout`,
write what `handle_play_song` reads: which clients are active, which tracks they
hold, how far they are away.  The only other thread is PortMidi's, which advances
`midi_timer`.  Users type song names at the server, and delays, `stop` and `start`
at the clients.  The buffer manager is a program of its own: a library with its tests,
used by nothing else here, in front of a file system (tinyFS) that is absent.

What is hard here: the timeout is computed from the estimate it is meant to
correct; answers that are late are taken for answers to a later SYNC; joins,
failures and returns come in the middle of sessions and of songs; every retry of a
handshake leaves a client behind that only the server knows of; UDP loses,
duplicates and reorders; both threads use `midi_timer`; the server compensates with
estimates that go on changing for delays the clients apply twice to a round trip and
once to a note; the timer of a first song goes on running for the next one.  In the
buffer a page inherits the flags of the one before it, slots are emptied while dirty, a
page may be made a second time, the clock the oldest page is chosen by starts again every
second, any write may be refused, the program killed and its disk found unusable.
`PROJECT.json` lists these hazards with their lines and the properties that are about them.

What makes the parts correct: a client that answers is never given up and one that
is silent is; every client gets its turn; each track has somebody active who plays
it and only one such; a song that can be played is played to its end; the same moment sounds
at all clients as nearly together as the emulated delays allow; the client understands
whatever reaches it; what is written to a page can be read until it is removed, and
after a restart if it was saved.

## Modules and code

**`DelayEstimate`** is the arithmetic of the two estimators.  `Smoothed` is exact:
with alpha = 0.125 the products and the sum are exact in a double, and the cast to
`long` drops the fraction.

**`SyncLink`** is one client and the server in real milliseconds.  `elapsed` is
`current_time - last_msg_send_time`; `Tick` is a millisecond.  `HandleClientTiming`
and `HandleSyncTimeout` are the two handlers, `Twiddle` a pass of the client's loop,
`SetDelay`, `Stop` and `Start` the user's lines.  With a single client `sync_next()`
always finds it again.  `estimator` says which of the two files is the server;
nothing ever changes it.  A SYNC in `queued_syncs` is represented by the milliseconds
until it may be answered (`< 0`: overdue, as in `first < current_time`).

**`Server`** is the state machine with any number of clients.  One pass of
`handle_wait_for_input()` is split where something may happen in between: after the
user's line and after the new client.  `at` names the first poll still to come,
`EndWait` is the end of the pass, where a song that plays overrides the next state.
`order` is the iteration order of the `unordered_map`, which an insertion may change
altogether, `sync_it` a position in it.  A pass of `handle_play_song()` is split into
one step per track it looks at, because `midi_timer` moves meanwhile; what a single
visit reads of it more than once makes no difference the model could tell.  Delays are in the unit of `ClockTick`, which stops at
the timeout: beyond it only the fact counts.  The clients are what they owe.

**`Roster`** says what hand-over and return are for, with sets of tracks and without
the sessions that detect them.  `Ownership` in `Server` is the refinement mapping:
`holds` is the set of a client's `tracks`, `owns` that of `client_to_track`, `full` the
clients whose list has `MOST_TRACKS` entries, 1000 in the code: the search for the least
loaded client (`MinClient`) starts from that number, so it never finds them, and a track
goes to whoever took the one before it, or to nobody.  Copies count as entries, so
failures and returns alone fill a list in the end.  Which lists are full `Roster` leaves
open.  A client that failed, returned and took over again may have a track in its list
more than once; `handle_sync_timeout()` deals out every copy by itself, so in `Roster` a
track that fails may go to several takers.

**`Conversation`** is one client program and its datagrams.  `socket` counts the
tries; the server's fds remember the address they belong to, so a *phantom* is an fd
whose `addr` is not `socket`.  What is sent to an abandoned socket is dropped at
once, for nobody can see it any more.  The network has a budget of `MaxFaults`: each
datagram lost, duplicated or delivered before an earlier one (`Overtakes`; of all that is
under way to the client, of all `HS`, or of the answers to an fd) costs one.  `Faults` is
what has been spent, and properties say what they need of it: `NeverFallsThrough` none,
`TwiddleUnderstands` and `OnePeer` only that nothing has been duplicated.

**`Playback`** is what becomes of the events, in real milliseconds.  `midi_timer` is
the clock of all programs, `track_queues` holds positions in the sequence `Track[c]` of
timestamps, `PlayTrack` is the visit of one track by `handle_play_song()`.  `Due` is the
loop with its compensation; `FrontDue`, without it, is the condition to send at all, so
messages without events go out on every pass while an event is put off, as in the code.
What a pass sends is at most `2 * Lag` ms of a track: the time between two looks at it,
and what the estimates wander by in between (`Wandering`, half the lag either way).
That is so from the moment the song has caught up with the timer.  In a program's first
song it has at once; but `Pt_Start()` of a later one does not start the timer again, and
nothing else sets `midi_timer` back, so that song begins when the timer has reached some
`began`.  Whatever is earlier in its tracks goes out in the first pass, but for what the
compensation holds back, and in one message per track, whose 8-bit count wraps and whose 2048 bytes overflow if
that is much; the properties say what holds of those events (`Moment`: they are due when the
song begins) and of the others (`Fresh`).  The overflow itself is not modelled.
The clients put off what they take by the delay they emulate (`PutOff`, which goes by
the 8-bit count of the header) and play what is in front (`PlayMidiData`).  The estimates
are those `SyncLink` is checked to settle at, and go on being smoothed; that fact is
the composition of the two.  Each client plays one track and is counted on all the
time: hand-overs are in `Server`.  Hence what a hand-over does to times is in neither: a
track whose holders were all inactive for a while has a backlog when one returns, and
that goes out at once like the past of a later song.
A message under way may be lost, duplicated or overtaken (`Lose`, `Duplicate`,
`Overtake`), for `twiddle()` takes MIDI messages without a look at their sequence number
and nothing is sent again.  Each counts against `MaxUpsets` as a line typed does, and the
properties say which of them they suppose absent: `HeardInOrder` duplicates and
overtaking, `OnTime` losses.

**`PageStore`** says what users of the buffer manager may count on, with two pieces of
state: `readable`, the contents a reader of a page may find from now on, and `durable`,
what a crash leaves.  `Settle` is everything the buffer may do on its own.

**`Buffer`** is `buffer.c`: `FindBufferedPage`, `LruEvict`, the flags that no one
clears (`Placed`), `numOccupied` that never falls, slots that are emptied but keep their
flags (`Emptied`), flushes that the disk may refuse (`Writable`).  A page is an address
(fd, page id); an operation that returns an error and changes nothing is a step that
is not taken.  A stamp is `tv_nsec`: any number, whatever the time, so an operation
may choose any slot that is the oldest of those before some `now` (`Evictable`) and give it
any `stamp`.
`Store` is the refinement mapping: `Readable` is the buffered content if it is dirty, the
content on disk if the page is not buffered, and either if it is buffered and clean,
because it may be dropped at any time.
`newPage()` does not ask whether the page exists.  If it is on disk it is written over,
which `PageStore` takes for a new page; if it is buffered it gets a second slot, of which
`findBufferedPage()` sees one or the other.  Nothing can be promised of such a page until
the program starts again: `renewed` has those pages, and `OneCopy` and `ImplementsPageStore`
except them, and no others.  `Commence` either mounts the disk as it is or, because `commence()`
calls `tfs_mkfs()` whenever the mount fails, has an empty one.  The disk (tinyFS) is
modelled from its use: it has the pages, refuses writes when it likes (`Refuse`) and deletes whole files.

`MC*` modules hold the values of constants.  Each module also contains, next to the
definitions they replace, small *mistakes* (marked as such) that a property has to
notice; `PROJECT.json` pairs them with the properties under "mutants".

## Runs

Bounds are constants whose names begin with `Max`; they limit what users and
networks do (delays typed, stops, requests, faults) or what queues hold.

| Run | Question | Instance |
| --- | --- | --- |
| `MCSyncLinkSteady` | Is a client that answers in time kept, is its estimate right, with either estimator? | delays 8 and 30 ms, the code's own 3, 10 and 1000 ms, 1 change of delay |
| `MCSyncLinkFar` | What if it cannot be in time? | delays 0 and 5 from an estimate of 12, stop and start, at most 4 SYNCs under way |
| `MCServerTracks` | Does everybody get a turn and the right verdict; do sessions, pointers and tracks survive joins, failures and returns? | 2 clients, 2 stops, sessions of 2 trials, lists full at 2 tracks, fairness |
| `MCServerPlay` | Is a song played to its end, also when it is dealt out on top of another one? | 2 clients, 2 different songs, 1 stop, fairness |
| `MCServerRoster` | Is `Roster` implemented? | 3 clients (symmetric), 3 tracks, sessions of one trial, lists full at 2 tracks |
| `MCRoster` | Does `Roster` promise enough? | 3 clients, 2 tracks |
| `MCConversation` | Do retries, loss, duplication and reordering confuse anyone? | 3 tries, 1 fault of any kind |
| `MCPlayback` | When is what heard? | 2 clients, delays 0 and 20 ms, notes at 0, 1 and 12 ms against one at 12, a song that begins at 0 or 12 ms, a count of 3 values, 1 answer smoothed, 1 line typed or 1 message lost, duplicated or overtaken |
| `MCBuffer` | Does the buffer keep what is written? | 2 files of a page, 2 slots and 2 cache slots, 1 content, stamps 0 and 1, a disk that refuses all or nothing; at any time (`OneAtATime`) only one of these: the cache layer is in use, a page was made anew while buffered, the disk refuses, a file is gone |

Three clients are the fewest for which a track can be handed on twice, two the fewest
for a hand-over.  Sessions of one trial (`MCServerRoster`) keep every decision a
session ends in.  Lists that are full at 2 tracks instead of the code's 1000 are reached by
the hand-overs of three tracks; the other runs of `Server` have the 1000.  Three tries give
phantoms at two ages; the code makes five (`client.hpp:14`), and the proofs are for any
number.  In the runs of `Server` every estimate is 0 and stays 0, and `MAX_SYNC_TIMEOUT = 1`:
a client is overdue after one tick, which is all its handlers ask for, and nothing is ever
compensated.  The numbers are the matter of the other two: `SyncLink` has the real ones,
and so has `Playback`: the bound in `Together` and `OnTime` (`Slack`) is 7 ms for the
rounding of the estimates and the server's lag twice.  Within it two clients hear the same moment *half
the difference of their delays* apart: an emulated delay puts a note off in full, but
the server compensates for half of a round trip to which the delay was added once.  Its
`Steady` properties speak of runs in which nobody types; `HeardInOrder` of all.  A song
that begins at 12 ms has two notes behind it and one at the very moment, so that all three
go into a message whose count wraps to 0 (`EVENT_COUNTS = 3` stands for the 256 values
of `num_midi_events`).  Two slots are the fewest from which one is chosen; two stamps tell
an older page from a newer one, a present before a stamp and one after it.  What the
theorems below say of `Playback` and `Buffer` needs none of these bounds.

`CHECK_DEADLOCK FALSE` stands in the runs of `Server` (bounded users and a bounded
`midi_timer` may leave nothing to do), `Roster` (all fall silent, one song),
`Conversation` (a program that has ended), `Playback` (the time is bounded) and `Buffer`
(the runs of a library end with its users).

The following runs end in a violation, each of one sentence found in the code:

| Run | Sentence | What the trace shows |
| --- | --- | --- |
| `MCServerTwice` | `srtt_server.cpp:205` | a returning client keeps what it had taken over, so two clients play the same track |
| `MCServerBlackout` | `server.hpp:171` | one pass without active clients ends a song for good |
| `MCBufferFull` | `buffer.h:74` | a cache page asked for when the cache layer is full ends the program: `NO_EVICT_CANDIDATES` becomes an index |

Other divergences met while modelling, without a run of their own:

* An estimate that settled at 0 or 1 ms ignores a client that becomes slow: the SYNC
  sent again after ten times that estimate restarts the measurement.  This is
  `LowEstimateSticks`, checked and proved.
* `calc_delay()` of `server.cpp` adds its samples to the previous average and divides
  by the number of samples alone: `SampledSettles` can only promise twice the truth.
* `server.hpp:21-23` calls `MAX_SYNC_TIMEOUT` a number of tries.  A client is given up
  after `NUM_SYNC_TRIALS`; the other is a multiple of its estimate.
* `handle_play_song()` decides to send a message at line 432 without the compensation
  the loop at 439 applies, so messages without events are sent; and
  `max_client_delay`, older than `avg_delay`, can make an event early.
* `parse_midi_input()` deals tracks to clients that are inactive, too.
* `Pt_Start()` at line 385 of `srtt_server.cpp` starts the timer for the first song only;
  nothing resets `midi_timer` (line 925) for the next, so what of its tracks is already
  past is sent at once, and heard at once.
* `handle_sync_timeout()` gives tracks to nobody when every active client has 1000 entries
  (line 550).
* MIDI messages carry sequence numbers that no client looks at: duplicates are played.
* A song name typed while a song plays is forgotten: `handle_wait_for_input()` sets
  `PARSE_SONG` at line 601 and `PLAY_SONG` over it at line 652.
* With a second, different song a returning client takes back track numbers of the
  first one that meanwhile are another's.  `OwnTracksKept` and `CoverageKept` are stated
  up to the second song, and `NoTrackHeldTwice` and `Roster` hold for one song only: with
  two songs and two returns a track can lose its last active holder.  What holds with two
  is `SongEnds`, which `MCServerPlay` checks.
* `clearFlagsIndex()` of `buffer.c` clears nothing, so a page inherits the flags of the
  slot it gets; `buffer_test.c:44-45` expects a new page without them.
* `tv_nsec` starts again every second, so `lruEvict()` may find no slot older than now and
  `readPage()` return `NO_EVICT_CANDIDATES` although nothing is pinned.
* A slot that was emptied while dirty cannot be flushed, and is lost when it is chosen for
  a page; an emptied slot is chosen as such only until `numOccupied` has reached its limit.
* `removeCachePage()` deletes the whole file of the page; other pages of it stay readable
  until they are evicted.
* `newPage()` of a page that is buffered puts it in a second slot, and on disk writes over
  what was saved of it.  `commence()` makes a new disk whenever `tfs_mount()` fails.
* `newPage()` leaves the characters '0' in the buffer and writes, from an array shorter
  than a block, something else to disk; `allocateCachePage()` copies a page in the wrong
  direction.
* A second `HS_GOOD`, which a network that duplicates delivers, fails the assertion at
  `client.cpp:451`: hence the condition in `TwiddleUnderstands`.
* The first client's first SYNC leaves before its `HS_FIN` has come, so
  `expected_seq_num` is wrong at once.  Nothing reads it.

## Fairness

`SyncLink!FairSpec`: both programs loop without blocking, so what either has to do is
done (weak fairness of `ServerNext` and `Twiddle`), and the clock advances.
`Server!FairSpec`: the loop runs (`ServerNext`), the PortMidi thread runs, time
passes, and a client that is not stopped answers.  No user and no new client is ever
obliged to do anything, and no fairness is assumed of a client that is stopped.
`SongEnds` has a condition in place of an assumption on the users: whenever a track
has events left somebody active holds it; `SongResumes` is the sentence without it,
and is violated.

## Proofs

The theorems hold for every value of the constants that satisfies the module's
assumption on its constants (`ParametersAssumption`, `BufferAssumption`,
`PlaybackAssumption`), and no theorem assumes anything else but what this section names.
Every safety property a run checks is proved, with every type invariant; what a theorem
needs beyond the run's own condition is stated in it.

* `ListLemmas` has what the other modules share: least and greatest numbers, prefixes and
  concatenations of lists, and loops.  The code's loops over lists are recursive functions
  in the models.  `LoopExists` shows that such a function is there and `EveryRound` that
  what each round keeps holds after the last one, both from the well-foundedness of `<`.
* `SyncLink_proofs`, with either estimate.  The types need that the window of samples is
  never empty and that the loop of `calc_delay()` ends with a number (`AddedBounds`,
  `WindowBounds`).  The invariant adds that `elapsed` is within the
  timeout of the estimate *or* an answer or timeout is due and has been for `late`
  milliseconds: without `late` the bound is not inductive, because the clock runs
  while the server is busy.  From it `SampleBounded`, and, with the smoothing, the factor 10
  of `server.hpp` and a server at most 6 ms late, `LowEstimateSticks`.
  `AnsweringClientStaysActive` and `OneSyncUnderWay` rest on a second invariant (`OneSync`):
  the only SYNC is unread, waits for its answer, or is answered, `elapsed` says how long ago
  it was sent, and neither the average nor any sample kept (`Measured`) is below the `least`
  half round trip.  Their condition `WithinReach` says that every round trip is within
  `MAX_SYNC_TIMEOUT` times that least value and that nobody types `stop`; the run's delays
  of 8 and 30 ms satisfy it, those of `MCSyncLinkFar` do not, and there the properties fail.
* `Server_proofs`.  The sync part of the invariant says that `order` enumerates the clients
  without repetition, that `sync_client` is among them and `sync_it` a position, and that
  only `sync_client` has counters that are not zero.  That `sync_next()` follows the
  zeroing of the counters is what makes it inductive.  From it `SyncPointers` and
  `OneSessionAtATime`.  The tracks part is the refinement: each step is a step of `Roster`
  or changes none of its variables (`StepIsRosters`).  For the hand-over that is
  `HandOverHands` and `HandOverToNobody`: if one of the active clients is not full, the loop
  gives every copy of a track to somebody active and takes nothing from anybody (whoever has
  taken one takes the next rather than nobody, `Going`); if all are, nothing changes.  Until
  a second song is typed (`requests <= 1`) the invariant of `Roster` is therefore true of the server's lists; `OwnTracksKept`,
  `CoverageKept` and `ImplementsRoster` follow, and `NoTrackHeldTwice` for two clients,
  which are as many as it is true for.  The types (`TypeCorrect`) go through the same loops
  and those of dealing, visiting and sending.
* `Roster_proofs`.  `OwnersHold` is inductive with the types; `OwnerAlone` needs that
  clients that have not joined hold nothing, and that what is held was dealt (`HeldIsOwned`).
  `CoverageKept` follows step by step (`StepCovers`).
* `Conversation_proofs`.  The invariant follows each socket through its life: no
  socket is in two `HS` datagrams or fds (`FreshSockets`), all that is under way to the
  client comes from the fd of its current socket and contains one `HS_GOOD` at most
  (`OneGreeting`), and a connected client has had it (`Connected`).  It holds as long
  as nothing has been duplicated (`AsLongAsNoneIsDuplicated`); from it
  `TwiddleUnderstands` and `OnePeer`, whatever is lost, delayed and reordered.
* `AnyNetwork_proofs` is about `Conversation` when datagrams are duplicated, too.  Of its
  invariant `Always` the part `Counted` says that every fd comes from a try or a duplicate,
  `Tries` how many sockets a client without an answer has opened, and `Addressed` that what
  is under way to the client comes from fds of its current socket and only those are
  answered, the server with odd numbers and the client with even ones.  From it the types,
  `NumbersTellSides` and `PhantomsHearNothing`.
  `NeverFallsThrough` needs one thing more: without any fault the `HS_GOOD` is the first
  datagram in the queue of a client that waits for it (`GoodFirst`).
* `Buffer_proofs`.  The invariant is `TypeOK` with `OneCopy`: without the latter a page
  found after a change of a slot need not be the one found before.  Three groups of
  lemmas carry it: what each change of a layer does to its slots (`FlagSet`, `PagePlaced`,
  `SlotEmptied`, ...), where pages are found afterwards (`SameAddresses`,
  `FoundWhenPlaced`, `FoundWhenEmptied`), and what `lruEvict()` may choose (`LruChoice`).
  `OneCopy` excepts the pages in `renewed`, so `findBufferedPage()` of such a page may
  change its mind, and the lemmas about what readers find except them, too.  `PinnedStays`
  follows step by step.  For `Implementation` a page is `Settled` when its
  readers notice nothing and it is on disk if the disk changed; every step settles all
  pages but the one it is about (`PlacingSettles`, `FlushSettles`, ...) and is a step of
  `PageStore` for that one.  It needs that a program that does not run has no pages and
  that the disk has nothing of deleted files (`Gone`: what a flush at the end cannot save
  was not there).
* `Playback_proofs`, in four parts.
  *Order.*  An event goes from the track's queue into a message, from the
  socket into `queued_events` and from there to what is heard.  The invariant
  (`Sorted`) says that each stage is in order and that whatever is further on is
  earlier in the song; `HeardInOrder` alone is not inductive.  What leaves a stage is
  always its front (`DueIsPrefix`, `PlayedIsPrefix`, `TakenInOrder`), and one lemma for
  each way of leaving it (`SendingSorted`, `ReceivingSorted`, `PlayingSorted`,
  `ForgettingSorted`) keeps the stages apart; a message that is lost only leaves a gap.
  Of a network that neither duplicates nor reorders no choice of delays, estimates and
  times puts a track out of order.
  *Estimates.*  While nobody types, each stays between `Lowest` and `Highest` of what it was
  when the song began, and these are never further apart than half the lag (`Wandering`).
  The initial estimates `a` and delays `d` are constants of the argument: a behaviour
  `StartsWith(a, d)`, and the invariant `SongInv(a, d)` speaks of them in all its states.
  *Times.*  `Timed` says for every stage when its events may be there: not before `Earliest`,
  not after `Latest`, which are as far apart for all clients as the bounds of the estimates
  allow.  A message is timed by the `Moment` of its events, so what the network does with it
  changes nothing.  From it `SpacingKept` and `Together` for what is `Fresh`, and
  `MessagesFit`, without conditions on tracks, delays, lag or the time the song begins.
  *Nothing lost.*  What is in hand at the server and the client is the whole track but what
  has been lost, in uninterrupted stretches (`Whole`); a client's loop over a message reaches
  its end if the 8-bit count does not wrap.  It may wrap for the events that are `Crowded`:
  as many as the count has values are due within `2 * Lag` ms around them, those that
  were past when the song began counted as due then.  All others have been heard by their
  time: `OnTime`, for a network that loses nothing.

Only model-checked: all liveness (TLAPS 1.4.5 does not treat fairness here), that is
`EveryClientIsSynced`, `SilentIsGivenUp`, `ReturningIsCountedOn`, `SongEnds`, and the
convergence of the estimates (`EstimateSettles`, `SampledSettles`), on which the initial
estimates of `Playback` rest.

## Not modelled, and why

* The layout of the packed structs, addresses and `select`: the first is fixed, the
  others are what the models take for granted.
* The packet buffer (2048 bytes), which a crowded track, or the past of a song that
  begins late, exceeds together with the 8-bit `num_midi_events`: `MessagesFit` says how
  crowded that is.  A backlog that a returning client finds is a third way, in neither
  `Server`, which has no sizes, nor `Playback`, which has no hand-overs.
* How many empty messages go out while an event is put off: `PlayTrack` of `Playback`
  supposes that a client that is not stopped keeps up with them.
* The sound itself, and the network's own delay, which is less than a millisecond in the
  room such an orchestra plays in.
* The local players: the PortMidi thread is started before the queue it reads exists, and
  reads `front()` of it whether or not it is empty.  From its first pass on their
  behaviour is undefined, and they have no other state.
* `checkpoint`, `pageDump`, `printPage` and `printBlock` of `buffer.h`, which print.
* `Client::send_midi_ack`, `handle_play`, `Server::handle_handshake` and other
  handlers that nothing reaches.
* `ClientInfo::operator=` has no `return` and appends to the deques of its target; the
  models give it the meaning its callers expect (a target that is new).
* `handle_play_song()` reads `front()` of a deque it has just emptied.  The value is
  never used, and the models leave it out.
* The statistics and test programs, which keep no state.
* Third-party code, which is most of the repository: midifile, rtmidi, wildmidi, portmidi
  and googletest.  What the program uses of it appears as `Song`, `Track` and the clock.

## Plan

1. (done) `DelayEstimate`, `SyncLink`, `Server`, `Roster`, `Conversation`, their runs
   and first proofs.
2. (done) `PageStore` and `Buffer` with their refinement, checked and proved; `Playback`
   with its types and the order of what is heard proved;
   faults of the network and two songs in the runs of `Conversation` and `Server`.
3. (done) Every safety property of the runs proved: `AnyNetwork_proofs`; the tracks and
   the types of `Server`; the one SYNC of `SyncLink`; the times of `Playback`.
4. (done) Songs that begin late and the network's faults in `Playback`, the limit of the
   hand-over in `Server`, pages made a second time and disks made anew in `Buffer`, with
   their proofs.
5. Left: the times of a track that changes hands (`Server` and `Playback` in one); how far
   an estimate can be from its client while delays change, as an invariant that
   `Playback` could begin with instead of the settled one.
