---------------------------- MODULE Conversation ----------------------------
(***************************************************************************)
(* One client program talking to the server over UDP: the handshake with   *)
(* its retries, the SYNCs and MIDI messages that follow, and the sequence  *)
(* numbers they carry.                                                     *)
(*                                                                         *)
(* Every try of the handshake opens another socket, and every HS makes the *)
(* server open one (an fd) for a client it takes to be new.  Only what the *)
(* program and the server say to each other is modelled: how long things   *)
(* take, and whose turn it is to be synced when a session ends (module     *)
(* Server), are left open.                                                 *)
(***************************************************************************)
EXTENDS Integers, SequencesExt

CONSTANTS
    NULL,               \* no fd
    MAX_TIMEOUTS,       \* tries of the handshake
    MaxFaults,          \* bound: datagrams lost, duplicated or overtaken
    MaxWaiting,         \* bound: datagrams under way to the client, SYNCs it holds
    MaxSeq,             \* bound: sequence numbers the server sends
    MaxStops            \* bound: "stop"s typed at the client

ASSUME ParametersAssumption ==
    /\ NULL \notin Nat
    /\ MAX_TIMEOUTS \in Nat \ {0}
    /\ MaxFaults \in Nat
    /\ MaxWaiting \in Nat \ {0}
    /\ MaxSeq \in Nat
    /\ MaxStops \in Nat

VARIABLES
    \* the client program; socket is its current one (0: none yet), trying
    \* is TRUE while it waits for the answer to an HS, peer is whom it
    \* answers (server), end says how the program ended
    state, socket, trying, timeout_count, client_alive, seq_num, queued_syncs,
    peer, end, stops,
    \* the server: fd -> its ClientInfo, and the fd being synced
    fd_to_client_info, sync_client,
    \* the network: datagrams to the server's main socket, to the server's
    \* fds and to the client's current socket, and what went wrong so far
    joining, answers, orders, lost, duplicated, reordered

program == <<state, socket, trying, timeout_count, client_alive, seq_num,
             queued_syncs, peer, end, stops>>
server  == <<fd_to_client_info, sync_client>>
faults  == <<lost, duplicated>>
network == <<joining, answers, orders, faults, reordered>>
vars    == <<program, server, network>>

Faults == lost + duplicated + reordered
Socket == 1 .. MAX_TIMEOUTS
Fds    == DOMAIN fd_to_client_info
Packet == [flag : {"HS_GOOD", "SYNC", "MIDI"}, seq_num : Nat, from : Nat \ {0}]
Reply  == [flag : {"HS_FIN", "SYNC_ACK"}, seq_num : Nat]

TypeOK ==
    /\ state \in {"HANDSHAKE", "TWIDDLE", "ENDED"}
    /\ socket \in {0} \cup Socket
    /\ trying \in BOOLEAN
    /\ timeout_count \in 0 .. MAX_TIMEOUTS
    /\ client_alive \in BOOLEAN
    /\ seq_num \in Nat
    /\ queued_syncs \in Seq(Nat)
    /\ peer \in Fds \cup {NULL}
    /\ end \in {"running", "timeouts", "fell through", "assert"}
    /\ stops \in 0 .. MaxStops
    /\ fd_to_client_info \in Seq([addr : Socket, seq_num : Nat, expected_seq_num : Nat])
    /\ Len(fd_to_client_info) <= socket + duplicated
    /\ sync_client \in Fds \cup {NULL}
    /\ joining \in Seq(Socket)
    /\ answers \in [Fds -> Seq(Reply)]
    /\ orders \in Seq(Packet)
    /\ lost \in Nat /\ duplicated \in Nat /\ reordered \in Nat
    /\ Faults <= MaxFaults

Init ==
    /\ state = "HANDSHAKE" /\ socket = 0 /\ trying = FALSE /\ timeout_count = 0
    /\ client_alive = TRUE /\ seq_num = 0 /\ queued_syncs = <<>>
    /\ peer = NULL /\ end = "running" /\ stops = 0
    /\ fd_to_client_info = <<>> /\ sync_client = NULL
    /\ joining = <<>>
    /\ answers = <<>>
    /\ orders = <<>>
    /\ lost = 0 /\ duplicated = 0 /\ reordered = 0

(* What the network may deliver next of the datagrams under way: the       *)
(* oldest one, or one that overtakes it.                                   *)
Deliverable(queue) == {i \in DOMAIN queue : i = 1 \/ Faults < MaxFaults}

Overtakes(i) == reordered' = IF i = 1 THEN reordered ELSE reordered + 1

(* A datagram for which there is no room is dropped. *)
Sent(queue, datagram) ==
    IF Len(queue) < MaxWaiting THEN Append(queue, datagram) ELSE queue

----------------------------------------------------------------------------
(* The client program *)

(* A mistake the properties must notice: every try uses the first socket.  *)
FirstSocket == 1

(* setup_udp_socket(): the socket of the last try is abandoned, with all   *)
(* that reached it or will.                                                *)
NextSocket == socket + 1

(* A mistake: the wait is still for what reaches the socket before. *)
SendHandshakeSameWait ==
    /\ state = "HANDSHAKE" /\ ~trying
    /\ socket' = NextSocket
    /\ joining' = Append(joining, socket')
    /\ trying' = TRUE
    /\ UNCHANGED <<state, timeout_count, client_alive, seq_num, queued_syncs>>
    /\ UNCHANGED <<peer, end, stops, server, answers, orders, faults, reordered>>

(* The beginning of handle_handshake(), up to the wait for an answer. *)
SendHandshake ==
    /\ state = "HANDSHAKE" /\ ~trying
    /\ socket' = NextSocket
    /\ orders' = IF socket' = socket THEN orders ELSE <<>>
    /\ joining' = Append(joining, socket')
    /\ trying' = TRUE
    /\ UNCHANGED <<state, timeout_count, client_alive, seq_num, queued_syncs>>
    /\ UNCHANGED <<peer, end, stops, server, answers, faults, reordered>>

(* Lines the user may type: handle_stdin() returns to a loop that takes no *)
(* datagram this time.                                                     *)
UserTypes ==
    \/ /\ ~client_alive
       /\ client_alive' = TRUE
       /\ UNCHANGED <<queued_syncs, stops>>
    \/ /\ stops < MaxStops
       /\ stops' = stops + 1
       /\ client_alive' = FALSE
       /\ queued_syncs' = <<>>

(* A mistake: the count is looked at before it is incremented.             *)
GivesUpLate == timeout_count = MAX_TIMEOUTS

GivesUp == timeout_count + 1 = MAX_TIMEOUTS

(* No answer within a second, a line typed, or an answer that a stopped    *)
(* client does not read: all of them count as timeouts.                    *)
HandshakeTimeout ==
    /\ state = "HANDSHAKE" /\ trying
    /\ trying' = FALSE
    /\ timeout_count' = timeout_count + 1
    /\ UserTypes \/ UNCHANGED <<client_alive, queued_syncs, stops>>
    /\ IF GivesUp
       THEN state' = "ENDED" /\ end' = "timeouts"
       ELSE UNCHANGED <<state, end>>
    /\ UNCHANGED <<socket, seq_num, peer, server, network>>

(* recv_packet_into_buf(): whoever sent the datagram is answered from now. *)
Receive(packet, i) ==
    /\ orders' = RemoveAt(orders, i)
    /\ Overtakes(i)
    /\ seq_num' = packet.seq_num + 1
    /\ peer' = packet.from

Reported(how) == state' = "ENDED" /\ end' = how

(* The rest of handle_handshake() when there is an answer. *)
HandshakeAnswer ==
    /\ state = "HANDSHAKE" /\ trying /\ client_alive
    /\ \E i \in Deliverable(orders) :
          LET packet == orders[i]
          IN  /\ Receive(packet, i)
              /\ IF packet.flag = "HS_GOOD"
                 THEN /\ state' = "TWIDDLE"
                      /\ timeout_count' = 0
                      /\ answers' = [answers EXCEPT ![packet.from] =
                            Sent(@, [flag |-> "HS_FIN", seq_num |-> seq_num'])]
                      /\ UNCHANGED end
                 ELSE /\ Reported("fell through")
                      /\ UNCHANGED <<timeout_count, answers>>
    /\ trying' = FALSE
    /\ UNCHANGED <<socket, client_alive, queued_syncs, stops, server, joining, faults>>

(* The end of twiddle(): when its time has come the oldest SYNC is         *)
(* answered, to the sender of the datagram received last.                  *)
MaybeAnswer(queue) ==
    \/ queued_syncs' = queue /\ UNCHANGED answers
    \/ /\ queue # <<>>
       /\ queued_syncs' = Tail(queue)
       /\ answers' = [answers EXCEPT ![peer'] =
             Sent(@, [flag |-> "SYNC_ACK", seq_num |-> Head(queue)])]

(* twiddle() with a datagram. *)
TwiddlePacket ==
    /\ state = "TWIDDLE" /\ client_alive
    /\ \E i \in Deliverable(orders) :
          LET packet == orders[i]
          IN  /\ Receive(packet, i)
              /\ \/ /\ packet.flag = "SYNC" /\ Len(queued_syncs) < MaxWaiting
                    /\ MaybeAnswer(Append(queued_syncs, seq_num'))
                    /\ UNCHANGED <<state, end>>
                 \/ /\ packet.flag = "MIDI"
                    /\ MaybeAnswer(queued_syncs)
                    /\ UNCHANGED <<state, end>>
                 \/ /\ packet.flag \notin {"SYNC", "MIDI"}
                    /\ Reported("assert")
                    /\ UNCHANGED <<queued_syncs, answers>>
    /\ UNCHANGED <<socket, trying, timeout_count, client_alive, stops>>
    /\ UNCHANGED <<server, joining, faults>>

(* twiddle() without one. *)
TwiddleAnswer ==
    /\ state = "TWIDDLE"
    /\ queued_syncs # <<>>
    /\ UNCHANGED peer
    /\ MaybeAnswer(queued_syncs)
    /\ UNCHANGED <<state, socket, trying, timeout_count, client_alive, seq_num>>
    /\ UNCHANGED <<end, stops, server, joining, orders, faults, reordered>>

(* twiddle() with a line: "stop" forgets the SYNCs not yet answered. *)
TwiddleCommand ==
    /\ state = "TWIDDLE"
    /\ UserTypes
    /\ UNCHANGED <<state, socket, trying, timeout_count, seq_num, peer, end, server, network>>

----------------------------------------------------------------------------
(* The server *)

(* send_buf() to a client: only its current socket is ever read. *)
SentTo(info, queue, packet) ==
    IF info.addr = socket THEN Sent(queue, packet) ELSE queue

(* send_sync_packet() *)
SyncTo(c, infos, queue) ==
    SentTo(infos[c], queue, [flag |-> "SYNC", seq_num |-> infos[c].seq_num, from |-> c])

(* What handle_new_client() sends: HS_GOOD, and when the client is the     *)
(* first one its first SYNC right after it.                                *)
Greeted(fd, infos) ==
    LET good == [flag |-> "HS_GOOD", seq_num |-> infos[fd].seq_num, from |-> fd]
        told == SentTo(infos[fd], orders, good)
    IN  IF fd = 1 THEN SyncTo(fd, infos, told) ELSE told

(* handle_new_client(): the HS carries sequence number 0. *)
HandleNewClient ==
    \E i \in Deliverable(joining) :
        LET fd    == Len(fd_to_client_info) + 1
            infos == Append(fd_to_client_info,
                            [addr |-> joining[i], seq_num |-> 1, expected_seq_num |-> 2])
        IN  /\ joining' = RemoveAt(joining, i)
            /\ Overtakes(i)
            /\ fd_to_client_info' = infos
            /\ orders' = Greeted(fd, infos)
            /\ answers' = Append(answers, <<>>)
            /\ sync_client' = IF fd = 1 THEN fd ELSE sync_client
            /\ UNCHANGED <<program, faults>>

(* A SYNC_ACK and a timeout end with a SYNC to the client whose turn it is *)
(* then, after its sequence number was taken from the datagram.            *)
NextSync(infos) ==
    \E c \in Fds :
        /\ sync_client' = c
        /\ orders' = SyncTo(c, infos, orders)

(* handle_priority_msg() *)
HandlePriorityMsg ==
    /\ sync_client # NULL
    /\ \E i \in Deliverable(answers[sync_client]) :
          LET reply == answers[sync_client][i]
              infos == [fd_to_client_info EXCEPT
                           ![sync_client].seq_num = reply.seq_num + 1,
                           ![sync_client].expected_seq_num = reply.seq_num + 2]
          IN  /\ reply.seq_num < MaxSeq
              /\ Overtakes(i)
              /\ answers' = [answers EXCEPT ![sync_client] = RemoveAt(@, i)]
              /\ fd_to_client_info' = infos
              /\ \/ reply.flag = "SYNC_ACK" /\ NextSync(infos)
                 \/ reply.flag = "HS_FIN" /\ UNCHANGED <<sync_client, orders>>
    /\ UNCHANGED <<program, joining, faults>>

(* handle_sync_timeout(): nothing has been received for long enough. *)
HandleSyncTimeout ==
    /\ sync_client # NULL
    /\ NextSync(fd_to_client_info)
    /\ UNCHANGED <<program, fd_to_client_info, joining, answers, faults, reordered>>

(* A mistake: the number of the expected answer is taken for the next one. *)
SendMidiMsgByOne(c) ==
    /\ fd_to_client_info[c].seq_num + 1 <= MaxSeq
    /\ LET info == fd_to_client_info[c]
           midi == [flag |-> "MIDI", seq_num |-> info.seq_num, from |-> c]
       IN  orders' = SentTo(info, orders, midi)
    /\ fd_to_client_info' = [fd_to_client_info EXCEPT ![c].seq_num = @ + 1]
    /\ UNCHANGED <<program, sync_client, joining, answers, faults, reordered>>

(* send_midi_msg() *)
SendMidiMsg(c) ==
    /\ fd_to_client_info[c].seq_num + 2 <= MaxSeq
    /\ LET info == fd_to_client_info[c]
           midi == [flag |-> "MIDI", seq_num |-> info.seq_num, from |-> c]
       IN  orders' = SentTo(info, orders, midi)
    /\ fd_to_client_info' = [fd_to_client_info EXCEPT ![c].seq_num = @ + 2]
    /\ UNCHANGED <<program, sync_client, joining, answers, faults, reordered>>

----------------------------------------------------------------------------
(* The network *)

Lose ==
    /\ Faults < MaxFaults
    /\ lost' = lost + 1
    /\ \/ /\ \E i \in DOMAIN joining : joining' = RemoveAt(joining, i)
          /\ UNCHANGED <<answers, orders>>
       \/ /\ \E fd \in Fds : \E i \in DOMAIN answers[fd] :
                answers' = [answers EXCEPT ![fd] = RemoveAt(@, i)]
          /\ UNCHANGED <<joining, orders>>
       \/ /\ \E i \in DOMAIN orders : orders' = RemoveAt(orders, i)
          /\ UNCHANGED <<joining, answers>>
    /\ UNCHANGED <<program, server, duplicated, reordered>>

Duplicate ==
    /\ Faults < MaxFaults
    /\ duplicated' = duplicated + 1
    /\ \/ /\ \E i \in DOMAIN joining : joining' = Append(joining, joining[i])
          /\ UNCHANGED <<answers, orders>>
       \/ /\ \E fd \in Fds : \E i \in DOMAIN answers[fd] :
                answers' = [answers EXCEPT ![fd] = Append(@, @[i])]
          /\ UNCHANGED <<joining, orders>>
       \/ /\ \E i \in DOMAIN orders : orders' = Append(orders, orders[i])
          /\ UNCHANGED <<joining, answers>>
    /\ UNCHANGED <<program, server, lost, reordered>>

Next ==
    \/ SendHandshake \/ HandshakeTimeout \/ HandshakeAnswer
    \/ TwiddlePacket \/ TwiddleAnswer \/ TwiddleCommand
    \/ HandleNewClient \/ HandlePriorityMsg \/ HandleSyncTimeout
    \/ \E c \in Fds : SendMidiMsg(c)
    \/ Lose \/ Duplicate

Spec == Init /\ [][Next]_vars

----------------------------------------------------------------------------
(* On a network that keeps the order of a socket's datagrams and loses     *)
(* none, however slow, the client understands everything it receives: the  *)
(* answers to its earlier tries go to sockets it has abandoned.            *)
(* (setup_udp_socket(), handle_new_client())                               *)
NeverFallsThrough ==
    Faults = 0 => end \notin {"fell through", "assert"}

(* client.cpp:451, ASSERT(FALSE): as long as no datagram is duplicated,    *)
(* none but a SYNC or a MIDI message reaches twiddle(), whatever is lost,  *)
(* delayed or reordered.  (handle_handshake(), handle_new_client())        *)
TwiddleUnderstands == duplicated = 0 => end # "assert"

(* A client that is connected talks to the one fd that has its socket's    *)
(* address, and the fds of its earlier tries never hear of it.             *)
(* (handle_handshake(), recv_packet_into_buf())                            *)
OnePeer ==
    duplicated = 0 =>
        \A fd \in Fds :
            \/ answers[fd] = <<>>
            \/ fd = peer /\ fd_to_client_info[fd].addr = socket

(* Duplicates give a socket a second fd, and the client may come to talk   *)
(* to either.  But whatever the network does, an fd that an earlier try    *)
(* left behind hears nothing, so that handle_sync_timeout() gives it up.   *)
(* (setup_udp_socket(), handle_new_client())                               *)
PhantomsHearNothing ==
    \A fd \in Fds : fd_to_client_info[fd].addr # socket => answers[fd] = <<>>

(* What the server sends has odd numbers, what the client sends even ones, *)
(* in whatever order SYNCs, MIDI messages and answers, late ones too, set  *)
(* the counters on both sides.  (send_midi_msg(), handle_priority_msg(),   *)
(* recv_packet_into_buf())                                                 *)
NumbersTellSides ==
    /\ \A i \in DOMAIN orders : orders[i].seq_num % 2 = 1
    /\ \A fd \in Fds : \A i \in DOMAIN answers[fd] : answers[fd][i].seq_num % 2 = 0
=============================================================================
