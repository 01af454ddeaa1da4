------------------------- MODULE AnyNetwork_proofs -------------------------
(***************************************************************************)
(* Proofs about Conversation on any network, one that duplicates datagrams *)
(* too: the types of all that is kept and sent, who may still be heard of, *)
(* whose sequence numbers are odd and whose are even, and what a client    *)
(* understands as long as nothing goes wrong.                              *)
(***************************************************************************)
EXTENDS Conversation_proofs

Odd  == {n \in Nat : n % 2 = 1}
Even == {n \in Nat : n % 2 = 0}

(* The fds that have the address of the client's current socket: one, or   *)
(* several when an HS was duplicated.                                      *)
Current == {fd \in Fds : fd_to_client_info[fd].addr = socket}

OddInfo    == [addr : 1 .. socket, seq_num : Odd, expected_seq_num : Nat]
OddOrder   == [flag : {"HS_GOOD", "SYNC", "MIDI"}, seq_num : Odd, from : Current]
EvenAnswer == [flag : {"HS_FIN", "SYNC_ACK"}, seq_num : Even]

(* Every fd of the server comes from an HS, and every HS from a try or a   *)
(* duplicate.                                                              *)
Counted ==
    /\ socket \in 0 .. MAX_TIMEOUTS
    /\ timeout_count \in 0 .. MAX_TIMEOUTS
    /\ lost \in Nat /\ duplicated \in Nat /\ reordered \in Nat
    /\ Faults <= MaxFaults
    /\ Len(joining) + Len(fd_to_client_info) <= socket + duplicated

Shapes ==
    /\ state \in {"HANDSHAKE", "TWIDDLE", "ENDED"}
    /\ trying \in BOOLEAN
    /\ client_alive \in BOOLEAN
    /\ end \in {"running", "timeouts", "fell through", "assert"}
    /\ seq_num \in Nat
    /\ stops \in 0 .. MaxStops

(* A client that has had no answer has opened a socket for every timeout   *)
(* and one more while it waits, and answers nobody.                        *)
Tries ==
    /\ state = "HANDSHAKE" =>
          /\ timeout_count < MAX_TIMEOUTS
          /\ socket = timeout_count + (IF trying THEN 1 ELSE 0)
          /\ peer = NULL
    /\ state = "TWIDDLE" => peer # NULL

(* What is under way to the client comes from fds of its current socket,   *)
(* and only those are answered; what the server sends is odd, what the     *)
(* client sends is even.                                                   *)
Addressed ==
    /\ joining \in Seq(1 .. socket)
    /\ fd_to_client_info \in Seq(OddInfo)
    /\ sync_client \in Fds \cup {NULL}
    /\ orders \in Seq(OddOrder)
    /\ answers \in [Fds -> Seq(EvenAnswer)]
    /\ queued_syncs \in Seq(Even)
    /\ peer \in Current \cup {NULL}
    /\ \A fd \in Fds : answers[fd] # <<>> => peer # NULL /\ fd \in Current

Always == Counted /\ Shapes /\ Tries /\ Addressed

----------------------------------------------------------------------------
LEMMA OddEven ==
    /\ \A n \in Odd : n \in Nat /\ n + 1 \in Even /\ n + 2 \in Odd
    /\ \A n \in Even : n \in Nat /\ n + 1 \in Odd /\ n + 2 \in Even
    /\ 1 \in Odd
BY DEF Odd, Even

LEMMA SentTo2 ==
    ASSUME NEW S, NEW queue \in Seq(S), NEW d \in S, NEW info
    PROVE  SentTo(info, queue, d) \in Seq(S)
BY SentTypes DEF SentTo

(* An order is for the client only if it comes from a current fd.          *)
LEMMA OrderSent ==
    ASSUME NEW S, NEW queue \in Seq(S), NEW d, NEW info, info.addr = socket => d \in S
    PROVE  SentTo(info, queue, d) \in Seq(S)
BY SentTypes DEF SentTo

----------------------------------------------------------------------------
LEMMA AlwaysInitially == Init => Always
<1> USE ParametersAssumption DEF Init
<1>1. Init => Counted
    BY DEF Counted, Faults
<1>2. Init => Shapes
    <2>1. Init => trying \in BOOLEAN /\ client_alive \in BOOLEAN
        BY Zenon
    <2> QED BY <2>1 DEF Shapes
<1>4. Init => Tries
    BY DEF Tries
<1>3. Init => Addressed
    BY DEF Addressed, Fds
<1> QED BY <1>1, <1>2, <1>3, <1>4 DEF Always

(* Delivering out of turn needs a fault that is still allowed.             *)
LEMMA OvertakingCounted ==
    ASSUME Counted, NEW queue, NEW i \in Deliverable(queue), Overtakes(i), UNCHANGED faults
    PROVE  /\ i \in DOMAIN queue
           /\ lost' \in Nat /\ duplicated' = duplicated /\ reordered' \in Nat
           /\ Faults' <= MaxFaults
BY ParametersAssumption DEF Counted, Deliverable, Overtakes, Faults, faults

LEMMA CountedKept ==
    ASSUME Always, [Next]_vars
    PROVE  Counted'
<1> USE ParametersAssumption DEF Always
<1>1. Counted /\ Addressed /\ Tries
    OBVIOUS
<1>2. /\ joining \in Seq(1 .. socket) /\ Len(joining) \in Nat
      /\ fd_to_client_info \in Seq(OddInfo) /\ Len(fd_to_client_info) \in Nat
      /\ socket \in 0 .. MAX_TIMEOUTS
    BY DEF Addressed, Counted
<1>3. ASSUME UNCHANGED <<socket, timeout_count, joining, lost, duplicated>>,
             Len(fd_to_client_info') = Len(fd_to_client_info),
             reordered' \in Nat, Faults' <= MaxFaults
      PROVE  Counted'
    BY <1>1, <1>3 DEF Counted
<1>4. ASSUME UNCHANGED <<socket, timeout_count, joining, lost, duplicated, reordered>>,
             Len(fd_to_client_info') = Len(fd_to_client_info)
      PROVE  Counted'
    BY <1>1, <1>4 DEF Counted, Faults
<1>5. CASE SendHandshake
    <2>1. socket' = socket + 1 /\ Len(joining') = Len(joining) + 1
          /\ UNCHANGED <<fd_to_client_info, timeout_count, lost, duplicated, reordered>>
        BY <1>2, <1>5 DEF SendHandshake, NextSocket, server, faults
    <2>2. socket + 1 <= MAX_TIMEOUTS
        BY <1>1, <1>5 DEF SendHandshake, Tries, Counted
    <2> QED BY <1>1, <1>2, <2>1, <2>2 DEF Counted, Faults
<1>6. CASE HandshakeTimeout
    <2>1. timeout_count' = timeout_count + 1 /\ timeout_count < MAX_TIMEOUTS
          /\ UNCHANGED <<socket, fd_to_client_info, joining, lost, duplicated, reordered>>
        BY <1>1, <1>6 DEF HandshakeTimeout, Tries, server, network, faults
    <2> QED BY <1>1, <2>1 DEF Counted, Faults
<1>7. CASE HandshakeAnswer
    <2>1. PICK i \in Deliverable(orders) :
              Overtakes(i) /\ timeout_count' \in {0, timeout_count}
        BY <1>7 DEF HandshakeAnswer, Receive
    <2>2. UNCHANGED <<socket, fd_to_client_info, joining, faults>>
        BY <1>7 DEF HandshakeAnswer, server
    <2>3. lost' \in Nat /\ duplicated' = duplicated /\ reordered' \in Nat /\ Faults' <= MaxFaults
        BY <1>1, <2>1, <2>2, OvertakingCounted
    <2> QED BY <1>1, <2>1, <2>2, <2>3 DEF Counted
<1>8. CASE TwiddlePacket
    <2>1. PICK i \in Deliverable(orders) : Overtakes(i)
        BY <1>8 DEF TwiddlePacket, Receive
    <2>2. UNCHANGED <<socket, fd_to_client_info, joining, timeout_count, faults>>
        BY <1>8 DEF TwiddlePacket, server
    <2>3. lost' \in Nat /\ duplicated' = duplicated /\ reordered' \in Nat /\ Faults' <= MaxFaults
        BY <1>1, <2>1, <2>2, OvertakingCounted
    <2> QED BY <1>3, <2>2, <2>3 DEF faults
<1>9. CASE TwiddleAnswer \/ TwiddleCommand \/ HandleSyncTimeout \/ UNCHANGED vars
    <2>1. UNCHANGED <<socket, timeout_count, joining, fd_to_client_info, lost, duplicated, reordered>>
        BY <1>9 DEF TwiddleAnswer, TwiddleCommand, HandleSyncTimeout, vars, program, server,
                    network, faults
    <2> QED BY <1>4, <2>1
<1>10. CASE HandleNewClient
    <2>1. PICK i \in Deliverable(joining) :
              /\ Overtakes(i)
              /\ joining' = RemoveAt(joining, i)
              /\ \E info : fd_to_client_info' = Append(fd_to_client_info, info)
        BY <1>10 DEF HandleNewClient
    <2>2. UNCHANGED <<socket, timeout_count, faults>>
        BY <1>10 DEF HandleNewClient, program
    <2>3. /\ i \in DOMAIN joining
          /\ lost' \in Nat /\ duplicated' = duplicated /\ reordered' \in Nat /\ Faults' <= MaxFaults
        BY <1>1, <2>1, <2>2, OvertakingCounted
    <2>4. Len(joining') = Len(joining) - 1
        BY <1>2, <2>1, <2>3, RemovedAt
    <2>5. Len(fd_to_client_info') = Len(fd_to_client_info) + 1
        BY <1>2, <2>1
    <2> QED BY <1>1, <1>2, <2>2, <2>3, <2>4, <2>5 DEF Counted
<1>11. CASE HandlePriorityMsg
    <2>1. PICK i \in Deliverable(answers[sync_client]) :
              /\ Overtakes(i)
              /\ Len(fd_to_client_info') = Len(fd_to_client_info)
        BY <1>2, <1>11 DEF HandlePriorityMsg
    <2>2. UNCHANGED <<socket, joining, timeout_count, faults>>
        BY <1>11 DEF HandlePriorityMsg, program
    <2>3. lost' \in Nat /\ duplicated' = duplicated /\ reordered' \in Nat /\ Faults' <= MaxFaults
        BY <1>1, <2>1, <2>2, OvertakingCounted
    <2> QED BY <1>3, <2>1, <2>2, <2>3 DEF faults
<1>12. CASE \E c \in Fds : SendMidiMsg(c)
    <2>1. UNCHANGED <<socket, timeout_count, joining, lost, duplicated, reordered>>
        BY <1>12 DEF SendMidiMsg, program, faults
    <2>2. Len(fd_to_client_info') = Len(fd_to_client_info)
        BY <1>2, <1>12 DEF SendMidiMsg
    <2> QED BY <1>4, <2>1, <2>2
<1>13. CASE Lose
    <2>1. /\ Faults < MaxFaults /\ lost' = lost + 1
          /\ UNCHANGED <<socket, timeout_count, fd_to_client_info, duplicated, reordered>>
          /\ (\E i \in DOMAIN joining : joining' = RemoveAt(joining, i)) \/ UNCHANGED joining
        BY <1>13 DEF Lose, program, server
    <2>2. Len(joining') <= Len(joining) /\ Len(joining') \in Nat
        BY <1>2, <2>1, RemovedAt
    <2> QED BY <1>1, <1>2, <2>1, <2>2 DEF Counted, Faults
<1>14. CASE Duplicate
    <2>1. /\ Faults < MaxFaults /\ duplicated' = duplicated + 1
          /\ UNCHANGED <<socket, timeout_count, fd_to_client_info, lost, reordered>>
          /\ (\E i \in DOMAIN joining : joining' = Append(joining, joining[i])) \/ UNCHANGED joining
        BY <1>14 DEF Duplicate, program, server
    <2>2. Len(joining') <= Len(joining) + 1 /\ Len(joining') \in Nat
        BY <1>2, <2>1
    <2> QED BY <1>1, <1>2, <2>1, <2>2 DEF Counted, Faults
<1> QED BY <1>5, <1>6, <1>7, <1>8, <1>9, <1>10, <1>11, <1>12, <1>13, <1>14 DEF Next

LEMMA ShapesKept ==
    ASSUME Always, [Next]_vars
    PROVE  Shapes' /\ Tries'
<1> USE ParametersAssumption DEF Always
<1>1. Shapes /\ Tries /\ Addressed /\ socket \in Nat /\ timeout_count \in Nat
    BY DEF Counted
<1>2. \A i \in DOMAIN orders : orders[i].seq_num + 1 \in Nat /\ orders[i].from # NULL
    <2>1. \A i \in DOMAIN orders : orders[i] \in OddOrder
        BY <1>1 DEF Addressed
    <2>2. Current \subseteq Nat
        <3>1. Fds \subseteq Nat
            BY <1>1 DEF Fds, Addressed
        <3> QED BY <3>1 DEF Current
    <2>3. \A i \in DOMAIN orders : orders[i].seq_num \in Odd /\ orders[i].from \in Nat
        BY <2>1, <2>2 DEF OddOrder
    <2> QED BY <2>3, OddEven DEF Even
<1>3. CASE SendHandshake
    <2>1. trying' /\ trying' \in BOOLEAN /\ ~trying
        BY <1>3, Zenon DEF SendHandshake
    <2>2. /\ socket' = socket + 1 /\ state = "HANDSHAKE"
          /\ UNCHANGED <<state, timeout_count, client_alive, seq_num, peer, end, stops>>
        BY <1>3 DEF SendHandshake, NextSocket
    <2>3. Tries'
        BY <1>1, <2>1, <2>2 DEF Tries
    <2>4. Shapes'
        BY <1>1, <2>1, <2>2 DEF Shapes
    <2> QED BY <2>3, <2>4
<1>4. CASE HandshakeTimeout
    <2>1. ~trying' /\ trying' \in BOOLEAN /\ trying
        BY <1>4, Zenon DEF HandshakeTimeout
    <2>2. client_alive' \in BOOLEAN
        BY <1>1, <1>4, Zenon DEF HandshakeTimeout, UserTypes, Shapes
    <2>3. /\ timeout_count' = timeout_count + 1 /\ state = "HANDSHAKE"
          /\ UNCHANGED <<socket, seq_num, peer>>
          /\ stops' \in {stops, stops + 1} /\ (stops' = stops \/ stops < MaxStops)
          /\ IF timeout_count + 1 = MAX_TIMEOUTS
             THEN state' = "ENDED" /\ end' = "timeouts"
             ELSE UNCHANGED <<state, end>>
        BY <1>4 DEF HandshakeTimeout, UserTypes, GivesUp
    <2>4. Tries'
        BY <1>1, <2>1, <2>3 DEF Tries
    <2>5. Shapes'
        <3>1. stops' \in 0 .. MaxStops
            <4>1. stops \in 0 .. MaxStops /\ MaxStops \in Nat
                BY <1>1 DEF Shapes
            <4>2. stops' = stops \/ (stops' = stops + 1 /\ stops < MaxStops)
                BY <2>3
            <4> QED BY <4>1, <4>2
        <3>2. end' \in {"running", "timeouts", "fell through", "assert"} /\ state' \in {"HANDSHAKE", "ENDED"}
            BY <1>1, <2>3 DEF Shapes
        <3> QED BY <1>1, <2>1, <2>2, <2>3, <3>1, <3>2, Zenon DEF Shapes
    <2> QED BY <2>4, <2>5
<1>5. CASE HandshakeAnswer
    <2>1. PICK i \in DOMAIN orders :
              /\ seq_num' = orders[i].seq_num + 1 /\ peer' = orders[i].from
              /\ \/ state' = "TWIDDLE" /\ UNCHANGED end
                 \/ state' = "ENDED" /\ end' = "fell through"
        BY <1>5 DEF HandshakeAnswer, Deliverable, Receive, Reported
    <2>2. trying' = FALSE /\ UNCHANGED <<client_alive, stops>>
        BY <1>5 DEF HandshakeAnswer
    <2> QED BY <1>1, <1>2, <2>1, <2>2 DEF Shapes, Tries
<1>6. CASE TwiddlePacket
    <2>1. PICK i \in DOMAIN orders :
              /\ seq_num' = orders[i].seq_num + 1 /\ peer' = orders[i].from
              /\ \/ state' = "TWIDDLE" /\ UNCHANGED end
                 \/ state' = "ENDED" /\ end' = "assert"
        BY <1>6 DEF TwiddlePacket, Deliverable, Receive, Reported
    <2>2. UNCHANGED <<trying, client_alive, stops>>
        BY <1>6 DEF TwiddlePacket
    <2> QED BY <1>1, <1>2, <2>1, <2>2 DEF Shapes, Tries
<1>7. CASE TwiddleCommand
    <2>1. client_alive' \in BOOLEAN
        BY <1>1, <1>7, Zenon DEF TwiddleCommand, UserTypes, Shapes
    <2>2. /\ UNCHANGED <<state, socket, trying, timeout_count, seq_num, peer, end>>
          /\ stops' \in {stops, stops + 1} /\ (stops' = stops \/ stops < MaxStops)
        BY <1>7 DEF TwiddleCommand, UserTypes
    <2>3. Tries'
        BY <1>1, <2>2 DEF Tries
    <2>4. Shapes'
        <3>1. stops' \in 0 .. MaxStops
            <4>1. stops \in 0 .. MaxStops /\ MaxStops \in Nat
                BY <1>1 DEF Shapes
            <4>2. stops' = stops \/ (stops' = stops + 1 /\ stops < MaxStops)
                BY <2>2
            <4> QED BY <4>1, <4>2
        <3> QED BY <1>1, <2>1, <2>2, <3>1, Zenon DEF Shapes
    <2> QED BY <2>3, <2>4
<1>8. CASE TwiddleAnswer \/ HandleNewClient \/ HandlePriorityMsg \/ HandleSyncTimeout
           \/ (\E c \in Fds : SendMidiMsg(c)) \/ Lose \/ Duplicate \/ UNCHANGED vars
    <2>1. UNCHANGED <<state, socket, trying, timeout_count, client_alive, seq_num, peer, end, stops>>
        BY <1>8 DEF TwiddleAnswer, HandleNewClient, HandlePriorityMsg, HandleSyncTimeout,
                    SendMidiMsg, Lose, Duplicate, vars, program
    <2> QED BY <1>1, <2>1 DEF Shapes, Tries
<1> QED BY <1>3, <1>4, <1>5, <1>6, <1>7, <1>8 DEF Next

----------------------------------------------------------------------------
(* Whoever is heard of by the same socket as before.                       *)
LEMMA SameAddresses ==
    ASSUME Addressed, UNCHANGED socket, Fds' = Fds,
           \A c \in Fds : fd_to_client_info'[c].addr = fd_to_client_info[c].addr,
           fd_to_client_info' \in Seq(OddInfo),
           joining' \in Seq(1 .. socket),
           sync_client' \in Fds \cup {NULL},
           orders' \in Seq(OddOrder),
           answers' \in [Fds -> Seq(EvenAnswer)],
           queued_syncs' \in Seq(Even),
           peer' \in Current \cup {NULL},
           \A fd \in Fds : answers'[fd] # <<>> => peer' # NULL /\ fd \in Current
    PROVE  Addressed'
<1>1. Current' = Current
    BY DEF Current
<1>2. OddInfo' = OddInfo /\ OddOrder' = OddOrder /\ EvenAnswer' = EvenAnswer
    BY <1>1 DEF OddInfo, OddOrder, EvenAnswer
<1> QED BY <1>1, <1>2 DEF Addressed

(* The parts an action leaves alone keep their types.                      *)
LEMMA AddressedParts ==
    ASSUME Addressed
    PROVE  /\ joining \in Seq(1 .. socket)
           /\ fd_to_client_info \in Seq(OddInfo)
           /\ sync_client \in Fds \cup {NULL}
           /\ orders \in Seq(OddOrder)
           /\ answers \in [Fds -> Seq(EvenAnswer)]
           /\ queued_syncs \in Seq(Even)
           /\ peer \in Current \cup {NULL}
           /\ \A fd \in Fds : answers[fd] # <<>> => peer # NULL /\ fd \in Current
           /\ Fds = 1 .. Len(fd_to_client_info) /\ Len(fd_to_client_info) \in Nat
           /\ NULL \notin Fds /\ Current \subseteq Fds
           /\ \A i \in DOMAIN orders : orders[i] \in OddOrder
           /\ \A fd \in Fds : \A i \in DOMAIN answers[fd] : answers[fd][i] \in EvenAnswer
           /\ \A fd \in Fds : fd_to_client_info[fd] \in OddInfo
<1>1. Fds = 1 .. Len(fd_to_client_info) /\ Len(fd_to_client_info) \in Nat
    BY DEF Addressed, Fds
<1>2. NULL \notin Fds /\ Current \subseteq Fds
    BY <1>1, ParametersAssumption DEF Current
<1>3. /\ \A i \in DOMAIN orders : orders[i] \in OddOrder
      /\ \A fd \in Fds : fd_to_client_info[fd] \in OddInfo
    BY DEF Addressed, Fds
<1>4. ASSUME NEW fd \in Fds, NEW i \in DOMAIN answers[fd]
      PROVE  answers[fd][i] \in EvenAnswer
    BY DEF Addressed
<1> QED BY <1>1, <1>2, <1>3, <1>4 DEF Addressed

(* A try on a fresh socket: nobody has its address, nothing is under way   *)
(* to it, and nobody has been answered so far.                             *)
LEMMA HandshakeAddressed ==
    ASSUME Always, SendHandshake
    PROVE  Addressed'
<1>1. /\ socket' = socket + 1 /\ joining' = Append(joining, socket')
      /\ orders' = IF socket' = socket THEN orders ELSE <<>>
      /\ state = "HANDSHAKE"
      /\ UNCHANGED <<peer, fd_to_client_info, sync_client, answers, queued_syncs>>
    BY DEF SendHandshake, NextSocket, server
<1>2. socket \in Nat /\ peer = NULL /\ Addressed
    BY <1>1 DEF Always, Counted, Tries
<1>3. 1 .. socket \subseteq 1 .. socket' /\ socket' \in 1 .. socket' /\ socket' # socket
    BY <1>1, <1>2
<1>4. joining' \in Seq(1 .. socket')
    <2>1. joining \in Seq(1 .. socket')
        BY <1>2, <1>3, SeqMonotonic DEF Addressed
    <2> QED BY <1>1, <1>3, <2>1, AppendProperties
<1>5. fd_to_client_info' \in Seq(OddInfo')
    <2>1. OddInfo \subseteq OddInfo'
        BY <1>3 DEF OddInfo
    <2> QED BY <1>1, <1>2, <2>1, SeqMonotonic DEF Addressed
<1>6. orders' \in Seq(OddOrder')
    BY <1>1, <1>3
<1>7. answers' \in [Fds' -> Seq(EvenAnswer')] /\ \A fd \in Fds' : answers'[fd] = <<>>
    BY <1>1, <1>2 DEF Addressed, EvenAnswer, Fds
<1> QED BY <1>1, <1>2, <1>4, <1>5, <1>6, <1>7 DEF Addressed, Fds

LEMMA TimeoutAddressed ==
    ASSUME Always, HandshakeTimeout \/ TwiddleCommand
    PROVE  Addressed'
<1>1. /\ UNCHANGED <<socket, peer, fd_to_client_info, sync_client, joining, answers, orders>>
      /\ queued_syncs' \in {queued_syncs, <<>>}
    BY DEF HandshakeTimeout, TwiddleCommand, UserTypes, server, network
<1>2. Addressed /\ Fds' = Fds
    BY <1>1 DEF Always, Fds
<1>3. queued_syncs' \in Seq(Even)
    <2>1. queued_syncs \in Seq(Even) /\ <<>> \in Seq(Even)
        BY <1>2, AddressedParts
    <2> QED BY <1>1, <2>1
<1> QED BY <1>1, <1>2, <1>3, AddressedParts, SameAddresses

(* Who is heard from has the current socket's address; its number is odd,  *)
(* and the client's next one even.                                         *)
LEMMA ReceivedFromCurrent ==
    ASSUME Addressed, NEW i \in DOMAIN orders, Receive(orders[i], i)
    PROVE  /\ orders' \in Seq(OddOrder)
           /\ seq_num' \in Even
           /\ peer' \in Current /\ peer' = orders[i].from
<1>1. orders \in Seq(OddOrder) /\ orders[i] \in OddOrder
    BY AddressedParts
<1>2. orders' \in Seq(OddOrder)
    BY <1>1, RemovedAt DEF Receive
<1>3. orders[i].seq_num \in Odd /\ orders[i].from \in Current
    BY <1>1 DEF OddOrder
<1> QED BY <1>2, <1>3, OddEven DEF Receive

(* An answer to a current fd.                                              *)
LEMMA AnswerSent ==
    ASSUME Addressed, NEW fd \in Current, NEW reply \in EvenAnswer,
           answers' = [answers EXCEPT ![fd] = Sent(@, reply)]
    PROVE  /\ answers' \in [Fds -> Seq(EvenAnswer)]
           /\ \A d \in Fds : answers'[d] # <<>> => d \in Current
<1>1. /\ answers \in [Fds -> Seq(EvenAnswer)] /\ fd \in Fds
      /\ \A d \in Fds : answers[d] # <<>> => d \in Current
    BY AddressedParts
<1>2. Sent(answers[fd], reply) \in Seq(EvenAnswer)
    BY <1>1, SentTypes
<1> QED BY <1>1, <1>2

LEMMA HandshakeAnswerAddressed ==
    ASSUME Always, HandshakeAnswer
    PROVE  Addressed'
<1>1. PICK i \in DOMAIN orders :
          /\ Receive(orders[i], i)
          /\ \/ answers' = [answers EXCEPT ![orders[i].from] =
                    Sent(@, [flag |-> "HS_FIN", seq_num |-> seq_num'])]
             \/ UNCHANGED answers
    BY DEF HandshakeAnswer, Deliverable
<1>2. UNCHANGED <<socket, queued_syncs, fd_to_client_info, sync_client, joining>>
    BY DEF HandshakeAnswer, server
<1>3. Addressed /\ Fds' = Fds
    BY <1>2 DEF Always, Fds
<1>4. /\ orders' \in Seq(OddOrder) /\ seq_num' \in Even
      /\ peer' \in Current /\ peer' = orders[i].from
    BY <1>1, <1>3, ReceivedFromCurrent
<1> DEFINE fin == [flag |-> "HS_FIN", seq_num |-> seq_num']
<1>5. fin \in EvenAnswer
    BY <1>4 DEF EvenAnswer
<1>6. answers' = [answers EXCEPT ![peer'] = Sent(@, fin)] \/ UNCHANGED answers
    BY <1>1, <1>4
<1> HIDE DEF fin
<1>7. /\ answers' \in [Fds -> Seq(EvenAnswer)]
      /\ \A fd \in Fds : answers'[fd] # <<>> => fd \in Current
    BY <1>3, <1>4, <1>5, <1>6, AnswerSent, AddressedParts
<1>8. peer' # NULL
    BY <1>3, <1>4, AddressedParts
<1> QED BY <1>2, <1>3, <1>4, <1>7, <1>8, AddressedParts, SameAddresses

LEMMA MaybeAnswerEven ==
    ASSUME Addressed, peer' \in Current, NEW queue \in Seq(Even), MaybeAnswer(queue)
    PROVE  /\ queued_syncs' \in Seq(Even)
           /\ answers' \in [Fds -> Seq(EvenAnswer)]
           /\ \A fd \in Fds : answers'[fd] # <<>> => fd \in Current
<1>1. CASE queued_syncs' = queue /\ UNCHANGED answers
    BY <1>1, AddressedParts
<1>2. CASE queue # <<>> /\ queued_syncs' = Tail(queue) /\ answers' = [answers EXCEPT ![peer'] =
             Sent(@, [flag |-> "SYNC_ACK", seq_num |-> Head(queue)])]
    <2> DEFINE ack == [flag |-> "SYNC_ACK", seq_num |-> Head(queue)]
    <2>1. Tail(queue) \in Seq(Even) /\ Head(queue) \in Even
        BY <1>2
    <2>2. ack \in EvenAnswer
        BY <2>1 DEF EvenAnswer
    <2>3. answers' = [answers EXCEPT ![peer'] = Sent(@, ack)]
        BY <1>2
    <2> HIDE DEF ack
    <2> QED BY <1>2, <2>1, <2>2, <2>3, AnswerSent
<1> QED BY <1>1, <1>2 DEF MaybeAnswer

LEMMA TwiddleAddressed ==
    ASSUME Always, TwiddlePacket
    PROVE  Addressed'
<1>1. PICK i \in DOMAIN orders :
          /\ Receive(orders[i], i)
          /\ \/ MaybeAnswer(Append(queued_syncs, seq_num'))
             \/ MaybeAnswer(queued_syncs)
             \/ UNCHANGED <<queued_syncs, answers>>
    BY DEF TwiddlePacket, Deliverable
<1>2. UNCHANGED <<socket, fd_to_client_info, sync_client, joining>>
    BY DEF TwiddlePacket, server
<1>3. Addressed /\ Fds' = Fds
    BY <1>2 DEF Always, Fds
<1>4. orders' \in Seq(OddOrder) /\ seq_num' \in Even /\ peer' \in Current
    BY <1>1, <1>3, ReceivedFromCurrent
<1>5. queued_syncs \in Seq(Even) /\ Append(queued_syncs, seq_num') \in Seq(Even)
    BY <1>3, <1>4, AddressedParts, AppendProperties
<1>6. /\ queued_syncs' \in Seq(Even)
      /\ answers' \in [Fds -> Seq(EvenAnswer)]
      /\ \A fd \in Fds : answers'[fd] # <<>> => fd \in Current
    <2>1. CASE \E queue \in Seq(Even) : MaybeAnswer(queue)
        BY <1>3, <1>4, <2>1, MaybeAnswerEven
    <2>2. CASE UNCHANGED <<queued_syncs, answers>>
        BY <1>3, <2>2, AddressedParts
    <2> QED BY <1>1, <1>5, <2>1, <2>2
<1>7. peer' # NULL
    BY <1>3, <1>4, AddressedParts
<1> QED BY <1>2, <1>3, <1>4, <1>6, <1>7, AddressedParts, SameAddresses

LEMMA TwiddleAnswerAddressed ==
    ASSUME Always, TwiddleAnswer
    PROVE  Addressed'
<1>1. /\ UNCHANGED <<socket, peer, fd_to_client_info, sync_client, joining, orders>>
      /\ state = "TWIDDLE" /\ MaybeAnswer(queued_syncs)
    BY DEF TwiddleAnswer, server
<1>2. Addressed /\ Fds' = Fds /\ peer # NULL
    BY <1>1 DEF Always, Tries, Fds
<1>3. peer' \in Current /\ queued_syncs \in Seq(Even)
    BY <1>1, <1>2, AddressedParts
<1>4. /\ queued_syncs' \in Seq(Even)
      /\ answers' \in [Fds -> Seq(EvenAnswer)]
      /\ \A fd \in Fds : answers'[fd] # <<>> => fd \in Current
    BY <1>1, <1>2, <1>3, MaybeAnswerEven
<1> QED BY <1>1, <1>2, <1>3, <1>4, AddressedParts, SameAddresses

(* The fd of a new client: nothing is sent by it, and it is synced at most *)
(* if it is the first; what it is sent has number 1.                       *)
LEMMA NewClientAddressed ==
    ASSUME Always, HandleNewClient
    PROVE  Addressed'
<1> DEFINE fd == Len(fd_to_client_info) + 1
<1>1. PICK i \in DOMAIN joining :
        LET infos == Append(fd_to_client_info,
                            [addr |-> joining[i], seq_num |-> 1, expected_seq_num |-> 2])
        IN  /\ joining' = RemoveAt(joining, i)
            /\ fd_to_client_info' = infos
            /\ orders' = Greeted(fd, infos)
            /\ answers' = Append(answers, <<>>)
            /\ sync_client' = IF fd = 1 THEN fd ELSE sync_client
            /\ UNCHANGED <<socket, peer, queued_syncs>>
    BY DEF HandleNewClient, Deliverable, program
<1>2. Addressed
    BY DEF Always
<1> DEFINE info == [addr |-> joining[i], seq_num |-> 1, expected_seq_num |-> 2]
<1>3. joining \in Seq(1 .. socket) /\ joining[i] \in 1 .. socket
    <2>1. joining \in Seq(1 .. socket)
        BY <1>2, AddressedParts
    <2>2. i \in 1 .. Len(joining)
        BY <2>1, LenProperties
    <2> QED BY <2>1, <2>2, ElementOfSeq
<1>4. info \in OddInfo /\ info.addr = joining[i] /\ info.seq_num = 1
    BY <1>3, OddEven DEF OddInfo
<1>5. fd_to_client_info' = Append(fd_to_client_info, info)
    BY <1>1
<1> HIDE DEF info
<1>6. /\ fd_to_client_info' \in Seq(OddInfo) /\ Fds' = 1 .. fd
      /\ fd_to_client_info'[fd] = info
      /\ \A c \in Fds : fd_to_client_info'[c] = fd_to_client_info[c]
    BY <1>2, <1>4, <1>5, AddressedParts, AppendProperties DEF Fds
<1>7. Fds' = Fds \cup {fd} /\ fd \notin Fds /\ fd \in Nat
    BY <1>2, <1>6, AddressedParts
<1>8. /\ Current \subseteq Current'
      /\ info.addr = socket => fd \in Current'
    BY <1>1, <1>6, <1>7 DEF Current
<1>9. OddInfo' = OddInfo /\ EvenAnswer' = EvenAnswer /\ OddOrder \subseteq OddOrder'
    BY <1>1, <1>8 DEF OddInfo, EvenAnswer, OddOrder
<1>10. joining' \in Seq(1 .. socket)
    BY <1>1, <1>3, RemovedAt
<1>11. orders' \in Seq(OddOrder')
    <2> DEFINE good  == [flag |-> "HS_GOOD", seq_num |-> info.seq_num, from |-> fd]
               sync  == [flag |-> "SYNC", seq_num |-> info.seq_num, from |-> fd]
    <2>1. info.addr = socket => good \in OddOrder' /\ sync \in OddOrder'
        BY <1>4, <1>8, OddEven DEF OddOrder
    <2>2. orders' = IF fd = 1 THEN SentTo(info, SentTo(info, orders, good), sync)
                    ELSE SentTo(info, orders, good)
        <3>1. orders' = Greeted(fd, fd_to_client_info')
            BY <1>1
        <3> HIDE DEF fd
        <3> QED BY <1>6, <3>1 DEF Greeted, SyncTo
    <2>3. orders \in Seq(OddOrder')
        BY <1>2, <1>9, AddressedParts, SeqMonotonic
    <2> HIDE DEF good, sync, fd
    <2>4. SentTo(info, orders, good) \in Seq(OddOrder')
        BY <2>1, <2>3, OrderSent
    <2>5. SentTo(info, SentTo(info, orders, good), sync) \in Seq(OddOrder')
        BY <2>1, <2>4, OrderSent
    <2> QED BY <2>2, <2>4, <2>5
<1>12. /\ answers' \in [Fds' -> Seq(EvenAnswer)]
       /\ \A c \in Fds' : answers'[c] # <<>> => peer' # NULL /\ c \in Current'
    <2>1. /\ answers \in [Fds -> Seq(EvenAnswer)] /\ Fds = 1 .. Len(fd_to_client_info)
          /\ Len(fd_to_client_info) \in Nat
          /\ \A c \in Fds : answers[c] # <<>> => peer # NULL /\ c \in Current
        BY <1>2, AddressedParts
    <2>2. answers \in Seq(Seq(EvenAnswer)) /\ Len(answers) = Len(fd_to_client_info)
        BY <2>1
    <2>3. <<>> \in Seq(EvenAnswer) /\ answers' = Append(answers, <<>>)
        BY <1>1
    <2>4. /\ answers' \in Seq(Seq(EvenAnswer)) /\ Len(answers') = fd
          /\ \A c \in Fds : answers'[c] = answers[c]
          /\ answers'[fd] = <<>>
        BY <2>1, <2>2, <2>3, AppendProperties
    <2>5. answers' \in [Fds' -> Seq(EvenAnswer)]
        BY <1>6, <2>4
    <2> QED BY <1>1, <1>7, <1>8, <2>1, <2>4, <2>5
<1>13. sync_client' \in Fds' \cup {NULL}
    BY <1>1, <1>2, <1>7, AddressedParts
<1>14. peer' \in Current' \cup {NULL} /\ queued_syncs' \in Seq(Even) /\ socket' = socket
    BY <1>1, <1>2, <1>8, AddressedParts
<1> QED BY <1>6, <1>9, <1>10, <1>11, <1>12, <1>13, <1>14 DEF Addressed

(* New sequence numbers that are odd and an old address.                   *)
LEMMA Renumbered ==
    ASSUME Addressed, NEW c \in Fds, NEW info \in OddInfo,
           info.addr = fd_to_client_info[c].addr,
           fd_to_client_info' = [fd_to_client_info EXCEPT ![c] = info]
    PROVE  /\ fd_to_client_info' \in Seq(OddInfo) /\ Fds' = Fds
           /\ \A d \in Fds : fd_to_client_info'[d].addr = fd_to_client_info[d].addr
<1>1. fd_to_client_info \in Seq(OddInfo) /\ c \in 1 .. Len(fd_to_client_info)
    BY AddressedParts
<1> QED BY <1>1 DEF Fds

LEMMA SyncIsOdd ==
    ASSUME Addressed, NEW c \in Fds, fd_to_client_info' \in Seq(OddInfo), Fds' = Fds,
           \A d \in Fds : fd_to_client_info'[d].addr = fd_to_client_info[d].addr,
           orders' = SyncTo(c, fd_to_client_info', orders)
    PROVE  orders' \in Seq(OddOrder)
<1> DEFINE info == fd_to_client_info'[c]
           sync == [flag |-> "SYNC", seq_num |-> info.seq_num, from |-> c]
<1>1. info \in OddInfo /\ (info.addr = socket => c \in Current)
    <2>1. c \in DOMAIN fd_to_client_info'
        BY DEF Fds
    <2> QED BY <2>1 DEF Current
<1>2. info.addr = socket => sync \in OddOrder
    BY <1>1 DEF OddOrder, OddInfo
<1>3. orders' = SentTo(info, orders, sync)
    BY DEF SyncTo
<1> HIDE DEF info, sync
<1> QED BY <1>2, <1>3, OrderSent, AddressedParts

LEMMA SyncTimeoutAddressed ==
    ASSUME Always, HandleSyncTimeout
    PROVE  Addressed'
<1>1. PICK c \in Fds : sync_client' = c /\ orders' = SyncTo(c, fd_to_client_info, orders)
    BY DEF HandleSyncTimeout, NextSync
<1>2. UNCHANGED <<socket, peer, queued_syncs, fd_to_client_info, joining, answers>>
    BY DEF HandleSyncTimeout, program
<1>3. Addressed /\ Fds' = Fds
    BY <1>2 DEF Always, Fds
<1>4. orders' \in Seq(OddOrder)
    BY <1>1, <1>2, <1>3, AddressedParts, SyncIsOdd
<1> QED BY <1>1, <1>2, <1>3, <1>4, AddressedParts, SameAddresses

(* A reply sets the numbers of its fd, to an odd one again.                *)
LEMMA PriorityMsgAddressed ==
    ASSUME Always, HandlePriorityMsg
    PROVE  Addressed'
<1>1. PICK i \in DOMAIN answers[sync_client] :
          LET reply == answers[sync_client][i]
              infos == [fd_to_client_info EXCEPT
                           ![sync_client].seq_num = reply.seq_num + 1,
                           ![sync_client].expected_seq_num = reply.seq_num + 2]
          IN  /\ answers' = [answers EXCEPT ![sync_client] = RemoveAt(@, i)]
              /\ fd_to_client_info' = infos
              /\ \/ NextSync(infos)
                 \/ UNCHANGED <<sync_client, orders>>
    BY DEF HandlePriorityMsg, Deliverable
<1>2. UNCHANGED <<socket, peer, queued_syncs, joining>> /\ sync_client # NULL /\ Addressed
    BY DEF HandlePriorityMsg, program, Always
<1>3. /\ answers \in [Fds -> Seq(EvenAnswer)] /\ sync_client \in Fds
      /\ answers[sync_client] \in Seq(EvenAnswer)
      /\ answers[sync_client][i] \in EvenAnswer
      /\ fd_to_client_info[sync_client] \in OddInfo
    BY <1>2, AddressedParts
<1> DEFINE a    == answers[sync_client][i].seq_num + 1
           b    == answers[sync_client][i].seq_num + 2
           info == [fd_to_client_info[sync_client] EXCEPT !.seq_num = a, !.expected_seq_num = b]
<1>4. a \in Odd /\ b \in Nat
    <2>1. answers[sync_client][i].seq_num \in Even
        BY <1>3 DEF EvenAnswer
    <2>2. b \in Even
        BY <2>1, OddEven
    <2> QED BY <2>1, <2>2, OddEven
<1>5. info \in OddInfo /\ info.addr = fd_to_client_info[sync_client].addr
    <2> HIDE DEF a, b
    <2> QED BY <1>3, <1>4 DEF OddInfo
<1>6. fd_to_client_info' = [fd_to_client_info EXCEPT ![sync_client] = info]
    <2>1. fd_to_client_info' = [fd_to_client_info EXCEPT ![sync_client].seq_num = a,
                                                        ![sync_client].expected_seq_num = b]
        BY <1>1
    <2> HIDE DEF a, b
    <2> QED BY <2>1
<1> HIDE DEF a, b, info
<1>7. /\ fd_to_client_info' \in Seq(OddInfo) /\ Fds' = Fds
      /\ \A d \in Fds : fd_to_client_info'[d].addr = fd_to_client_info[d].addr
    BY <1>2, <1>3, <1>5, <1>6, Renumbered
<1>8. /\ answers' \in [Fds -> Seq(EvenAnswer)]
      /\ \A fd \in Fds : answers'[fd] # <<>> => peer # NULL /\ fd \in Current
    <2>1. RemoveAt(answers[sync_client], i) \in Seq(EvenAnswer) /\ answers[sync_client] # <<>>
        BY <1>3, RemovedAt
    <2>2. answers' = [answers EXCEPT ![sync_client] = RemoveAt(answers[sync_client], i)]
        BY <1>1
    <2>3. \A fd \in Fds : answers[fd] # <<>> => peer # NULL /\ fd \in Current
        BY <1>2, AddressedParts
    <2> QED BY <1>3, <2>1, <2>2, <2>3
<1>9. sync_client' \in Fds \cup {NULL} /\ orders' \in Seq(OddOrder)
    <2>1. NextSync(fd_to_client_info') \/ UNCHANGED <<sync_client, orders>>
        BY <1>1
    <2>2. CASE NextSync(fd_to_client_info')
        BY <1>2, <1>7, <2>2, SyncIsOdd DEF NextSync
    <2>3. CASE UNCHANGED <<sync_client, orders>>
        BY <1>2, <2>3, AddressedParts
    <2> QED BY <2>1, <2>2, <2>3
<1> QED BY <1>2, <1>7, <1>8, <1>9, AddressedParts, SameAddresses

LEMMA MidiAddressed ==
    ASSUME Always, NEW c \in Fds, SendMidiMsg(c)
    PROVE  Addressed'
<1> DEFINE old  == fd_to_client_info[c]
           info == [old EXCEPT !.seq_num = old.seq_num + 2]
           midi == [flag |-> "MIDI", seq_num |-> old.seq_num, from |-> c]
<1>1. /\ UNCHANGED <<socket, peer, queued_syncs, joining, sync_client, answers>>
      /\ orders' = SentTo(old, orders, midi)
      /\ fd_to_client_info' = [fd_to_client_info EXCEPT ![c] = info]
    BY DEF SendMidiMsg, program
<1>2. Addressed
    BY DEF Always
<1>3. old \in OddInfo /\ old.seq_num \in Odd
    BY <1>2, AddressedParts DEF OddInfo
<1>4. info \in OddInfo /\ info.addr = old.addr
    BY <1>3, OddEven DEF OddInfo
<1>5. old.addr = socket => midi \in OddOrder
    BY <1>3 DEF OddOrder, Current
<1> HIDE DEF info, midi
<1>6. orders' \in Seq(OddOrder)
    BY <1>1, <1>2, <1>5, OrderSent, AddressedParts
<1>7. /\ fd_to_client_info' \in Seq(OddInfo) /\ Fds' = Fds
      /\ \A d \in Fds : fd_to_client_info'[d].addr = fd_to_client_info[d].addr
    BY <1>1, <1>2, <1>4, Renumbered
<1> QED BY <1>1, <1>2, <1>6, <1>7, AddressedParts, SameAddresses

(* A loss or a duplicate of something under way is of the same kind.       *)
LEMMA FaultAddressed ==
    ASSUME Always, Lose \/ Duplicate
    PROVE  Addressed'
<1>1. UNCHANGED <<socket, peer, queued_syncs, fd_to_client_info, sync_client>>
    BY DEF Lose, Duplicate, program, server
<1>2. Addressed /\ Fds' = Fds
    BY <1>1 DEF Always, Fds
<1>3. ASSUME NEW S, NEW queue \in Seq(S), NEW i \in DOMAIN queue
      PROVE  RemoveAt(queue, i) \in Seq(S) /\ Append(queue, queue[i]) \in Seq(S) /\ queue # <<>>
    <2>1. queue[i] \in S
        OBVIOUS
    <2> QED BY <2>1, RemovedAt, AppendProperties
<1>4. ASSUME NEW i \in DOMAIN joining,
             joining' = RemoveAt(joining, i) \/ joining' = Append(joining, joining[i]),
             UNCHANGED <<answers, orders>>
      PROVE  Addressed'
    <2>1. joining' \in Seq(1 .. socket)
        <3>1. joining \in Seq(1 .. socket)
            BY <1>2, AddressedParts
        <3> QED BY <1>3, <1>4, <3>1
    <2> QED BY <1>1, <1>2, <1>4, <2>1, AddressedParts, SameAddresses
<1>5. ASSUME NEW fd \in Fds, NEW i \in DOMAIN answers[fd],
             \/ answers' = [answers EXCEPT ![fd] = RemoveAt(@, i)]
             \/ answers' = [answers EXCEPT ![fd] = Append(@, @[i])],
             UNCHANGED <<joining, orders>>
      PROVE  Addressed'
    <2>1. /\ answers \in [Fds -> Seq(EvenAnswer)] /\ answers[fd] \in Seq(EvenAnswer)
          /\ \A d \in Fds : answers[d] # <<>> => peer # NULL /\ d \in Current
        BY <1>2, AddressedParts
    <2>2. /\ RemoveAt(answers[fd], i) \in Seq(EvenAnswer)
          /\ Append(answers[fd], answers[fd][i]) \in Seq(EvenAnswer)
          /\ answers[fd] # <<>>
        BY <1>3, <2>1
    <2>3. /\ answers' \in [Fds -> Seq(EvenAnswer)]
          /\ \A d \in Fds : answers'[d] # <<>> => peer # NULL /\ d \in Current
        BY <1>5, <2>1, <2>2
    <2> QED BY <1>1, <1>2, <1>5, <2>3, AddressedParts, SameAddresses
<1>6. ASSUME NEW i \in DOMAIN orders,
             orders' = RemoveAt(orders, i) \/ orders' = Append(orders, orders[i]),
             UNCHANGED <<joining, answers>>
      PROVE  Addressed'
    <2>1. orders' \in Seq(OddOrder)
        <3>1. orders \in Seq(OddOrder)
            BY <1>2, AddressedParts
        <3> QED BY <1>3, <1>6, <3>1
    <2> QED BY <1>1, <1>2, <1>6, <2>1, AddressedParts, SameAddresses
<1> QED BY <1>4, <1>5, <1>6 DEF Lose, Duplicate

(* In every reachable state, with every fault a network may make. *)
THEOREM AlwaysInvariant == Spec => []Always
<1>1. ASSUME Always, [Next]_vars
      PROVE  Addressed'
    <2>1. CASE UNCHANGED vars
        BY <1>1, <2>1 DEF Always, Addressed, vars, program, server, network, Fds, Current,
                          OddInfo, OddOrder, EvenAnswer
    <2> QED BY <1>1, <2>1, HandshakeAddressed, TimeoutAddressed, HandshakeAnswerAddressed,
               TwiddleAddressed, TwiddleAnswerAddressed, NewClientAddressed,
               PriorityMsgAddressed, SyncTimeoutAddressed, MidiAddressed, FaultAddressed
            DEF Next
<1>2. Always /\ [Next]_vars => Always'
    BY <1>1, CountedKept, ShapesKept DEF Always
<1> QED BY <1>2, AlwaysInitially, PTL DEF Spec

(* Every variable of the program, the server and the network has its type  *)
(* on any network; above all, no more fds than tries and duplicates.       *)
THEOREM TypesStay == Spec => []TypeOK
<1>1. Always => TypeOK
    <2> SUFFICES ASSUME Always
                 PROVE  TypeOK
        OBVIOUS
    <2>1. Addressed /\ Counted /\ Shapes
        BY DEF Always
    <2>2. Odd \subseteq Nat /\ Even \subseteq Nat
        BY DEF Odd, Even
    <2>3. socket \in {0} \cup Socket /\ 1 .. socket \subseteq Socket
        BY <2>1, ParametersAssumption DEF Counted, Socket
    <2>4. /\ joining \in Seq(Socket) /\ queued_syncs \in Seq(Nat)
        BY <2>1, <2>2, <2>3, AddressedParts, SeqMonotonic
    <2>5. fd_to_client_info \in Seq([addr : Socket, seq_num : Nat, expected_seq_num : Nat])
        <3>1. OddInfo \subseteq [addr : Socket, seq_num : Nat, expected_seq_num : Nat]
            BY <2>2, <2>3 DEF OddInfo
        <3> QED BY <2>1, <3>1, AddressedParts, SeqMonotonic
    <2>6. orders \in Seq(Packet)
        <3>1. Current \subseteq Nat \ {0}
            BY <2>1, AddressedParts
        <3>2. OddOrder \subseteq Packet
            BY <2>2, <3>1 DEF OddOrder, Packet
        <3> QED BY <2>1, <3>2, AddressedParts, SeqMonotonic
    <2>7. answers \in [Fds -> Seq(Reply)]
        <3>1. EvenAnswer \subseteq Reply
            BY <2>2 DEF EvenAnswer, Reply
        <3>2. answers \in [Fds -> Seq(EvenAnswer)]
            BY <2>1, AddressedParts
        <3>3. \A fd \in Fds : answers[fd] \in Seq(Reply)
            BY <3>1, <3>2, SeqMonotonic
        <3> QED BY <3>2, <3>3
    <2>8. peer \in Fds \cup {NULL} /\ sync_client \in Fds \cup {NULL}
        BY <2>1, AddressedParts
    <2>9. Len(fd_to_client_info) <= socket + duplicated
        BY <2>1, <2>4, AddressedParts DEF Counted
    <2> QED BY <2>1, <2>3, <2>4, <2>5, <2>6, <2>7, <2>8, <2>9 DEF TypeOK, Counted, Shapes
<1> QED BY <1>1, AlwaysInvariant, PTL

(* Whatever the network does, an fd of an earlier try hears nothing.       *)
THEOREM PhantomsStaySilent == Spec => []PhantomsHearNothing
<1>1. Always => PhantomsHearNothing
    BY DEF Always, Addressed, PhantomsHearNothing, Current
<1> QED BY <1>1, AlwaysInvariant, PTL

(* Whatever the network does, numbers tell who sent a datagram.            *)
THEOREM NumbersAlwaysTell == Spec => []NumbersTellSides
<1>1. Always => NumbersTellSides
    <2> SUFFICES ASSUME Always
                 PROVE  NumbersTellSides
        OBVIOUS
    <2>1. Addressed
        BY DEF Always
    <2>2. /\ \A i \in DOMAIN orders : orders[i].seq_num \in Odd
          /\ \A fd \in Fds : \A i \in DOMAIN answers[fd] : answers[fd][i].seq_num \in Even
        BY <2>1, AddressedParts DEF OddOrder, EvenAnswer
    <2> QED BY <2>2 DEF NumbersTellSides, Odd, Even
<1> QED BY <1>1, AlwaysInvariant, PTL

----------------------------------------------------------------------------
(* As long as nothing has gone wrong: a client that waits for its first    *)
(* answer has an HS_GOOD in front of all else as soon as the server knows  *)
(* its socket.                                                             *)
GoodFirst ==
    state = "HANDSHAKE" /\ (Current # {} \/ orders # <<>>) =>
        orders # <<>> /\ Good(orders[1])

WhenNothingGoesWrong == Faults = 0 => GoodFirst /\ end # "fell through"

LEMMA NoneOfThree ==
    ASSUME NEW a \in Nat, NEW b \in Nat, NEW c \in Nat, a + b + c = 0
    PROVE  a = 0 /\ b = 0 /\ c = 0
OBVIOUS

(* Faults only grow, and where none has happened the oldest is delivered.  *)
LEMMA NoFaultYet ==
    ASSUME Always, [Next]_vars, Faults' = 0
    PROVE  Faults = 0 /\ duplicated = 0 /\ ~Lose /\ ~Duplicate
<1>1. lost \in Nat /\ duplicated \in Nat /\ reordered \in Nat
    BY DEF Always, Counted
<1>2. lost' \in Nat /\ duplicated' \in Nat /\ reordered' \in Nat
    BY CountedKept DEF Counted
<1>3. lost' = 0 /\ duplicated' = 0 /\ reordered' = 0
    <2>1. Faults' = lost' + duplicated' + reordered'
        BY DEF Faults
    <2> QED BY <1>2, <2>1, NoneOfThree
<1>4. lost' \in {lost, lost + 1} /\ duplicated' \in {duplicated, duplicated + 1}
      /\ reordered' \in {reordered, reordered + 1}
    <2>1. CASE HandshakeAnswer \/ TwiddlePacket \/ HandleNewClient \/ HandlePriorityMsg
        BY <2>1 DEF HandshakeAnswer, TwiddlePacket, HandleNewClient, HandlePriorityMsg,
                    Receive, Overtakes, faults
    <2>2. CASE SendHandshake \/ HandshakeTimeout \/ TwiddleAnswer \/ TwiddleCommand
               \/ HandleSyncTimeout \/ (\E c \in Fds : SendMidiMsg(c)) \/ UNCHANGED vars
        BY <2>2 DEF SendHandshake, HandshakeTimeout, TwiddleAnswer, TwiddleCommand,
                    HandleSyncTimeout, SendMidiMsg, vars, network, faults
    <2>3. CASE Lose \/ Duplicate
        BY <2>3 DEF Lose, Duplicate
    <2> QED BY <2>1, <2>2, <2>3 DEF Next
<1>5. ~Lose /\ ~Duplicate
    BY <1>1, <1>3 DEF Lose, Duplicate
<1> QED BY <1>1, <1>3, <1>4, <1>5 DEF Faults

LEMMA FirstStays ==
    ASSUME NEW S, NEW queue \in Seq(S), queue # <<>>, NEW d, NEW info
    PROVE  SentTo(info, queue, d) # <<>> /\ SentTo(info, queue, d)[1] = queue[1]
<1>1. queue \in Seq(S \cup {d}) /\ d \in S \cup {d} /\ Len(queue) \in Nat \ {0}
    BY SeqMonotonic, EmptySeq
<1>2. /\ Append(queue, d) \in Seq(S \cup {d}) /\ Append(queue, d) # <<>>
      /\ Append(queue, d)[1] = queue[1]
    BY <1>1, AppendProperties
<1> QED BY <1>2 DEF SentTo, Sent

(* SYNCs and MIDI messages queue up behind it.                             *)
LEMMA TrafficKeepsFirst ==
    ASSUME Addressed, GoodFirst, UNCHANGED <<state, socket>>, Fds' = Fds,
           \A d \in Fds : fd_to_client_info'[d].addr = fd_to_client_info[d].addr,
           \/ UNCHANGED orders
           \/ \E c \in Fds : \E packet : orders' = SentTo(fd_to_client_info'[c], orders, packet)
    PROVE  GoodFirst'
<1>1. Current' = Current /\ orders \in Seq(OddOrder)
    BY AddressedParts DEF Current
<1>2. CASE UNCHANGED orders
    BY <1>1, <1>2 DEF GoodFirst
<1>3. ASSUME NEW c \in Fds, NEW packet, orders' = SentTo(fd_to_client_info'[c], orders, packet)
      PROVE  GoodFirst'
    <2>1. CASE orders # <<>>
        <3>1. orders' # <<>> /\ orders'[1] = orders[1]
            BY <1>1, <1>3, <2>1, FirstStays
        <3> QED BY <1>1, <2>1, <3>1 DEF GoodFirst
    <2>2. CASE fd_to_client_info'[c].addr # socket
        BY <1>1, <1>3, <2>2 DEF GoodFirst, SentTo
    <2>3. CASE fd_to_client_info'[c].addr = socket /\ orders = <<>>
        <3>1. c \in Current
            BY <2>3 DEF Current
        <3> QED BY <2>3, <3>1 DEF GoodFirst
    <2> QED BY <2>1, <2>2, <2>3
<1> QED BY <1>2, <1>3

LEMMA ServerKeepsFirst ==
    ASSUME Always, GoodFirst,
           HandlePriorityMsg \/ HandleSyncTimeout \/ \E c \in Fds : SendMidiMsg(c)
    PROVE  GoodFirst' /\ UNCHANGED end
<1>1. Addressed
    BY DEF Always
<1>2. UNCHANGED <<state, socket, end>>
    BY DEF HandlePriorityMsg, HandleSyncTimeout, SendMidiMsg, program
<1>3. ASSUME NEW infos, NextSync(infos), fd_to_client_info' = infos
      PROVE  \E c \in Fds : \E packet : orders' = SentTo(fd_to_client_info'[c], orders, packet)
    BY <1>3 DEF NextSync, SyncTo
<1>4. CASE HandlePriorityMsg
    <2>1. PICK i : LET infos == [fd_to_client_info EXCEPT
                                    ![sync_client].seq_num = answers[sync_client][i].seq_num + 1,
                                    ![sync_client].expected_seq_num =
                                        answers[sync_client][i].seq_num + 2]
                   IN  fd_to_client_info' = infos /\ (NextSync(infos) \/ UNCHANGED orders)
        BY <1>4 DEF HandlePriorityMsg
    <2>2. sync_client \in Fds
        BY <1>1, <1>4, AddressedParts DEF HandlePriorityMsg
    <2>3. Fds' = Fds /\ \A d \in Fds : fd_to_client_info'[d].addr = fd_to_client_info[d].addr
        <3> DEFINE a == answers[sync_client][i].seq_num + 1
                   b == answers[sync_client][i].seq_num + 2
        <3>1. fd_to_client_info' = [fd_to_client_info EXCEPT ![sync_client].seq_num = a,
                                                            ![sync_client].expected_seq_num = b]
            BY <2>1
        <3>2. \A d \in Fds : fd_to_client_info[d] \in OddInfo
            BY <1>1, AddressedParts
        <3> HIDE DEF a, b
        <3> QED BY <2>2, <3>1, <3>2 DEF Fds, OddInfo
    <2>4. UNCHANGED orders \/ \E c \in Fds : \E packet : orders' = SentTo(fd_to_client_info'[c], orders, packet)
        BY <1>3, <2>1
    <2> QED BY <1>1, <1>2, <2>3, <2>4, TrafficKeepsFirst
<1>5. CASE HandleSyncTimeout
    <2>1. NextSync(fd_to_client_info) /\ UNCHANGED fd_to_client_info
        BY <1>5 DEF HandleSyncTimeout
    <2>2. \E c \in Fds : \E packet : orders' = SentTo(fd_to_client_info'[c], orders, packet)
        BY <1>3, <2>1
    <2>3. Fds' = Fds
        BY <2>1 DEF Fds
    <2> QED BY <1>1, <1>2, <2>1, <2>2, <2>3, TrafficKeepsFirst
<1>6. ASSUME NEW c \in Fds, SendMidiMsg(c)
      PROVE  GoodFirst'
    <2> DEFINE old == fd_to_client_info[c]
    <2>1. /\ \E packet : orders' = SentTo(old, orders, packet)
          /\ fd_to_client_info' = [fd_to_client_info EXCEPT ![c].seq_num = @ + 2]
        BY <1>6 DEF SendMidiMsg
    <2>2. \A d \in Fds : fd_to_client_info[d] \in OddInfo
        BY <1>1, AddressedParts
    <2>3. Fds' = Fds /\ \A d \in Fds : fd_to_client_info'[d].addr = fd_to_client_info[d].addr
        BY <2>1, <2>2 DEF Fds, OddInfo
    <2>4. \E packet : orders' = SentTo(fd_to_client_info'[c], orders, packet)
        BY <2>1, <2>3 DEF SentTo
    <2> QED BY <1>1, <1>2, <2>3, <2>4, TrafficKeepsFirst
<1> QED BY <1>2, <1>4, <1>5, <1>6

(* The HS of the client's current try is greeted with an HS_GOOD in an     *)
(* empty queue; to the client its earlier ones are of no consequence.      *)
LEMMA NewClientKeepsFirst ==
    ASSUME Always, IInv, GoodFirst, HandleNewClient
    PROVE  GoodFirst' /\ UNCHANGED end
<1> DEFINE fd == Len(fd_to_client_info) + 1
<1>1. PICK i \in DOMAIN joining :
        LET infos == Append(fd_to_client_info,
                            [addr |-> joining[i], seq_num |-> 1, expected_seq_num |-> 2])
        IN  /\ fd_to_client_info' = infos
            /\ orders' = Greeted(fd, infos)
            /\ UNCHANGED <<state, socket, end>>
    BY DEF HandleNewClient, Deliverable, program
<1> DEFINE info == [addr |-> joining[i], seq_num |-> 1, expected_seq_num |-> 2]
<1>2. /\ fd_to_client_info \in Seq(OddInfo) /\ Fds = 1 .. Len(fd_to_client_info)
      /\ orders \in Seq(OddOrder) /\ Len(fd_to_client_info) \in Nat
    BY AddressedParts DEF Always
<1>3. info.addr = joining[i] /\ fd_to_client_info' = Append(fd_to_client_info, info)
    BY <1>1
<1>4. fd_to_client_info'[fd] = info /\ Fds' = Fds \cup {fd}
      /\ \A c \in Fds : fd_to_client_info'[c] = fd_to_client_info[c]
    <2>1. fd_to_client_info \in Seq(OddInfo \cup {info}) /\ info \in OddInfo \cup {info}
        BY <1>2, SeqMonotonic
    <2> HIDE DEF info
    <2>2. /\ Append(fd_to_client_info, info) \in Seq(OddInfo \cup {info})
          /\ Len(Append(fd_to_client_info, info)) = fd
          /\ Append(fd_to_client_info, info)[fd] = info
          /\ \A c \in 1 .. Len(fd_to_client_info) :
                Append(fd_to_client_info, info)[c] = fd_to_client_info[c]
        BY <2>1, AppendProperties
    <2>3. Fds' = 1 .. fd
        BY <1>3, <2>2 DEF Fds
    <2> QED BY <1>2, <1>3, <2>2, <2>3
<1> HIDE DEF info
<1> DEFINE good == [flag |-> "HS_GOOD", seq_num |-> info.seq_num, from |-> fd]
           sync == [flag |-> "SYNC", seq_num |-> info.seq_num, from |-> fd]
<1>5. orders' = IF fd = 1 THEN SentTo(info, SentTo(info, orders, good), sync)
                ELSE SentTo(info, orders, good)
    <2>1. orders' = Greeted(fd, fd_to_client_info')
        BY <1>1
    <2> HIDE DEF fd
    <2> QED BY <1>4, <2>1 DEF Greeted, SyncTo
<1>6. CASE joining[i] # socket
    <2>1. orders' = orders
        BY <1>3, <1>5, <1>6 DEF SentTo
    <2>2. Current' = Current
        BY <1>1, <1>3, <1>4, <1>6 DEF Current
    <2> QED BY <1>1, <2>1, <2>2 DEF GoodFirst
<1>7. CASE joining[i] = socket
    <2>1. Current = {}
        BY <1>7 DEF IInv, FreshSockets, Current
    <2>2. orders = <<>>
        <3>1. \A j \in DOMAIN orders : FALSE
            BY <2>1, AddressedParts DEF Always, OddOrder
        <3> QED BY <1>2, <3>1
    <2>3. Good(good)
        BY DEF Good
    <2> HIDE DEF good, sync, fd
    <2>4. SentTo(info, orders, good) = <<good>>
        BY <1>3, <1>7, <2>2, ParametersAssumption DEF SentTo, Sent
    <2>5. <<good>> \in Seq({good}) /\ <<good>> # <<>> /\ <<good>>[1] = good
        OBVIOUS
    <2>6. orders' # <<>> /\ orders'[1] = good
        BY <1>5, <2>4, <2>5, FirstStays
    <2> QED BY <1>1, <2>3, <2>6 DEF GoodFirst
<1> QED BY <1>1, <1>6, <1>7

LEMMA HandshakeKeepsFirst ==
    ASSUME Always, SendHandshake
    PROVE  GoodFirst' /\ UNCHANGED end
<1>1. socket \in Nat
    BY ParametersAssumption DEF Always, Counted
<1>2. /\ socket' = socket + 1 /\ UNCHANGED <<fd_to_client_info, end>>
      /\ orders' = IF socket' = socket THEN orders ELSE <<>>
    BY DEF SendHandshake, NextSocket, server
<1>3. orders' = <<>>
    BY <1>1, <1>2
<1>4. \A c \in Fds : fd_to_client_info[c].addr \in 1 .. socket
    BY AddressedParts DEF Always, OddInfo
<1>5. Current' = {}
    BY <1>1, <1>2, <1>4 DEF Current, Fds
<1> QED BY <1>2, <1>3, <1>5 DEF GoodFirst

(* The oldest datagram is an HS_GOOD.                                      *)
LEMMA AnswerKeepsFirst ==
    ASSUME Always, GoodFirst, HandshakeAnswer, UNCHANGED reordered, reordered = 0
    PROVE  GoodFirst' /\ UNCHANGED end
<1>1. PICK i \in DOMAIN orders :
          /\ Overtakes(i)
          /\ IF Good(orders[i]) THEN state' = "TWIDDLE" /\ UNCHANGED end ELSE TRUE
    BY DEF HandshakeAnswer, Deliverable, Receive, Good
<1>2. i = 1
    BY <1>1 DEF Overtakes
<1>3. orders # <<>> /\ state = "HANDSHAKE"
    <2>1. state = "HANDSHAKE"
        BY DEF HandshakeAnswer
    <2>2. orders \in Seq(OddOrder)
        BY AddressedParts DEF Always
    <2> QED BY <2>1, <2>2
<1>4. Good(orders[1])
    BY <1>3 DEF GoodFirst
<1> QED BY <1>1, <1>2, <1>4 DEF GoodFirst

LEMMA OthersKeepFirst ==
    ASSUME GoodFirst, end # "fell through",
           \/ HandshakeTimeout \/ TwiddlePacket \/ TwiddleAnswer \/ TwiddleCommand
           \/ UNCHANGED vars
    PROVE  GoodFirst' /\ end' # "fell through"
<1>1. CASE HandshakeTimeout \/ UNCHANGED vars
    BY <1>1 DEF HandshakeTimeout, GoodFirst, vars, program, server, network, Current, Fds
<1>2. CASE TwiddlePacket \/ TwiddleAnswer \/ TwiddleCommand
    BY <1>2 DEF TwiddlePacket, TwiddleAnswer, TwiddleCommand, Reported, GoodFirst
<1> QED BY <1>1, <1>2

(* A network without faults hands over what was sent in the order it was   *)
(* sent, so the greeting is always the first thing a client hears.         *)
THEOREM GoodComesFirst == Spec => []WhenNothingGoesWrong
<1>1. Init => WhenNothingGoesWrong
    BY DEF Init, WhenNothingGoesWrong, GoodFirst, Current, Fds
<1>2. ASSUME Always, AsLongAsNoneIsDuplicated, WhenNothingGoesWrong, [Next]_vars, Faults' = 0
      PROVE  GoodFirst' /\ end' # "fell through"
    <2>1. Faults = 0 /\ duplicated = 0 /\ ~Lose /\ ~Duplicate
        BY <1>2, NoFaultYet
    <2>2. IInv /\ GoodFirst /\ end # "fell through"
        BY <1>2, <2>1 DEF AsLongAsNoneIsDuplicated, WhenNothingGoesWrong
    <2>3. reordered = 0 /\ UNCHANGED reordered
        <3>1. lost \in Nat /\ duplicated \in Nat /\ reordered \in Nat
            BY <1>2 DEF Always, Counted
        <3>2. lost' \in Nat /\ duplicated' \in Nat /\ reordered' \in Nat
            BY <1>2, CountedKept DEF Counted
        <3>3. reordered = 0
            BY <2>1, <3>1, NoneOfThree DEF Faults
        <3>4. Faults' = lost' + duplicated' + reordered'
            BY DEF Faults
        <3>5. reordered' = 0
            BY <1>2, <3>2, <3>4, NoneOfThree
        <3> QED BY <3>3, <3>5
    <2>4. CASE HandleNewClient
        BY <1>2, <2>2, <2>4, NewClientKeepsFirst
    <2>5. CASE HandlePriorityMsg \/ HandleSyncTimeout \/ \E c \in Fds : SendMidiMsg(c)
        BY <1>2, <2>2, <2>5, ServerKeepsFirst
    <2>6. CASE SendHandshake \/ HandshakeAnswer
        BY <1>2, <2>2, <2>3, <2>6, HandshakeKeepsFirst, AnswerKeepsFirst
    <2>7. CASE \/ HandshakeTimeout \/ TwiddlePacket \/ TwiddleAnswer \/ TwiddleCommand
               \/ UNCHANGED vars
        BY <2>2, <2>7, OthersKeepFirst
    <2> QED BY <1>2, <2>1, <2>4, <2>5, <2>6, <2>7, <2>2 DEF Next
<1>3. Always /\ AsLongAsNoneIsDuplicated /\ WhenNothingGoesWrong /\ [Next]_vars
        => WhenNothingGoesWrong'
    BY <1>2 DEF WhenNothingGoesWrong
<1> QED BY <1>1, <1>3, AlwaysInvariant, Invariant, PTL DEF Spec

(* On a network that delays but neither loses, duplicates nor reorders, a  *)
(* client understands everything it gets, before and after it connects.    *)
THEOREM NothingFallsThrough == Spec => []NeverFallsThrough
<1>1. Always /\ AsLongAsNoneIsDuplicated /\ WhenNothingGoesWrong => NeverFallsThrough
    <2> SUFFICES ASSUME Always, AsLongAsNoneIsDuplicated, WhenNothingGoesWrong, Faults = 0
                 PROVE  end \notin {"fell through", "assert"}
        BY DEF NeverFallsThrough
    <2>1. duplicated = 0
        BY DEF Always, Counted, Faults
    <2> QED BY <2>1 DEF AsLongAsNoneIsDuplicated, IInv, WhenNothingGoesWrong
<1> QED BY <1>1, AlwaysInvariant, Invariant, GoodComesFirst, PTL
=============================================================================
