------------------------ MODULE Conversation_proofs ------------------------
(***************************************************************************)
(* Proofs about Conversation: what the client may rely on whatever the     *)
(* network loses, delays and reorders, for any number of tries, any number *)
(* of commands and any traffic of the server, as long as no datagram is    *)
(* duplicated.                                                             *)
(***************************************************************************)
EXTENDS Conversation, SequenceTheorems, TLAPS

Good(packet) == packet.flag = "HS_GOOD"

Info  == [addr : Nat, seq_num : Int, expected_seq_num : Int]
Order == [flag : {"HS_GOOD", "SYNC", "MIDI"}, seq_num : Int, from : Nat]
Answer == [flag : {"HS_FIN", "SYNC_ACK"}, seq_num : Int]

Types ==
    /\ socket \in Nat
    /\ joining \in Seq(Nat)
    /\ fd_to_client_info \in Seq(Info)
    /\ orders \in Seq(Order)
    /\ answers \in [Fds -> Seq(Answer)]
    /\ queued_syncs \in Seq(Int)
    /\ sync_client \in Fds \cup {NULL}

(* No socket is used for two tries, and no HS registers two fds.           *)
FreshSockets ==
    /\ \A i, j \in DOMAIN joining : joining[i] = joining[j] => i = j
    /\ \A i \in DOMAIN joining : joining[i] <= socket
    /\ \A c, d \in Fds : fd_to_client_info[c].addr = fd_to_client_info[d].addr => c = d
    /\ \A c \in Fds : fd_to_client_info[c].addr <= socket
    /\ \A c \in Fds : \A i \in DOMAIN joining : fd_to_client_info[c].addr # joining[i]

(* What is under way to the client comes from the fd of its current try,   *)
(* and only one HS_GOOD is.                                                *)
OneGreeting ==
    /\ \A i \in DOMAIN orders :
          orders[i].from \in Fds /\ fd_to_client_info[orders[i].from].addr = socket
    /\ \A i, j \in DOMAIN orders : Good(orders[i]) /\ Good(orders[j]) => i = j

(* A client that is connected has had its HS_GOOD.                         *)
Connected ==
    /\ peer # NULL => peer \in Fds /\ fd_to_client_info[peer].addr = socket
    /\ state = "HANDSHAKE" => peer = NULL
    /\ state = "TWIDDLE" => peer # NULL /\ \A i \in DOMAIN orders : ~Good(orders[i])

Silent == \A fd \in Fds : answers[fd] # <<>> => fd = peer

IInv ==
    /\ Types /\ FreshSockets /\ OneGreeting /\ Connected /\ Silent
    /\ end # "assert"

----------------------------------------------------------------------------
(* Taking one element out of a sequence leaves the others, in order.       *)
LEMMA RemovedAt ==
    ASSUME NEW S, NEW s \in Seq(S), NEW i \in DOMAIN s
    PROVE  /\ RemoveAt(s, i) \in Seq(S)
           /\ DOMAIN RemoveAt(s, i) = 1 .. Len(s) - 1
           /\ \A j \in 1 .. Len(s) - 1 :
                 RemoveAt(s, i)[j] = IF j < i THEN s[j] ELSE s[j + 1]
<1> DEFINE before == SubSeq(s, 1, i - 1)
           after  == SubSeq(s, i + 1, Len(s))
<1>1. i \in 1 .. Len(s) /\ Len(s) \in Nat
    OBVIOUS
<1>2. before \in Seq(S) /\ Len(before) = i - 1 /\ \A j \in 1 .. i - 1 : before[j] = s[j]
    <2>1. \A j \in 1 .. i - 1 : s[j] \in S
        BY <1>1
    <2>2. i - 1 \in Int /\ 1 \in Int
        BY <1>1
    <2> HIDE DEF before
    <2>3. /\ before \in Seq(S)
          /\ Len(before) = IF 1 <= i - 1 THEN i - 1 - 1 + 1 ELSE 0
          /\ \A j \in 1 .. i - 1 - 1 + 1 : before[j] = s[1 + j - 1]
        BY <2>1, <2>2, SubSeqProperties DEF before
    <2> QED BY <1>1, <2>3
<1>3. /\ after \in Seq(S) /\ Len(after) = Len(s) - i
      /\ \A j \in 1 .. Len(s) - i : after[j] = s[i + j]
    <2>1. \A j \in i + 1 .. Len(s) : s[j] \in S
        BY <1>1
    <2>2. i + 1 \in Int /\ Len(s) \in Int
        BY <1>1
    <2> HIDE DEF after
    <2>3. /\ after \in Seq(S)
          /\ Len(after) = IF i + 1 <= Len(s) THEN Len(s) - (i + 1) + 1 ELSE 0
          /\ \A j \in 1 .. Len(s) - (i + 1) + 1 : after[j] = s[i + 1 + j - 1]
        BY <2>1, <2>2, SubSeqProperties DEF after
    <2> QED BY <1>1, <2>3
<1>4. RemoveAt(s, i) = before \o after
    BY DEF RemoveAt
<1> HIDE DEF before, after
<1>5. /\ before \o after \in Seq(S)
      /\ Len(before \o after) = Len(s) - 1
      /\ \A j \in 1 .. Len(s) - 1 : (before \o after)[j] =
             IF j <= i - 1 THEN before[j] ELSE after[j - (i - 1)]
    <2>1. /\ before \o after \in Seq(S)
          /\ Len(before \o after) = Len(before) + Len(after)
          /\ \A j \in 1 .. Len(before) + Len(after) : (before \o after)[j] =
                 IF j <= Len(before) THEN before[j] ELSE after[j - Len(before)]
        BY <1>2, <1>3, ConcatProperties
    <2>2. Len(before) = i - 1 /\ Len(before) + Len(after) = Len(s) - 1
        BY <1>1, <1>2, <1>3
    <2> QED BY <2>1, <2>2
<1>6. ASSUME NEW j \in 1 .. Len(s) - 1
      PROVE  RemoveAt(s, i)[j] = IF j < i THEN s[j] ELSE s[j + 1]
    <2>1. CASE j < i
        BY <1>1, <1>2, <1>4, <1>5, <2>1
    <2>2. CASE ~(j < i)
        <3> DEFINE k == j - (i - 1)
        <3>1. k \in 1 .. Len(s) - i /\ ~(j <= i - 1) /\ i + k = j + 1
            BY <1>1, <2>2
        <3>2. RemoveAt(s, i)[j] = after[k]
            BY <1>4, <1>5, <3>1
        <3> HIDE DEF k
        <3>3. after[k] = s[j + 1]
            BY <1>3, <3>1
        <3> QED BY <2>2, <3>2, <3>3
    <2> QED BY <2>1, <2>2
<1>7. RemoveAt(s, i) \in Seq(S) /\ DOMAIN RemoveAt(s, i) = 1 .. Len(s) - 1
    BY <1>4, <1>5
<1> QED BY <1>6, <1>7

(* What is left was there before, at one place each.                       *)
LEMMA LeftOver ==
    ASSUME NEW S, NEW s \in Seq(S), NEW i \in DOMAIN s
    PROVE  /\ RemoveAt(s, i) \in Seq(S)
           /\ \A j \in DOMAIN RemoveAt(s, i) :
                 \E k \in DOMAIN s : k # i /\ RemoveAt(s, i)[j] = s[k]
           /\ \A j, l \in DOMAIN RemoveAt(s, i) : j # l =>
                 \E k, m \in DOMAIN s :
                     /\ k # m /\ k # i /\ m # i
                     /\ RemoveAt(s, i)[j] = s[k] /\ RemoveAt(s, i)[l] = s[m]
<1> DEFINE r == RemoveAt(s, i)
           at(j) == IF j < i THEN j ELSE j + 1
<1>1. /\ r \in Seq(S) /\ DOMAIN r = 1 .. Len(s) - 1
      /\ \A j \in DOMAIN r : r[j] = IF j < i THEN s[j] ELSE s[j + 1]
    BY RemovedAt
<1>2. \A j \in DOMAIN r : at(j) \in DOMAIN s /\ at(j) # i /\ r[j] = s[at(j)]
    BY <1>1
<1>3. \A j, l \in DOMAIN r : j # l => at(j) # at(l)
    BY <1>1
<1> QED BY <1>1, <1>2, <1>3

----------------------------------------------------------------------------
LEMMA InitEstablishes == Init => IInv
BY ParametersAssumption
DEF Init, IInv, Types, FreshSockets, OneGreeting, Connected, Silent, Fds

(* A try on a fresh socket: nothing has reached it yet.                    *)
LEMMA HandshakePreserves ==
    ASSUME IInv, SendHandshake
    PROVE  IInv'
<1> USE ParametersAssumption DEF IInv
<1>1. /\ socket' = socket + 1 /\ socket' \in Nat /\ socket' # socket
      /\ joining' = Append(joining, socket')
      /\ orders' = <<>>
      /\ UNCHANGED <<state, peer, end, fd_to_client_info, sync_client, answers, queued_syncs>>
      /\ state = "HANDSHAKE"
    BY DEF SendHandshake, NextSocket, Types, server
<1>2. Types'
    BY <1>1 DEF Types, Fds
<1>3. FreshSockets'
    <2>1. /\ Len(joining') = Len(joining) + 1 /\ Len(joining) \in Nat
          /\ \A j \in 1 .. Len(joining) : joining'[j] = joining[j] /\ joining[j] \in Nat
          /\ joining'[Len(joining) + 1] = socket + 1
          /\ DOMAIN joining = 1 .. Len(joining) /\ DOMAIN joining' = 1 .. Len(joining) + 1
        BY <1>1 DEF Types
    <2>2. \A j \in 1 .. Len(joining) : joining[j] <= socket
        BY <2>1 DEF FreshSockets
    <2>3. \A i, j \in DOMAIN joining' : joining'[i] = joining'[j] => i = j
        BY <1>1, <2>1, <2>2 DEF Types, FreshSockets
    <2>4. \A c \in Fds : fd_to_client_info[c].addr \in Nat
        <3>1. \A c \in DOMAIN fd_to_client_info :
                 fd_to_client_info[c] \in Info
            BY DEF Types
        <3> QED BY <3>1 DEF Fds, Info
    <2>5. /\ \A j \in DOMAIN joining' : joining'[j] <= socket'
          /\ \A c \in Fds : fd_to_client_info[c].addr <= socket'
          /\ \A c \in Fds : \A j \in DOMAIN joining' : fd_to_client_info[c].addr # joining'[j]
        <3>1. socket \in Nat
            BY DEF Types
        <3>2. \A j \in DOMAIN joining' : joining'[j] <= socket'
            BY <1>1, <2>1, <2>2, <3>1
        <3>3. \A c \in Fds : fd_to_client_info[c].addr <= socket
            BY DEF FreshSockets
        <3>4. \A c \in Fds : \A j \in 1 .. Len(joining) : fd_to_client_info[c].addr # joining'[j]
            BY <2>1 DEF FreshSockets
        <3> QED BY <1>1, <2>1, <2>4, <3>1, <3>2, <3>3, <3>4
    <2> QED BY <1>1, <2>3, <2>5 DEF FreshSockets, Fds
<1>4. OneGreeting' /\ Connected' /\ Silent' /\ end' # "assert"
    BY <1>1 DEF OneGreeting, Connected, Silent, Fds
<1> QED BY <1>2, <1>3, <1>4

(* The fd of a new client greets the socket its HS came from; if that is   *)
(* the current one nobody else has sent anything there.                    *)
LEMMA NewClientPreserves ==
    ASSUME IInv, HandleNewClient
    PROVE  IInv'
<1> USE ParametersAssumption DEF IInv
<1>1. PICK i \in DOMAIN joining :
        LET fd    == Len(fd_to_client_info) + 1
            infos == Append(fd_to_client_info,
                            [addr |-> joining[i], seq_num |-> 1, expected_seq_num |-> 2])
        IN  /\ joining' = RemoveAt(joining, i)
            /\ fd_to_client_info' = infos
            /\ orders' = Greeted(fd, infos)
            /\ answers' = Append(answers, <<>>)
            /\ sync_client' = IF fd = 1 THEN fd ELSE sync_client
            /\ UNCHANGED <<state, socket, peer, end, queued_syncs>>
    BY DEF HandleNewClient, Deliverable, program
<1> DEFINE fd    == Len(fd_to_client_info) + 1
           infos == Append(fd_to_client_info,
                           [addr |-> joining[i], seq_num |-> 1, expected_seq_num |-> 2])
           good  == [flag |-> "HS_GOOD", seq_num |-> 1, from |-> fd]
           sync  == [flag |-> "SYNC", seq_num |-> 1, from |-> fd]
<1>2. /\ joining[i] \in Nat /\ joining \in Seq(Nat)
      /\ fd_to_client_info \in Seq(Info)
    BY DEF Types
<1>3. /\ fd \in Nat /\ Fds' = Fds \cup {fd} /\ fd \notin Fds
      /\ infos \in Seq(Info)
      /\ infos[fd] = [addr |-> joining[i], seq_num |-> 1, expected_seq_num |-> 2]
      /\ \A c \in Fds : infos[c] = fd_to_client_info[c]
    <2> DEFINE new == [addr |-> joining[i], seq_num |-> 1, expected_seq_num |-> 2]
    <2>1. new \in Info
        BY <1>2 DEF Info
    <2>2. Len(fd_to_client_info) \in Nat /\ Fds = 1 .. Len(fd_to_client_info)
        BY <1>2 DEF Fds
    <2> HIDE DEF new
    <2>3. /\ Append(fd_to_client_info, new) \in Seq(Info)
          /\ Len(Append(fd_to_client_info, new)) = Len(fd_to_client_info) + 1
          /\ \A c \in 1 .. Len(fd_to_client_info) : Append(fd_to_client_info, new)[c] = fd_to_client_info[c]
          /\ Append(fd_to_client_info, new)[Len(fd_to_client_info) + 1] = new
        BY <1>2, <2>1, AppendProperties
    <2>4. fd_to_client_info' = Append(fd_to_client_info, new)
        BY <1>1 DEF new
    <2>5. Fds' = 1 .. Len(fd_to_client_info) + 1
        BY <2>2, <2>3, <2>4 DEF Fds
    <2> QED BY <2>2, <2>3, <2>5 DEF new
<1>4. FreshSockets'
    <2>1. \A c \in Fds : infos[c].addr # joining[i] /\ infos[c].addr <= socket
        <3>1. \A c \in Fds : infos[c] = fd_to_client_info[c]
            BY <1>3
        <3> HIDE DEF infos, fd
        <3> QED BY <3>1 DEF FreshSockets
    <2>2. joining[i] <= socket
        BY DEF FreshSockets
    <2>3. \A c, d \in Fds' : infos[c].addr = infos[d].addr => c = d
        <3>1. \A c \in Fds' : c = fd \/ c \in Fds
            BY <1>3
        <3>2. \A c, d \in Fds : infos[c].addr = infos[d].addr => c = d
            <4>1. \A c \in Fds : infos[c] = fd_to_client_info[c]
                BY <1>3
            <4> HIDE DEF infos, fd
            <4> QED BY <4>1 DEF FreshSockets
        <3>3. infos[fd].addr = joining[i]
            BY <1>3
        <3> HIDE DEF infos, fd
        <3> QED BY <2>1, <3>1, <3>2, <3>3
    <2>4. /\ \A j \in DOMAIN joining' : \E k \in DOMAIN joining : k # i /\ joining'[j] = joining[k]
          /\ \A j, l \in DOMAIN joining' : j # l =>
                \E k, m \in DOMAIN joining : k # m /\ joining'[j] = joining[k] /\ joining'[l] = joining[m]
        <3>1. joining' = RemoveAt(joining, i)
            BY <1>1
        <3> HIDE DEF infos, fd, good, sync
        <3> QED BY <1>2, <3>1, LeftOver
    <2>5. \A j \in DOMAIN joining' : joining'[j] <= socket /\ joining'[j] # joining[i]
        BY <2>4 DEF FreshSockets
    <2>6. \A j, l \in DOMAIN joining' : joining'[j] = joining'[l] => j = l
        BY <2>4 DEF FreshSockets
    <2>7. \A c \in Fds' : \A j \in DOMAIN joining' : infos[c].addr # joining'[j]
        <3>1. \A c \in Fds : \A j \in DOMAIN joining' : infos[c].addr # joining'[j]
            <4>1. \A c \in Fds : infos[c] = fd_to_client_info[c]
                BY <1>3
            <4> HIDE DEF infos, fd
            <4> QED BY <2>4, <4>1 DEF FreshSockets
        <3>2. infos[fd].addr = joining[i]
            BY <1>3
        <3> HIDE DEF infos, fd
        <3> QED BY <1>3, <2>5, <3>1, <3>2
    <2>8. \A c \in Fds' : infos[c].addr <= socket
        <3>1. infos[fd].addr = joining[i] /\ \A c \in Fds' : c = fd \/ c \in Fds
            BY <1>3
        <3> HIDE DEF infos, fd
        <3> QED BY <2>1, <2>2, <3>1
    <2>9. fd_to_client_info' = infos /\ UNCHANGED socket
        BY <1>1
    <2> HIDE DEF infos, fd
    <2> QED BY <2>3, <2>5, <2>6, <2>7, <2>8, <2>9 DEF FreshSockets
<1>5. /\ answers' \in [Fds' -> Seq(Answer)] /\ Silent'
      /\ sync_client' \in Fds' \cup {NULL}
    <2>1. answers \in [Fds -> Seq(Answer)] /\ sync_client \in Fds \cup {NULL}
        BY DEF Types
    <2>2. Fds = 1 .. Len(fd_to_client_info) /\ Len(fd_to_client_info) \in Nat
        BY <1>2 DEF Fds
    <2>3. answers \in Seq(Seq(Answer)) /\ Len(answers) = Len(fd_to_client_info)
        BY <2>1, <2>2
    <2>4. <<>> \in Seq(Answer) /\ answers' = Append(answers, <<>>)
        BY <1>1
    <2>5. /\ answers' \in Seq(Seq(Answer)) /\ Len(answers') = fd
          /\ \A c \in Fds : answers'[c] = answers[c]
          /\ answers'[fd] = <<>>
        BY <2>2, <2>3, <2>4, AppendProperties
    <2>6. Fds' = 1 .. fd
        BY <1>3, <2>2
    <2>7. answers' \in [Fds' -> Seq(Answer)]
        BY <2>5, <2>6
    <2>8. Silent'
        BY <1>1, <1>3, <2>5 DEF Silent
    <2>9. sync_client' \in Fds' \cup {NULL}
        BY <1>1, <1>3, <2>1
    <2> QED BY <2>7, <2>8, <2>9
<1>6. CASE joining[i] # socket
    <2>1. orders' = orders
        BY <1>1, <1>3, <1>6 DEF Greeted, SyncTo, SentTo
    <2>2. Types'
        <3>1. joining' \in Seq(Nat)
            <4>1. joining' = RemoveAt(joining, i)
                BY <1>1
            <4> HIDE DEF infos, fd, good, sync
            <4> QED BY <1>2, <4>1, LeftOver
        <3>2. fd_to_client_info' \in Seq(Info)
            BY <1>1, <1>3
        <3>3. UNCHANGED <<socket, queued_syncs>>
            BY <1>1
        <3> HIDE DEF infos, fd, good, sync
        <3> QED BY <1>5, <2>1, <3>1, <3>2, <3>3 DEF Types
    <2>3. OneGreeting' /\ Connected' /\ end' # "assert"
        <3>1. /\ fd_to_client_info' = infos /\ UNCHANGED <<state, socket, peer, end>>
              /\ Fds \subseteq Fds' /\ \A c \in Fds : infos[c] = fd_to_client_info[c]
            BY <1>1, <1>3
        <3> HIDE DEF infos, fd, good, sync
        <3> QED BY <2>1, <3>1 DEF OneGreeting, Connected
    <2> QED BY <1>4, <1>5, <2>2, <2>3
<1>7. CASE joining[i] = socket
    <2>1. orders = <<>> /\ peer = NULL
        <3>1. \A c \in Fds : fd_to_client_info[c].addr # socket
            BY <1>7 DEF FreshSockets
        <3>2. DOMAIN orders = {}
            BY <3>1 DEF OneGreeting
        <3>3. orders = <<>>
            BY <3>2 DEF Types
        <3>4. peer = NULL
            BY <3>1 DEF Connected
        <3> QED BY <3>3, <3>4
    <2>2. /\ orders' \in Seq(Order)
          /\ \A j \in DOMAIN orders' : orders'[j].from = fd
          /\ \A j \in DOMAIN orders' : j # 1 => ~Good(orders'[j])
        <3>1. orders' = Greeted(fd, infos)
            BY <1>1
        <3>2. infos[fd].addr = socket /\ infos[fd].seq_num = 1
            BY <1>3, <1>7
        <3> HIDE DEF infos
        <3>3. Greeted(fd, infos) = IF fd = 1 THEN Sent(Sent(<<>>, good), sync) ELSE Sent(<<>>, good)
            BY <2>1, <3>2 DEF Greeted, SyncTo, SentTo
        <3>4. Sent(<<>>, good) = <<good>>
            BY DEF Sent
        <3>7. good.from = fd /\ sync.from = fd /\ ~Good(sync) /\ fd \in Nat
            BY <1>3 DEF Good
        <3>8. good \in Order /\ sync \in Order
            BY <1>3 DEF Order
        <3> DEFINE both == Append(<<good>>, sync)
        <3> HIDE DEF good, sync, fd
        <3>9. /\ both \in Seq(Order) /\ Len(both) = 2
              /\ both[1] = good /\ both[2] = sync
            <4>1. <<good>> \in Seq(Order) /\ Len(<<good>>) = 1 /\ <<good>>[1] = good
                BY <3>8
            <4> QED BY <3>8, <4>1, AppendProperties
        <3>10. orders' \in {<<good>>, both}
            BY <3>1, <3>3, <3>4 DEF Sent
        <3> HIDE DEF both
        <3>11. CASE orders' = <<good>>
            BY <3>7, <3>8, <3>11
        <3>12. CASE orders' = both
            BY <3>7, <3>9, <3>12
        <3> QED BY <3>10, <3>11, <3>12
    <2>3. Types'
        BY <1>1, <1>2, <1>3, <1>5, <2>2, LeftOver DEF Types
    <2>4. OneGreeting'
        BY <1>1, <1>3, <1>7, <2>2 DEF OneGreeting
    <2>5. Connected' /\ end' # "assert"
        BY <1>1, <2>1 DEF Connected
    <2> QED BY <1>4, <1>5, <2>3, <2>4, <2>5
<1> QED BY <1>6, <1>7

LEMMA SentTypes ==
    ASSUME NEW S, NEW queue \in Seq(S), NEW d \in S
    PROVE  Sent(queue, d) \in Seq(S)
BY DEF Sent

(* Whatever leaves the queue to the client, by delivery or loss.           *)
LEMMA OrdersShrink ==
    ASSUME IInv, NEW i \in DOMAIN orders, orders' = RemoveAt(orders, i),
           UNCHANGED <<socket, fd_to_client_info>>
    PROVE  /\ orders' \in Seq(Order)
           /\ OneGreeting'
           /\ \A j \in DOMAIN orders' : \E k \in DOMAIN orders : k # i /\ orders'[j] = orders[k]
<1>1. orders \in Seq(Order)
    BY DEF IInv, Types
<1>2. /\ orders' \in Seq(Order)
      /\ \A j \in DOMAIN orders' : \E k \in DOMAIN orders : k # i /\ orders'[j] = orders[k]
      /\ \A j, l \in DOMAIN orders' : j # l =>
            \E k, m \in DOMAIN orders :
                k # m /\ k # i /\ m # i /\ orders'[j] = orders[k] /\ orders'[l] = orders[m]
    BY <1>1, LeftOver
<1>3. OneGreeting'
    BY <1>2 DEF IInv, OneGreeting, Fds
<1> QED BY <1>2, <1>3

(* Whatever joins it, except for the HS_GOOD of a new client.              *)
LEMMA OrdersGrow ==
    ASSUME IInv, NEW packet \in Order, ~Good(packet), packet.from \in Fds,
           orders' = SentTo(fd_to_client_info[packet.from], orders, packet),
           UNCHANGED socket, Fds' = Fds,
           \A c \in Fds : fd_to_client_info'[c].addr = fd_to_client_info[c].addr
    PROVE  /\ orders' \in Seq(Order)
           /\ OneGreeting'
           /\ (\A i \in DOMAIN orders : ~Good(orders[i]))
                 => (\A i \in DOMAIN orders' : ~Good(orders'[i]))
<1>1. orders \in Seq(Order) /\ Len(orders) \in Nat /\ DOMAIN orders = 1 .. Len(orders)
    BY DEF IInv, Types
<1>2. CASE orders' = orders
    BY <1>1, <1>2 DEF IInv, OneGreeting
<1>3. CASE orders' = Append(orders, packet) /\ fd_to_client_info[packet.from].addr = socket
    <2>1. /\ orders' \in Seq(Order) /\ DOMAIN orders' = 1 .. Len(orders) + 1
          /\ \A i \in 1 .. Len(orders) : orders'[i] = orders[i]
          /\ orders'[Len(orders) + 1] = packet
        BY <1>1, <1>3, AppendProperties
    <2>2. \A i \in DOMAIN orders' : orders'[i] = packet \/ (i \in DOMAIN orders /\ orders'[i] = orders[i])
        BY <1>1, <2>1
    <2>3. \A i \in DOMAIN orders' :
              orders'[i].from \in Fds' /\ fd_to_client_info'[orders'[i].from].addr = socket'
        BY <1>3, <2>2 DEF IInv, OneGreeting
    <2>4. \A i, j \in DOMAIN orders' : Good(orders'[i]) /\ Good(orders'[j]) => i = j
        BY <2>2 DEF IInv, OneGreeting
    <2> QED BY <2>1, <2>2, <2>3, <2>4 DEF OneGreeting
<1> QED BY <1>2, <1>3 DEF SentTo, Sent

(* The other parts of the invariant when no address changes.               *)
LEMMA AddressesKept ==
    ASSUME IInv, UNCHANGED <<socket, joining>>,
           fd_to_client_info' \in Seq(Info), Fds' = Fds,
           \A c \in Fds : fd_to_client_info'[c].addr = fd_to_client_info[c].addr
    PROVE  FreshSockets'
BY DEF IInv, FreshSockets

----------------------------------------------------------------------------
LEMMA HandshakeTimeoutPreserves ==
    ASSUME IInv, HandshakeTimeout
    PROVE  IInv'
<1>1. /\ UNCHANGED <<socket, peer, fd_to_client_info, sync_client, joining, answers, orders>>
      /\ state = "HANDSHAKE" /\ state' \in {"HANDSHAKE", "ENDED"} /\ end' \in {end, "timeouts"}
      /\ queued_syncs' \in {queued_syncs, <<>>}
    BY DEF HandshakeTimeout, UserTypes, server, network
<1>2. Types'
    <2>1. Types
        BY DEF IInv
    <2>2. queued_syncs \in Seq(Int) /\ <<>> \in Seq(Int)
        BY <2>1 DEF Types
    <2>3. queued_syncs' \in Seq(Int)
        BY <1>1, <2>2
    <2> QED BY <1>1, <2>1, <2>3 DEF Types, Fds
<1>3. FreshSockets' /\ OneGreeting' /\ Silent' /\ Connected'
    BY <1>1 DEF IInv, FreshSockets, OneGreeting, Silent, Connected, Fds
<1> QED BY <1>1, <1>2, <1>3 DEF IInv

LEMMA TwiddleCommandPreserves ==
    ASSUME IInv, TwiddleCommand
    PROVE  IInv'
<1>1. /\ UNCHANGED <<state, socket, peer, end, fd_to_client_info, sync_client, joining, answers, orders>>
      /\ queued_syncs' \in {queued_syncs, <<>>}
    BY DEF TwiddleCommand, UserTypes, server, network
<1>2. Types'
    <2>1. Types
        BY DEF IInv
    <2>2. queued_syncs \in Seq(Int) /\ <<>> \in Seq(Int)
        BY <2>1 DEF Types
    <2>3. queued_syncs' \in Seq(Int)
        BY <1>1, <2>2
    <2> QED BY <1>1, <2>1, <2>3 DEF Types, Fds
<1>3. FreshSockets' /\ OneGreeting' /\ Silent' /\ Connected'
    BY <1>1 DEF IInv, FreshSockets, OneGreeting, Silent, Connected, Fds
<1> QED BY <1>1, <1>2, <1>3 DEF IInv

(* Whoever receives a datagram from the fd of its socket answers that fd.  *)
LEMMA ReceiveFromPeer ==
    ASSUME IInv, NEW i \in DOMAIN orders
    PROVE  /\ orders[i] \in Order /\ orders[i].from \in Fds /\ orders[i].from # NULL
           /\ orders[i].seq_num \in Int
           /\ fd_to_client_info[orders[i].from].addr = socket
           /\ peer # NULL => peer = orders[i].from
<1>1. orders[i] \in Order /\ orders[i].from \in Fds
      /\ fd_to_client_info[orders[i].from].addr = socket
    BY DEF IInv, Types, OneGreeting
<1>2. orders[i].from \in Nat /\ orders[i].seq_num \in Int
    BY <1>1 DEF Order
<1>3. peer # NULL => peer = orders[i].from
    BY <1>1 DEF IInv, Connected, FreshSockets
<1> QED BY <1>1, <1>2, <1>3, ParametersAssumption

LEMMA HandshakeAnswerPreserves ==
    ASSUME IInv, HandshakeAnswer
    PROVE  IInv'
<1>1. PICK i \in DOMAIN orders :
          LET packet == orders[i]
          IN  /\ Receive(packet, i)
              /\ IF packet.flag = "HS_GOOD"
                 THEN /\ state' = "TWIDDLE"
                      /\ answers' = [answers EXCEPT ![packet.from] =
                            Sent(@, [flag |-> "HS_FIN", seq_num |-> seq_num'])]
                      /\ UNCHANGED end
                 ELSE Reported("fell through") /\ UNCHANGED answers
    BY DEF HandshakeAnswer, Deliverable
<1>2. /\ UNCHANGED <<socket, queued_syncs, fd_to_client_info, sync_client, joining>>
      /\ state = "HANDSHAKE"
    BY DEF HandshakeAnswer, server
<1>3. orders' = RemoveAt(orders, i) /\ seq_num' = orders[i].seq_num + 1 /\ peer' = orders[i].from
    BY <1>1 DEF Receive
<1>4. /\ orders' \in Seq(Order) /\ OneGreeting'
      /\ \A j \in DOMAIN orders' : \E k \in DOMAIN orders : k # i /\ orders'[j] = orders[k]
    BY <1>2, <1>3, OrdersShrink
<1>5. /\ orders[i].from \in Fds /\ peer' # NULL /\ seq_num' \in Int
      /\ fd_to_client_info[orders[i].from].addr = socket
    BY <1>3, ReceiveFromPeer
<1>6. peer = NULL /\ \A fd \in Fds : answers[fd] = <<>>
    <2>1. \A fd \in Fds : fd # NULL
        BY ParametersAssumption DEF IInv, Types, Fds
    <2> QED BY <1>2, <2>1 DEF IInv, Connected, Silent
<1>7. answers' \in [Fds -> Seq(Answer)] /\ Silent'
    <2> DEFINE fin == [flag |-> "HS_FIN", seq_num |-> seq_num']
    <2>1. fin \in Answer
        BY <1>5 DEF Answer
    <2>2. answers \in [Fds -> Seq(Answer)]
        BY DEF IInv, Types
    <2>3. answers' = answers \/ answers' = [answers EXCEPT ![peer'] = Sent(@, fin)]
        BY <1>1, <1>3
    <2> HIDE DEF fin
    <2>4. \A fd \in Fds : Sent(answers[fd], fin) \in Seq(Answer)
        BY <2>1, <2>2, SentTypes
    <2> QED BY <1>2, <1>6, <2>2, <2>3, <2>4 DEF Silent, Fds
<1>8. Types'
    BY <1>2, <1>4, <1>7 DEF IInv, Types, Fds
<1>9. FreshSockets'
    BY <1>2 DEF IInv, FreshSockets, Fds
<1>10. Connected' /\ end' # "assert"
    <2>1. CASE Good(orders[i])
        <3>1. \A j \in DOMAIN orders' : ~Good(orders'[j])
            BY <1>4, <2>1 DEF IInv, OneGreeting
        <3> QED BY <1>1, <1>2, <1>3, <1>5, <2>1, <3>1 DEF Connected, Good, Fds, IInv
    <2>2. CASE ~Good(orders[i])
        BY <1>1, <1>2, <1>3, <1>5, <2>2 DEF Connected, Good, Reported, Fds
    <2> QED BY <2>1, <2>2
<1> QED BY <1>4, <1>7, <1>8, <1>9, <1>10 DEF IInv

(* An answer sent by a connected client reaches its peer.                  *)
LEMMA MaybeAnswerTypes ==
    ASSUME IInv, NEW queue \in Seq(Int), MaybeAnswer(queue), UNCHANGED fd_to_client_info,
           peer # NULL => peer' = peer,
           peer = NULL => answers = [fd \in Fds |-> <<>>]
    PROVE  /\ queued_syncs' \in Seq(Int)
           /\ answers' \in [Fds -> Seq(Answer)]
           /\ Silent'
<1>1. answers \in [Fds -> Seq(Answer)] /\ Silent
    BY DEF IInv, Types
<1>2. \A fd \in Fds : answers[fd] # <<>> => fd = peer'
    BY <1>1 DEF Silent
<1>3. CASE queued_syncs' = queue /\ UNCHANGED answers
    BY <1>1, <1>2, <1>3 DEF Silent, Fds
<1>4. CASE queue # <<>> /\ queued_syncs' = Tail(queue) /\ answers' = [answers EXCEPT ![peer'] =
             Sent(@, [flag |-> "SYNC_ACK", seq_num |-> Head(queue)])]
    <2> DEFINE ack == [flag |-> "SYNC_ACK", seq_num |-> Head(queue)]
    <2>1. Tail(queue) \in Seq(Int) /\ Head(queue) \in Int
        BY <1>4
    <2>2. ack \in Answer
        BY <2>1 DEF Answer
    <2>3. answers' = [answers EXCEPT ![peer'] = Sent(@, ack)]
        BY <1>4
    <2> HIDE DEF ack
    <2>4. \A fd \in Fds : Sent(answers[fd], ack) \in Seq(Answer)
        BY <1>1, <2>2, SentTypes
    <2>5. answers' \in [Fds -> Seq(Answer)]
        BY <1>1, <2>3, <2>4
    <2>6. Silent'
        BY <1>1, <1>2, <2>3 DEF Silent, Fds
    <2> QED BY <1>4, <2>1, <2>5, <2>6
<1> QED BY <1>3, <1>4 DEF MaybeAnswer

LEMMA TwiddlePacketPreserves ==
    ASSUME IInv, TwiddlePacket
    PROVE  IInv'
<1>1. PICK i \in DOMAIN orders :
          LET packet == orders[i]
          IN  /\ Receive(packet, i)
              /\ \/ /\ packet.flag = "SYNC"
                    /\ MaybeAnswer(Append(queued_syncs, seq_num'))
                    /\ UNCHANGED <<state, end>>
                 \/ /\ packet.flag = "MIDI"
                    /\ MaybeAnswer(queued_syncs)
                    /\ UNCHANGED <<state, end>>
                 \/ packet.flag \notin {"SYNC", "MIDI"}
    BY DEF TwiddlePacket, Deliverable
<1>2. UNCHANGED <<socket, fd_to_client_info, sync_client, joining>> /\ state = "TWIDDLE"
    BY DEF TwiddlePacket, server
<1>3. orders' = RemoveAt(orders, i) /\ seq_num' = orders[i].seq_num + 1 /\ peer' = orders[i].from
    BY <1>1 DEF Receive
<1>4. /\ orders' \in Seq(Order) /\ OneGreeting'
      /\ \A j \in DOMAIN orders' : \E k \in DOMAIN orders : k # i /\ orders'[j] = orders[k]
    BY <1>2, <1>3, OrdersShrink
<1>5. peer # NULL /\ \A j \in DOMAIN orders : ~Good(orders[j])
    BY <1>2 DEF IInv, Connected
<1>6. peer' = peer /\ seq_num' \in Int /\ orders[i] \in Order
    BY <1>3, <1>5, ReceiveFromPeer
<1>7. queued_syncs \in Seq(Int) /\ Append(queued_syncs, seq_num') \in Seq(Int)
    BY <1>6 DEF IInv, Types
<1>8. orders[i].flag \in {"SYNC", "MIDI"}
    BY <1>5, <1>6 DEF Order, Good
<1>9. UNCHANGED <<state, end>> /\ \E queue \in Seq(Int) : MaybeAnswer(queue)
    BY <1>1, <1>7, <1>8
<1>10. /\ queued_syncs' \in Seq(Int) /\ Silent'
       /\ answers' \in [Fds -> Seq(Answer)]
    BY <1>2, <1>5, <1>6, <1>9, MaybeAnswerTypes
<1>11. Types'
    BY <1>2, <1>4, <1>10 DEF IInv, Types, Fds
<1>12. FreshSockets'
    BY <1>2 DEF IInv, FreshSockets, Fds
<1>13. Connected'
    BY <1>2, <1>4, <1>5, <1>6, <1>9 DEF IInv, Connected, Fds
<1> QED BY <1>4, <1>9, <1>10, <1>11, <1>12, <1>13 DEF IInv

LEMMA TwiddleAnswerPreserves ==
    ASSUME IInv, TwiddleAnswer
    PROVE  IInv'
<1>1. /\ UNCHANGED <<state, socket, peer, end, fd_to_client_info, sync_client, joining, orders>>
      /\ state = "TWIDDLE" /\ MaybeAnswer(queued_syncs)
    BY DEF TwiddleAnswer, server
<1>2. queued_syncs \in Seq(Int) /\ peer # NULL
    BY <1>1 DEF IInv, Types, Connected
<1>3. /\ queued_syncs' \in Seq(Int) /\ Silent'
      /\ answers' \in [Fds -> Seq(Answer)]
    BY <1>1, <1>2, MaybeAnswerTypes
<1>4. Types'
    BY <1>1, <1>3 DEF IInv, Types, Fds
<1>5. FreshSockets' /\ OneGreeting' /\ Connected'
    BY <1>1 DEF IInv, FreshSockets, OneGreeting, Connected, Fds
<1> QED BY <1>1, <1>3, <1>4, <1>5 DEF IInv

----------------------------------------------------------------------------
(* The steps of the server after a client has joined change sequence       *)
(* numbers and add SYNCs and MIDI messages: no address and no HS_GOOD.     *)
LEMMA TrafficPreserves ==
    ASSUME IInv,
           UNCHANGED <<state, socket, peer, end, queued_syncs, joining>>,
           fd_to_client_info' \in Seq(Info), Fds' = Fds,
           \A c \in Fds : fd_to_client_info'[c].addr = fd_to_client_info[c].addr,
           answers' \in [Fds -> Seq(Answer)],
           \A c \in Fds : answers[c] = <<>> => answers'[c] = <<>>,
           sync_client' \in Fds \cup {NULL},
           orders' \in Seq(Order), OneGreeting',
           (\A i \in DOMAIN orders : ~Good(orders[i])) => (\A i \in DOMAIN orders' : ~Good(orders'[i]))
    PROVE  IInv'
<1>1. Types'
    <2>1. Types
        BY DEF IInv
    <2>2. socket' \in Nat /\ joining' \in Seq(Nat) /\ queued_syncs' \in Seq(Int)
        BY <2>1 DEF Types
    <2> QED BY <2>2 DEF Types
<1>2. FreshSockets'
    BY AddressesKept
<1>3. Connected'
    BY DEF IInv, Connected
<1>4. Silent'
    BY DEF IInv, Silent
<1>5. end' # "assert"
    BY DEF IInv
<1> QED BY <1>1, <1>2, <1>3, <1>4, <1>5 DEF IInv

(* A SYNC to any client, its new sequence number being infos[c].seq_num.   *)
LEMMA SyncSent ==
    ASSUME IInv, NEW infos \in Seq(Info), NEW c \in Fds,
           fd_to_client_info' = infos, UNCHANGED socket, Fds' = Fds,
           \A d \in Fds : infos[d].addr = fd_to_client_info[d].addr,
           orders' = SyncTo(c, infos, orders)
    PROVE  /\ orders' \in Seq(Order) /\ OneGreeting'
           /\ (\A i \in DOMAIN orders : ~Good(orders[i]))
                 => (\A i \in DOMAIN orders' : ~Good(orders'[i]))
<1> DEFINE packet == [flag |-> "SYNC", seq_num |-> infos[c].seq_num, from |-> c]
<1>1. c \in Nat /\ c \in DOMAIN infos
    BY DEF IInv, Types, Fds
<1>2. infos[c] \in Info
    BY <1>1
<1>3. packet \in Order /\ ~Good(packet) /\ packet.from = c
    BY <1>1, <1>2 DEF Order, Info, Good
<1>4. orders' = SentTo(infos[c], orders, packet)
    BY DEF SyncTo
<1>5. orders' = SentTo(fd_to_client_info[c], orders, packet)
    BY <1>4 DEF SentTo
<1> HIDE DEF packet
<1> QED BY <1>3, <1>5, OrdersGrow

LEMMA SyncTimeoutPreserves ==
    ASSUME IInv, HandleSyncTimeout
    PROVE  IInv'
<1>1. PICK c \in Fds : sync_client' = c /\ orders' = SyncTo(c, fd_to_client_info, orders)
    BY DEF HandleSyncTimeout, NextSync
<1>2. UNCHANGED <<state, socket, peer, end, queued_syncs, fd_to_client_info, joining, answers>>
    BY DEF HandleSyncTimeout, program
<1>3. fd_to_client_info \in Seq(Info) /\ answers \in [Fds -> Seq(Answer)] /\ Fds' = Fds
    BY <1>2 DEF IInv, Types, Fds
<1>4. /\ orders' \in Seq(Order) /\ OneGreeting'
      /\ (\A i \in DOMAIN orders : ~Good(orders[i])) => (\A i \in DOMAIN orders' : ~Good(orders'[i]))
    BY <1>1, <1>2, <1>3, SyncSent
<1> QED BY <1>1, <1>2, <1>3, <1>4, TrafficPreserves

(* New sequence numbers leave the addresses as they were.                  *)
LEMMA NewInfo ==
    ASSUME NEW infos \in Seq(Info), NEW c \in DOMAIN infos, NEW info \in Info,
           info.addr = infos[c].addr
    PROVE  /\ [infos EXCEPT ![c] = info] \in Seq(Info)
           /\ \A d \in DOMAIN infos : [infos EXCEPT ![c] = info][d].addr = infos[d].addr
OBVIOUS

LEMMA PriorityMsgPreserves ==
    ASSUME IInv, HandlePriorityMsg
    PROVE  IInv'
<1>1. PICK i \in DOMAIN answers[sync_client] :
          LET reply == answers[sync_client][i]
              infos == [fd_to_client_info EXCEPT
                           ![sync_client].seq_num = reply.seq_num + 1,
                           ![sync_client].expected_seq_num = reply.seq_num + 2]
          IN  /\ answers' = [answers EXCEPT ![sync_client] = RemoveAt(@, i)]
              /\ fd_to_client_info' = infos
              /\ \/ NextSync(infos)
                 \/ UNCHANGED <<sync_client, orders>>
    BY DEF HandlePriorityMsg, Deliverable
<1>2. UNCHANGED <<state, socket, peer, end, queued_syncs, joining>> /\ sync_client # NULL
    BY DEF HandlePriorityMsg, program
<1>3. /\ answers \in [Fds -> Seq(Answer)] /\ sync_client \in Fds
      /\ fd_to_client_info \in Seq(Info) /\ orders \in Seq(Order)
    BY <1>2 DEF IInv, Types
<1> DEFINE old   == answers[sync_client]
           a     == old[i].seq_num + 1
           b     == old[i].seq_num + 2
           infos == [fd_to_client_info EXCEPT ![sync_client].seq_num = a,
                                              ![sync_client].expected_seq_num = b]
<1>4. old \in Seq(Answer) /\ i \in DOMAIN old
    BY <1>1, <1>3
<1>5. old[i] \in Answer /\ a \in Int /\ b \in Int
    <2>1. old[i] \in Answer
        BY <1>4
    <2> QED BY <2>1 DEF Answer
<1>6. infos \in Seq(Info) /\ \A d \in Fds : infos[d].addr = fd_to_client_info[d].addr
    <2> DEFINE info == [fd_to_client_info[sync_client] EXCEPT !.seq_num = a, !.expected_seq_num = b]
    <2>1. fd_to_client_info[sync_client] \in Info /\ sync_client \in DOMAIN fd_to_client_info
        BY <1>3 DEF Fds
    <2>2. info \in Info /\ info.addr = fd_to_client_info[sync_client].addr
        <3> HIDE DEF a, b
        <3> QED BY <1>5, <2>1 DEF Info
    <2>3. infos = [fd_to_client_info EXCEPT ![sync_client] = info]
        <3> HIDE DEF a, b
        <3> QED OBVIOUS
    <2> HIDE DEF infos, info
    <2> QED BY <1>3, <2>1, <2>2, <2>3, NewInfo DEF Fds
<1>7. fd_to_client_info' = infos /\ (NextSync(infos) \/ UNCHANGED <<sync_client, orders>>)
    BY <1>1
<1>8. Fds' = Fds
    BY <1>3, <1>7 DEF Fds
<1>9. answers' \in [Fds -> Seq(Answer)] /\ \A c \in Fds : answers[c] = <<>> => answers'[c] = <<>>
    <2>1. RemoveAt(old, i) \in Seq(Answer) /\ old # <<>>
        BY <1>4, LeftOver
    <2>2. answers' = [answers EXCEPT ![sync_client] = RemoveAt(old, i)]
        BY <1>1
    <2> QED BY <1>3, <2>1, <2>2
<1> HIDE DEF infos, old
<1>10. CASE NextSync(infos)
    <2>1. PICK c \in Fds : sync_client' = c /\ orders' = SyncTo(c, infos, orders)
        BY <1>10 DEF NextSync
    <2>2. /\ orders' \in Seq(Order) /\ OneGreeting'
          /\ (\A j \in DOMAIN orders : ~Good(orders[j])) => (\A j \in DOMAIN orders' : ~Good(orders'[j]))
        BY <1>2, <1>6, <1>7, <1>8, <2>1, SyncSent
    <2> QED BY <1>2, <1>6, <1>7, <1>8, <1>9, <2>1, <2>2, TrafficPreserves
<1>11. CASE UNCHANGED <<sync_client, orders>>
    <2>1. OneGreeting'
        BY <1>2, <1>6, <1>7, <1>8, <1>11 DEF IInv, OneGreeting
    <2> QED BY <1>2, <1>3, <1>6, <1>7, <1>8, <1>9, <1>11, <2>1, TrafficPreserves
<1> QED BY <1>7, <1>10, <1>11

LEMMA MidiPreserves ==
    ASSUME IInv, NEW c \in Fds, SendMidiMsg(c)
    PROVE  IInv'
<1> DEFINE info  == fd_to_client_info[c]
           midi  == [flag |-> "MIDI", seq_num |-> info.seq_num, from |-> c]
           infos == [fd_to_client_info EXCEPT ![c].seq_num = info.seq_num + 2]
<1>1. /\ UNCHANGED <<state, socket, peer, end, queued_syncs, joining, sync_client, answers>>
      /\ orders' = SentTo(info, orders, midi)
      /\ fd_to_client_info' = infos
    BY DEF SendMidiMsg, program
<1>2. /\ fd_to_client_info \in Seq(Info) /\ answers \in [Fds -> Seq(Answer)]
      /\ sync_client \in Fds \cup {NULL}
    BY DEF IInv, Types
<1>3. c \in DOMAIN fd_to_client_info /\ c \in Nat /\ info \in Info
    BY <1>2 DEF Fds
<1>4. info.seq_num \in Int /\ info.seq_num + 2 \in Int
    BY <1>3 DEF Info
<1>5. infos \in Seq(Info) /\ \A d \in Fds : infos[d].addr = fd_to_client_info[d].addr
    <2> DEFINE new == [info EXCEPT !.seq_num = info.seq_num + 2]
    <2>1. new \in Info /\ new.addr = info.addr
        BY <1>3, <1>4 DEF Info
    <2>2. infos = [fd_to_client_info EXCEPT ![c] = new]
        OBVIOUS
    <2> HIDE DEF infos, new
    <2> QED BY <1>2, <1>3, <2>1, <2>2, NewInfo DEF Fds
<1>6. Fds' = Fds
    BY <1>1, <1>2 DEF Fds
<1>7. midi \in Order /\ ~Good(midi) /\ midi.from = c
    BY <1>3, <1>4 DEF Order, Good
<1> HIDE DEF midi, infos
<1>8. /\ orders' \in Seq(Order) /\ OneGreeting'
      /\ (\A i \in DOMAIN orders : ~Good(orders[i])) => (\A i \in DOMAIN orders' : ~Good(orders'[i]))
    BY <1>1, <1>5, <1>6, <1>7, OrdersGrow
<1> QED BY <1>1, <1>2, <1>5, <1>6, <1>8, TrafficPreserves

(* A loss takes one datagram out of one queue.                             *)
LEMMA LosePreserves ==
    ASSUME IInv, Lose
    PROVE  IInv'
<1>1. /\ UNCHANGED <<state, socket, peer, end, queued_syncs, fd_to_client_info, sync_client>>
      /\ \/ (\E i \in DOMAIN joining : joining' = RemoveAt(joining, i)) /\ UNCHANGED <<answers, orders>>
         \/ /\ \E fd \in Fds : \E i \in DOMAIN answers[fd] :
                  answers' = [answers EXCEPT ![fd] = RemoveAt(@, i)]
            /\ UNCHANGED <<joining, orders>>
         \/ (\E i \in DOMAIN orders : orders' = RemoveAt(orders, i)) /\ UNCHANGED <<joining, answers>>
    BY DEF Lose, program, server
<1>2. /\ joining \in Seq(Nat) /\ fd_to_client_info \in Seq(Info) /\ orders \in Seq(Order)
      /\ answers \in [Fds -> Seq(Answer)] /\ sync_client \in Fds \cup {NULL} /\ Fds' = Fds
    BY <1>1 DEF IInv, Types, Fds
<1>3. ASSUME NEW i \in DOMAIN joining, joining' = RemoveAt(joining, i), UNCHANGED <<answers, orders>>
      PROVE  IInv'
    <2>1. /\ joining' \in Seq(Nat)
          /\ \A j \in DOMAIN joining' : \E k \in DOMAIN joining : k # i /\ joining'[j] = joining[k]
          /\ \A j, l \in DOMAIN joining' : j # l =>
                \E k, m \in DOMAIN joining : k # m /\ joining'[j] = joining[k] /\ joining'[l] = joining[m]
        BY <1>2, <1>3, LeftOver
    <2>2. FreshSockets'
        BY <1>1, <1>2, <2>1 DEF IInv, FreshSockets
    <2>3. Types'
        BY <1>1, <1>3, <2>1 DEF IInv, Types, Fds
    <2> QED BY <1>1, <1>3, <2>2, <2>3 DEF IInv, OneGreeting, Connected, Silent, Fds
<1>4. ASSUME NEW fd \in Fds, NEW i \in DOMAIN answers[fd],
             answers' = [answers EXCEPT ![fd] = RemoveAt(@, i)], UNCHANGED <<joining, orders>>
      PROVE  IInv'
    <2>1. answers[fd] \in Seq(Answer) /\ answers[fd] # <<>>
        BY <1>2, <1>4
    <2>2. RemoveAt(answers[fd], i) \in Seq(Answer)
        BY <2>1, LeftOver
    <2>3. answers' \in [Fds -> Seq(Answer)] /\ \A c \in Fds : answers[c] = <<>> => answers'[c] = <<>>
        BY <1>2, <1>4, <2>1, <2>2
    <2>4. OneGreeting'
        BY <1>1, <1>4 DEF IInv, OneGreeting, Fds
    <2> QED BY <1>1, <1>2, <1>4, <2>3, <2>4, TrafficPreserves
<1>5. ASSUME NEW i \in DOMAIN orders, orders' = RemoveAt(orders, i), UNCHANGED <<joining, answers>>
      PROVE  IInv'
    <2>1. /\ orders' \in Seq(Order) /\ OneGreeting'
          /\ \A j \in DOMAIN orders' : \E k \in DOMAIN orders : k # i /\ orders'[j] = orders[k]
        BY <1>1, <1>5, OrdersShrink
    <2> QED BY <1>1, <1>2, <1>5, <2>1, TrafficPreserves
<1> QED BY <1>1, <1>3, <1>4, <1>5

(* One duplicate is enough to break the invariant, and nothing mends it.   *)
AsLongAsNoneIsDuplicated ==
    /\ duplicated \in Nat
    /\ duplicated = 0 => IInv

(* Only Duplicate counts.                                                  *)
LEMMA DuplicatesCounted ==
    ASSUME duplicated \in Nat, [Next]_vars
    PROVE  /\ duplicated' \in Nat
           /\ duplicated' = 0 => duplicated = 0 /\ ~Duplicate
<1>1. CASE Duplicate
    BY <1>1 DEF Duplicate
<1>2. CASE ~Duplicate
    <2>1. UNCHANGED duplicated
        BY <1>2
        DEF Next, vars, network, faults, SendHandshake, HandshakeTimeout, HandshakeAnswer,
            TwiddlePacket, TwiddleAnswer, TwiddleCommand, HandleNewClient, HandlePriorityMsg,
            HandleSyncTimeout, SendMidiMsg, Lose
    <2> QED BY <1>2, <2>1
<1> QED BY <1>1, <1>2

(* The parts of the invariant hold of every step, however the network      *)
(* delays, loses and reorders.                                             *)
THEOREM Invariant == Spec => []AsLongAsNoneIsDuplicated
<1>1. Init => AsLongAsNoneIsDuplicated
    BY InitEstablishes DEF Init, AsLongAsNoneIsDuplicated
<1>2. ASSUME IInv, [Next]_vars, ~Duplicate
      PROVE  IInv'
    <2>1. CASE SendHandshake \/ HandshakeTimeout \/ HandshakeAnswer
        BY <1>2, <2>1, HandshakePreserves, HandshakeTimeoutPreserves, HandshakeAnswerPreserves
    <2>2. CASE TwiddlePacket \/ TwiddleAnswer \/ TwiddleCommand
        BY <1>2, <2>2, TwiddlePacketPreserves, TwiddleAnswerPreserves, TwiddleCommandPreserves
    <2>3. CASE HandleNewClient \/ HandlePriorityMsg \/ HandleSyncTimeout \/ \E c \in Fds : SendMidiMsg(c)
        BY <1>2, <2>3, NewClientPreserves, PriorityMsgPreserves, SyncTimeoutPreserves, MidiPreserves
    <2>4. CASE Lose
        BY <1>2, <2>4, LosePreserves
    <2>5. CASE UNCHANGED vars
        <3>1. /\ UNCHANGED <<state, socket, peer, end, queued_syncs, joining, fd_to_client_info>>
              /\ UNCHANGED <<sync_client, answers, orders>>
            BY <2>5 DEF vars, program, server, network
        <3> QED BY <1>2, <3>1 DEF IInv, Types, FreshSockets, OneGreeting, Connected, Silent, Fds
    <2> QED BY <1>2, <2>1, <2>2, <2>3, <2>4, <2>5 DEF Next
<1>3. AsLongAsNoneIsDuplicated /\ [Next]_vars => AsLongAsNoneIsDuplicated'
    BY <1>2, DuplicatesCounted DEF AsLongAsNoneIsDuplicated
<1> QED BY <1>1, <1>3, PTL DEF Spec

(* As long as nothing is duplicated a connected client never gets a        *)
(* datagram twiddle() has no case for.                                     *)
THEOREM TwiddleAlwaysUnderstands == Spec => []TwiddleUnderstands
<1>1. AsLongAsNoneIsDuplicated => TwiddleUnderstands
    BY DEF AsLongAsNoneIsDuplicated, IInv, TwiddleUnderstands
<1> QED BY <1>1, Invariant, PTL

(* As long as nothing is duplicated a connected client answers one fd of   *)
(* the server, and the fds of its earlier tries stay silent.               *)
THEOREM AlwaysOnePeer == Spec => []OnePeer
<1>1. AsLongAsNoneIsDuplicated => OnePeer
    <2> SUFFICES ASSUME AsLongAsNoneIsDuplicated, duplicated = 0,
                        NEW fd \in Fds, answers[fd] # <<>>
                 PROVE  fd = peer /\ fd_to_client_info[fd].addr = socket
        BY DEF OnePeer
    <2>1. IInv
        BY DEF AsLongAsNoneIsDuplicated
    <2>2. fd = peer /\ fd # NULL
        BY <2>1, ParametersAssumption DEF IInv, Silent, Types, Fds
    <2> QED BY <2>1, <2>2 DEF IInv, Connected
<1> QED BY <1>1, Invariant, PTL
=============================================================================
