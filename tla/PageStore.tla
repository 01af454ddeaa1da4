----------------------------- MODULE PageStore -----------------------------
(***************************************************************************)
(* What the users of buffer.c may count on: a store of pages that keeps    *)
(* what is written through every eviction and every write the disk         *)
(* refuses, and loses no more than what is not durable when the program    *)
(* ends.                                                                   *)
(*                                                                         *)
(* readable[a] is the set of contents a reader of page a may find from now *)
(* on: one, unless the page is new or its user has given up what was not   *)
(* saved.  durable[a] is what is left of it after a crash.                 *)
(***************************************************************************)
CONSTANTS
    File,       \* the files of the disk
    PageId,     \* the pages of a file
    Content,    \* what users write
    Zeros,      \* a new page as long as it is buffered
    Garbage,    \* a new page on disk
    Absent      \* no page

Addr == File \X PageId

VARIABLES
    status,     \* running, squashed or dead
    readable,   \* what readers may find
    durable,    \* what the disk has
    refused,    \* the pages whose writes the disk refuses for now
    renewed     \* the pages that nothing is said of: they were made anew
                \* while they were in memory

vars == <<status, readable, durable, refused, renewed>>

OnlyDurable == [a \in Addr |-> {durable[a]}]

Init ==
    /\ status = "running"
    /\ durable = [a \in Addr |-> Absent]
    /\ readable = OnlyDurable
    /\ refused = {}
    /\ renewed = {}

Refuse == refused' \subseteq Addr /\ UNCHANGED <<status, durable, readable, renewed>>

(* Page a is saved or dropped from memory; readers notice nothing. *)
Settled(a) ==
    \/ a \in renewed
    \/ /\ readable'[a] \in (SUBSET readable[a]) \ {{}}
       /\ durable'[a] # durable[a] => a \notin refused /\ readable'[a] = {durable'[a]}

Settle ==
    /\ status = "running" /\ UNCHANGED <<status, refused, renewed>>
    /\ \A a \in Addr : Settled(a)

(* Page a is made, over the one that exists: that is a new page, or one    *)
(* that nothing is said of any more.  It may save other pages.             *)
New(a) ==
    /\ status = "running" /\ UNCHANGED <<status, refused>>
    /\ a \notin refused
    /\ \/ /\ readable'[a] # {} /\ readable'[a] \subseteq {Zeros, Garbage}
          /\ durable'[a] = Garbage
          /\ UNCHANGED renewed
       \/ /\ readable[a] # {Absent}
          /\ renewed' = renewed \cup {a}
    /\ \A b \in Addr \ {a} : Settled(b)

Write(a, content) ==
    /\ status = "running" /\ UNCHANGED <<status, durable, refused, renewed>>
    /\ readable[a] # {Absent}
    /\ readable' = [readable EXCEPT ![a] = {content}]

(* The user gives up what has not been saved. *)
GiveUp(a) ==
    /\ status = "running" /\ UNCHANGED <<status, durable, refused, renewed>>
    /\ readable' = [readable EXCEPT ![a] = @ \cup {durable[a]}]

(* The whole file goes, and other pages of it may be read from memory for  *)
(* a while; or the disk keeps it, and what was not saved is lost.          *)
Remove(a) ==
    /\ status = "running" /\ UNCHANGED <<status, refused, renewed>>
    /\ \/ durable' = [b \in Addr |-> IF b[1] = a[1] THEN Absent ELSE durable[b]]
       \/ UNCHANGED durable
    /\ a \in renewed \/ readable'[a] = {durable'[a]}
    /\ \A b \in Addr \ {a} :
          /\ readable'[b] # {}
          /\ readable'[b] \subseteq readable[b] \cup {durable'[b]}
          /\ b[1] # a[1] => readable'[b] = readable[b]

(* The program ends in order: nothing is lost that the disk accepts, but   *)
(* what is left of files that have been deleted ...                        *)
Close ==
    /\ status = "running" /\ status' = "squashed"
    /\ \A a \in Addr :
          \/ durable'[a] \in readable[a]
          \/ durable'[a] = durable[a] /\ (a \in refused \/ durable[a] = Absent)
    /\ readable' = [a \in Addr |-> {durable'[a]}]
    /\ UNCHANGED <<refused, renewed>>

(* ... or it does not. *)
Crash ==
    /\ status = "running" /\ status' = "dead"
    /\ readable' = OnlyDurable
    /\ UNCHANGED <<durable, refused, renewed>>

(* It starts again with what is on disk, all of it or nothing. *)
Commence ==
    /\ status # "running" /\ status' = "running"
    /\ \/ UNCHANGED durable
       \/ durable' = [a \in Addr |-> Absent]
    /\ readable' = [a \in Addr |-> {durable'[a]}]
    /\ renewed' = {}
    /\ UNCHANGED refused

Next ==
    \/ Settle
    \/ \E a \in Addr :
          \/ \E content \in Content : Write(a, content)
          \/ New(a) \/ GiveUp(a) \/ Remove(a)
    \/ Close \/ Crash \/ Commence \/ Refuse

Spec == Init /\ [][Next]_vars
=============================================================================
