------------------------------- MODULE Buffer -------------------------------
(***************************************************************************)
(* The buffer manager of buffer.c: a layer of slots for the pages of a     *)
(* disk and a layer for volatile pages, in front of a tinyFS disk.         *)
(*                                                                         *)
(* Timestamps are the tv_nsec of a clock, which starts again every second: *)
(* whatever the time of an operation, its stamp may be any, and smaller    *)
(* than the now it went by when it chose a slot.                           *)
(***************************************************************************)
EXTENDS Integers, Sequences, FiniteSetsExt

CONSTANTS
    File,           \* the files of the disk: their fds
    PageId,         \* the pages of a file
    VACANT,         \* VACANT_BLOCK, the fd of a slot that holds no page
    Content,        \* what users write into pages
    Zeros,          \* a page newPage() has made, in the buffer
    Garbage,        \* the same on disk: temp[] is shorter than a block
    Absent,         \* no such page on disk
    nPageBlocks,    \* slots of the page layer
    nCacheBlocks,   \* slots of the cache layer
    MaxStamp,       \* bound: stamps
    Volatile,       \* the pages that cache pages are asked for
    Refusals        \* the sets of pages whose writes the disk may refuse

ASSUME BufferAssumption ==
    /\ VACANT \notin File
    /\ Content \cap {Zeros, Garbage, Absent} = {}
    /\ Absent \notin {Zeros, Garbage}
    /\ nPageBlocks \in Nat \ {0}
    /\ nCacheBlocks \in Nat \ {0}
    /\ MaxStamp \in Nat
    /\ Volatile \subseteq File \X PageId
    /\ Refusals \subseteq SUBSET (File \X PageId) /\ {} \in Refusals

VARIABLES
    status,     \* the program runs, has called squash(), or is dead
    pages,      \* the page layer
    cache,      \* the cache layer
    disk,       \* the content of every page on disk
    files,      \* the files that have not been deleted
    refused,    \* the pages whose writes fail for now
    renewed     \* the pages newPage() has made although they were buffered

vars == <<status, pages, cache, disk, files, refused, renewed>>

FAILURE             == -1
NO_EVICT_CANDIDATES == -2

Addr   == File \X PageId
Data   == Content \cup {Zeros, Garbage, Absent}
Stamps == 0 .. MaxStamp

\* an emptied slot keeps its pageId, and its flags
Block == [addr : Addr \cup {VACANT} \X (PageId \cup {0}), data : Data \ {Absent},
          flags : SUBSET {"dirty", "pin", "volatile"}, stamp : Stamps]
Layer(maxBlocks) == [blocks : [1 .. maxBlocks -> Block], numOccupied : 0 .. maxBlocks]

TypeOK ==
    /\ status \in {"running", "squashed", "dead"}
    /\ pages \in Layer(nPageBlocks)
    /\ cache \in Layer(nCacheBlocks)
    /\ disk \in [Addr -> Data]
    /\ files \subseteq File
    /\ refused \in Refusals
    /\ renewed \subseteq Addr

(* initLayer() *)
InitLayer(maxBlocks) ==
    [blocks |-> [i \in 1 .. maxBlocks |->
                    [addr |-> <<VACANT, 0>>, data |-> Zeros, flags |-> {}, stamp |-> 0]],
     numOccupied |-> 0]

Init ==
    /\ status = "running"
    /\ pages = InitLayer(nPageBlocks)
    /\ cache = InitLayer(nCacheBlocks)
    /\ disk = [a \in Addr |-> Absent]
    /\ files = File
    /\ refused = {}
    /\ renewed = {}

----------------------------------------------------------------------------
(* Layers *)

Slots(layer) == DOMAIN layer.blocks

(* A mistake: the last slot is overlooked.                                 *)
FindButLast(layer, a) ==
    LET at == {i \in Slots(layer) : i < Len(layer.blocks) /\ layer.blocks[i].addr = a}
    IN  IF at = {} THEN FAILURE ELSE Min(at)

(* findBufferedPage() *)
FindBufferedPage(layer, a) ==
    LET at == {i \in Slots(layer) : layer.blocks[i].addr = a}
    IN  IF at = {} THEN FAILURE ELSE Min(at)

Buffered(a) == FindBufferedPage(pages, a) # FAILURE

IsVacant(block) == block.addr[1] = VACANT

(* A mistake: pinned pages are candidates.                                 *)
CandidatesPinned(layer, now) ==
    {i \in Slots(layer) : /\ "volatile" \notin layer.blocks[i].flags
                          /\ layer.blocks[i].stamp < now}

(* The slots lruEvict() chooses from when it sees no free one.  A volatile *)
(* slot is none of them: no stamp is less than oldestVolatileTimestamp.    *)
Candidates(layer, now) ==
    {i \in Slots(layer) : /\ layer.blocks[i].flags \cap {"pin", "volatile"} = {}
                          /\ layer.blocks[i].stamp < now}

(* lruEvict(): an emptied slot is found only as long as numOccupied, which *)
(* never falls, is below maxBlocks.                                        *)
LruEvict(layer, now) ==
    LET vacant == {i \in Slots(layer) : IsVacant(layer.blocks[i])}
        able   == Candidates(layer, now)
        oldest == {i \in able : \A j \in able : layer.blocks[i].stamp <= layer.blocks[j].stamp}
    IN  IF layer.numOccupied < Len(layer.blocks) /\ vacant # {} THEN Min(vacant)
        ELSE IF able = {} THEN NO_EVICT_CANDIDATES
        ELSE Min(oldest)

\* whatever the time is now
Evictable(layer) == {LruEvict(layer, now) : now \in Stamps}

IsDirty(layer, i) == "dirty" \in layer.blocks[i].flags

WithFlag(layer, i, flag) == [layer EXCEPT !.blocks[i].flags = @ \cup {flag}]
WithoutFlag(layer, i, flag) == [layer EXCEPT !.blocks[i].flags = @ \ {flag}]
Touched(layer, i, stamp) == [layer EXCEPT !.blocks[i].stamp = stamp]

(* A mistake: numOccupied is counted on and on.                            *)
PlacedCounting(layer, i, a, data, stamp) ==
    [blocks |-> [layer.blocks EXCEPT ![i] =
                    [addr |-> a, data |-> data, flags |-> @.flags, stamp |-> stamp]],
     numOccupied |-> layer.numOccupied + 1]

(* What readPage(), newPage() and allocateCachePage() do to the slot they  *)
(* have chosen.  clearFlagsIndex() clears nothing: the flags stay.         *)
Placed(layer, i, a, data, stamp) ==
    [blocks |-> [layer.blocks EXCEPT ![i] =
                    [addr |-> a, data |-> data, flags |-> @.flags, stamp |-> stamp]],
     numOccupied |-> IF layer.numOccupied < Len(layer.blocks)
                     THEN layer.numOccupied + 1 ELSE layer.numOccupied]

(* Emptying the first slot that holds a; it keeps its flags.               *)
Emptied(layer, a) ==
    LET i == FindBufferedPage(layer, a)
    IN  IF i = FAILURE THEN layer ELSE [layer EXCEPT !.blocks[i].addr[1] = VACANT]

(* tfs_writePage() succeeds. *)
Writable(a) == a[1] \in files /\ a \notin refused

(* flushPage(a) succeeds, and what it leaves in the buffer and on disk.    *)
CanFlush(a) ==
    Buffered(a) /\ (IsDirty(pages, FindBufferedPage(pages, a)) => Writable(a))

Cleaned(a) == WithoutFlag(pages, FindBufferedPage(pages, a), "dirty")

Saved(a) ==
    LET i == FindBufferedPage(pages, a)
    IN  IF IsDirty(pages, i) THEN [disk EXCEPT ![a] = pages.blocks[i].data] ELSE disk

----------------------------------------------------------------------------
(* Reading, writing, flushing *)

(* The slot chosen for a page is free once what it holds is saved.  A slot *)
(* that was emptied while dirty cannot be saved, and is not used.          *)
CanEvict(i) ==
    /\ i \in Slots(pages)
    /\ IsDirty(pages, i) => CanFlush(pages.blocks[i].addr)

AfterEvict(i) == IF IsDirty(pages, i) THEN Cleaned(pages.blocks[i].addr) ELSE pages

(* A mistake: what the slot holds is dropped.                              *)
DiskAsBefore(i) == disk

DiskAfterEvict(i) == IF IsDirty(pages, i) THEN Saved(pages.blocks[i].addr) ELSE disk

(* readPage() of a page that is buffered, ... *)
ReadBuffered(a) ==
    /\ status = "running" /\ Buffered(a)
    /\ \E stamp \in Stamps : pages' = Touched(pages, FindBufferedPage(pages, a), stamp)
    /\ UNCHANGED <<status, cache, disk, files, refused, renewed>>

(* ... and of one that is not.  It returns an error and changes nothing    *)
(* when no slot can be had or the disk does not have the page.             *)
ReadPage(a) ==
    /\ status = "running" /\ ~Buffered(a) /\ disk[a] # Absent
    /\ \E i \in Evictable(pages), stamp \in Stamps :
          /\ CanEvict(i)
          /\ disk' = DiskAfterEvict(i)
          /\ pages' = Placed(AfterEvict(i), i, a, disk[a], stamp)
    /\ UNCHANGED <<status, cache, files, refused, renewed>>

(* newPage() does not look whether the page exists: it writes over what    *)
(* the disk has of it, and takes a slot for it even if it has one already. *)
NewPage(a) ==
    /\ status = "running" /\ a[1] \in files
    /\ \E i \in Evictable(pages), stamp \in Stamps :
          /\ CanEvict(i)
          /\ IF Writable(a)
             THEN /\ disk' = [DiskAfterEvict(i) EXCEPT ![a] = Garbage]
                  /\ pages' = Placed(AfterEvict(i), i, a, Zeros, stamp)
                  /\ renewed' = IF Buffered(a) THEN renewed \cup {a} ELSE renewed
             ELSE /\ disk' = DiskAfterEvict(i)
                  /\ pages' = AfterEvict(i)
                  /\ UNCHANGED renewed
    /\ UNCHANGED <<status, cache, files, refused>>

(* The user changes the content of a buffered page and calls writePage().  *)
WritePage(a, content) ==
    /\ status = "running" /\ Buffered(a)
    /\ LET i       == FindBufferedPage(pages, a)
           changed == [pages EXCEPT !.blocks[i].data = content]
       IN  \E stamp \in Stamps : pages' = Touched(WithFlag(changed, i, "dirty"), i, stamp)
    /\ UNCHANGED <<status, cache, disk, files, refused, renewed>>

(* flushPage(), called by the user *)
FlushPage(a) ==
    /\ status = "running" /\ CanFlush(a)
    /\ pages' = Cleaned(a)
    /\ disk' = Saved(a)
    /\ UNCHANGED <<status, cache, files, refused, renewed>>

----------------------------------------------------------------------------
(* Flags *)

PinPage(a) ==
    /\ status = "running" /\ Buffered(a)
    /\ pages' = WithFlag(pages, FindBufferedPage(pages, a), "pin")
    /\ UNCHANGED <<status, cache, disk, files, refused, renewed>>

UnPinPage(a) ==
    /\ status = "running" /\ Buffered(a)
    /\ pages' = WithoutFlag(pages, FindBufferedPage(pages, a), "pin")
    /\ UNCHANGED <<status, cache, disk, files, refused, renewed>>

SetDirtyFlag(a) ==
    /\ status = "running" /\ Buffered(a)
    /\ pages' = WithFlag(pages, FindBufferedPage(pages, a), "dirty")
    /\ UNCHANGED <<status, cache, disk, files, refused, renewed>>

ClearDirtyFlag(a) ==
    /\ status = "running" /\ Buffered(a)
    /\ pages' = WithoutFlag(pages, FindBufferedPage(pages, a), "dirty")
    /\ UNCHANGED <<status, cache, disk, files, refused, renewed>>

----------------------------------------------------------------------------
(* Volatile pages *)

(* The slot of the cache layer becomes that of page a: dirty and volatile. *)
(* It stays volatile and is no candidate again, whatever its stamp.        *)
Allocated(layer, i, a) ==
    WithFlag(WithFlag(Placed(layer, i, a, Zeros, 0), i, "volatile"), i, "dirty")

(* allocateCachePage() finds a slot that is not marked volatile.           *)
AllocateCachePage(a) ==
    /\ status = "running"
    /\ \E i \in Evictable(cache) \cap Slots(cache) :
          /\ "volatile" \notin cache.blocks[i].flags
          /\ cache' = Allocated(cache, i, a)
    /\ UNCHANGED <<status, pages, disk, files, refused, renewed>>

(* The slot is marked volatile, although it was emptied: a page of the     *)
(* page layer is saved and copied over it, not the other way round.        *)
AllocateOverMarked(a) ==
    /\ status = "running"
    /\ \E i \in Evictable(cache) \cap Slots(cache), p \in Evictable(pages) \cap Slots(pages) :
          LET copied == [cache EXCEPT !.blocks[i] = Cleaned(pages.blocks[p].addr).blocks[p]]
          IN  /\ "volatile" \in cache.blocks[i].flags
              /\ CanFlush(pages.blocks[p].addr)
              /\ pages' = Cleaned(pages.blocks[p].addr)
              /\ disk' = Saved(pages.blocks[p].addr)
              /\ cache' = Allocated(copied, i, a)
    /\ UNCHANGED <<status, files, refused, renewed>>

(* There is no slot, and pageIsVolatileIndex() asserts that there is one:  *)
(* the program ends.                                                       *)
AllocateAsserts ==
    /\ status = "running"
    /\ NO_EVICT_CANDIDATES \in Evictable(cache)
    /\ status' = "dead"
    /\ pages' = InitLayer(nPageBlocks)
    /\ cache' = InitLayer(nCacheBlocks)
    /\ UNCHANGED <<disk, files, refused, renewed>>

(* removeCachePage(): the copies in both layers go, and with a page that   *)
(* is on disk the whole file, unless tfs_deleteFile() fails.               *)
RemoveCachePage(a) ==
    /\ status = "running"
    /\ cache' = Emptied(cache, a)
    /\ pages' = Emptied(pages, a)
    /\ \/ /\ disk[a] # Absent
          /\ files' = files \ {a[1]}
          /\ disk' = [b \in Addr |-> IF b[1] = a[1] THEN Absent ELSE disk[b]]
       \/ UNCHANGED <<files, disk>>
    /\ UNCHANGED <<status, refused, renewed>>

----------------------------------------------------------------------------
(* Beginning and end *)

(* commence() mounts the disk as it is, or makes an empty one in its place *)
(* when tfs_mount() fails, for whatever reason.                            *)
Commence ==
    /\ status # "running"
    /\ status' = "running"
    /\ pages' = InitLayer(nPageBlocks)
    /\ cache' = InitLayer(nCacheBlocks)
    /\ \/ UNCHANGED <<disk, files>>
       \/ disk' = [a \in Addr |-> Absent] /\ files' = File
    /\ renewed' = {}
    /\ UNCHANGED refused

(* squash() goes on when a flush fails. *)
FlushedBySquash(a) ==
    Buffered(a) /\ IsDirty(pages, FindBufferedPage(pages, a)) /\ Writable(a)

Squash ==
    /\ status = "running"
    /\ status' = "squashed"
    /\ disk' = [a \in Addr |-> IF FlushedBySquash(a) THEN Saved(a)[a] ELSE disk[a]]
    /\ pages' = InitLayer(nPageBlocks)
    /\ cache' = InitLayer(nCacheBlocks)
    /\ UNCHANGED <<files, refused, renewed>>

(* The program is killed. *)
Crash ==
    /\ status = "running"
    /\ status' = "dead"
    /\ pages' = InitLayer(nPageBlocks)
    /\ cache' = InitLayer(nCacheBlocks)
    /\ UNCHANGED <<disk, files, refused, renewed>>

(* The disk begins or ceases to refuse pages. *)
Refuse ==
    /\ refused' \in Refusals
    /\ UNCHANGED <<status, pages, cache, disk, files, renewed>>

Next ==
    \/ \E a \in Addr :
          \/ ReadBuffered(a) \/ ReadPage(a) \/ NewPage(a) \/ FlushPage(a)
          \/ \E content \in Content : WritePage(a, content)
          \/ PinPage(a) \/ UnPinPage(a) \/ SetDirtyFlag(a) \/ ClearDirtyFlag(a)
          \/ RemoveCachePage(a)
    \/ \E a \in Volatile : AllocateCachePage(a) \/ AllocateOverMarked(a)
    \/ AllocateAsserts
    \/ Squash \/ Crash \/ Commence
    \/ Refuse

Spec == Init /\ [][Next]_vars

----------------------------------------------------------------------------
(* What a reader may find: the buffered content, and what the disk has     *)
(* once the buffer may drop it.                                            *)
Readable(a) ==
    LET i == FindBufferedPage(pages, a)
    IN  IF i = FAILURE THEN {disk[a]}
        ELSE IF IsDirty(pages, i) THEN {pages.blocks[i].data}
        ELSE {pages.blocks[i].data, disk[a]}

(* Through every eviction, refusal and restart, users find what they wrote *)
(* and lose no more than a crash may take, or than the whole disk when it  *)
(* cannot be mounted; but nothing can be said of a page that newPage() has *)
(* put into a second slot, until the program starts again.                 *)
(* (readPage(), newPage(), flushPage(), allocateCachePage(), squash())     *)
Store == INSTANCE PageStore WITH
    readable <- [a \in Addr |-> Readable(a)],
    durable  <- disk

ImplementsPageStore == Store!Spec

(* buffer.h:86: a pinned page "cannot be evicted" until unpinned: while    *)
(* the program runs it leaves the buffer only when it is removed.          *)
(* (lruEvict(), readPage(), newPage(), allocateCachePage())                *)
Pinned(a) == Buffered(a) /\ "pin" \in pages.blocks[FindBufferedPage(pages, a)].flags
PinnedStays ==
    [][\A a \in Addr : Pinned(a) /\ status' = "running" => Buffered(a)' \/ RemoveCachePage(a)]_vars

(* No page is in the page layer twice, unless newPage() has been called    *)
(* for it while it was there: nothing could tell which copy is the right   *)
(* one.  (readPage(), newPage(), findBufferedPage(), allocateCachePage())  *)
OneCopy ==
    \A i, j \in Slots(pages) :
        /\ pages.blocks[i].addr = pages.blocks[j].addr
        /\ ~IsVacant(pages.blocks[i]) /\ pages.blocks[i].addr \notin renewed
        => i = j

(* buffer.h:74: "If the cache layer is full then a cache page is evicted   *)
(* to the persistent layer of the buffer": asking for a cache page never   *)
(* ends the program.                                                       *)
CacheOverflows == [][~AllocateAsserts]_vars
=============================================================================
