---------------------------- MODULE Buffer_proofs ----------------------------
(***************************************************************************)
(* Proofs about Buffer: for any number of slots, files and pages, whatever *)
(* writes the disk refuses and whenever the program ends.                  *)
(***************************************************************************)
EXTENDS Buffer, ListLemmas

----------------------------------------------------------------------------
(* Slots *)

(* Of some slots one is the oldest. *)
LEMMA OldestOfSome ==
    ASSUME NEW n \in Nat, NEW S \in SUBSET (1 .. n), S # {},
           NEW age \in [1 .. n -> Nat]
    PROVE  \E i \in S : \A j \in S : age[i] <= age[j]
<1> DEFINE Ages == {age[i] : i \in S}
<1>1. Ages \in SUBSET Nat /\ Ages # {}
    OBVIOUS
<1>2. PICK x \in Ages : \A y \in Ages : x <= y
    <2> HIDE DEF Ages
    <2> QED BY <1>1, LeastOfSome
<1>3. PICK i \in S : x = age[i]
    OBVIOUS
<1> QED BY <1>2, <1>3

(* findBufferedPage() finds a slot that holds the page, if there is one.   *)
LEMMA FirstSlot ==
    ASSUME NEW n \in Nat, NEW layer \in Layer(n), NEW a
    PROVE  /\ FindBufferedPage(layer, a) = FAILURE <=>
                    \A i \in 1 .. n : layer.blocks[i].addr # a
           /\ FindBufferedPage(layer, a) # FAILURE =>
                    /\ FindBufferedPage(layer, a) \in 1 .. n
                    /\ layer.blocks[FindBufferedPage(layer, a)].addr = a
<1> DEFINE at == {i \in 1 .. n : layer.blocks[i].addr = a}
<1>1. Slots(layer) = 1 .. n
    BY DEF Slots, Layer
<1>2. FindBufferedPage(layer, a) = IF at = {} THEN FAILURE ELSE Min(at)
    BY <1>1 DEF FindBufferedPage
<1>3. CASE at = {}
    BY <1>2, <1>3 DEF FAILURE
<1>4. CASE at # {}
    <2>1. Min(at) \in at
        BY <1>4, LeastOfSome
    <2>2. Min(at) # FAILURE
        BY <2>1 DEF FAILURE
    <2> QED BY <1>2, <1>4, <2>1, <2>2
<1> QED BY <1>3, <1>4

(* lruEvict() chooses a slot that is free, or whose page is neither pinned *)
(* nor volatile.                                                           *)
LEMMA LruChoice ==
    ASSUME NEW n \in Nat, NEW layer \in Layer(n), NEW now \in Stamps, MaxStamp \in Nat
    PROVE  LET i == LruEvict(layer, now)
           IN  \/ i = NO_EVICT_CANDIDATES
               \/ /\ i \in 1 .. n
                  /\ \/ IsVacant(layer.blocks[i])
                     \/ layer.blocks[i].flags \cap {"pin", "volatile"} = {}
<1> DEFINE vacant == {i \in 1 .. n : IsVacant(layer.blocks[i])}
           able   == Candidates(layer, now)
           stamp  == [i \in 1 .. n |-> layer.blocks[i].stamp]
           oldest == {i \in able : \A j \in able : layer.blocks[i].stamp <= layer.blocks[j].stamp}
<1>1. Slots(layer) = 1 .. n
    BY DEF Slots, Layer
<1>2. CASE layer.numOccupied < Len(layer.blocks) /\ vacant # {}
    <2>1. LruEvict(layer, now) = Min(vacant)
        BY <1>1, <1>2 DEF LruEvict
    <2>2. vacant \in SUBSET Nat
        OBVIOUS
    <2>3. Min(vacant) \in vacant
        <3> HIDE DEF vacant
        <3> QED BY <1>2, <2>2, LeastOfSome
    <2> QED BY <2>1, <2>3
<1>3. CASE ~(layer.numOccupied < Len(layer.blocks) /\ vacant # {}) /\ able = {}
    BY SMTT(30), <1>1, <1>3 DEF LruEvict
<1>4. CASE ~(layer.numOccupied < Len(layer.blocks) /\ vacant # {}) /\ able # {}
    <2>1. LruEvict(layer, now) = Min(oldest)
        BY <1>1, <1>4 DEF LruEvict
    <2>2. able \subseteq 1 .. n /\ stamp \in [1 .. n -> Nat]
        BY <1>1 DEF Candidates, Layer, Block, Stamps
    <2>3. PICK i \in able : \A j \in able : stamp[i] <= stamp[j]
        <3> HIDE DEF able, stamp
        <3> QED BY <1>4, <2>2, OldestOfSome
    <2>4. oldest # {} /\ oldest \subseteq 1 .. n
        BY <2>2, <2>3
    <2>5. Min(oldest) \in able
        <3> HIDE DEF oldest
        <3>1. Min(oldest) \in oldest
            BY <2>4, LeastOfSome
        <3> QED BY <3>1 DEF oldest
    <2> QED BY <2>1, <2>2, <2>5 DEF Candidates
<1> QED BY <1>2, <1>3, <1>4

----------------------------------------------------------------------------
(* What the operations on a slot do *)

(* Another block in one slot. *)
LEMMA BlockReplaced ==
    ASSUME NEW n \in Nat, NEW layer \in Layer(n), NEW i \in 1 .. n, NEW block \in Block
    PROVE  LET new == [layer EXCEPT !.blocks[i] = block]
           IN  /\ new \in Layer(n)
               /\ \A j \in 1 .. n :
                     new.blocks[j] = IF j = i THEN block ELSE layer.blocks[j]
<1> DEFINE blocks == [layer.blocks EXCEPT ![i] = block]
<1>1. /\ layer = [blocks |-> layer.blocks, numOccupied |-> layer.numOccupied]
      /\ layer.blocks \in [1 .. n -> Block]
      /\ layer.numOccupied \in 0 .. n
    BY DEF Layer
<1>2. /\ blocks \in [1 .. n -> Block]
      /\ \A j \in 1 .. n : blocks[j] = IF j = i THEN block ELSE layer.blocks[j]
    BY <1>1
<1>3. [layer EXCEPT !.blocks[i] = block] = [layer EXCEPT !.blocks = blocks]
    OBVIOUS
<1>4. [layer EXCEPT !.blocks[i] = block] =
        [blocks |-> blocks, numOccupied |-> layer.numOccupied]
    <2> HIDE DEF blocks
    <2> QED BY <1>1, <1>3
<1> QED
    <2> HIDE DEF blocks
    <2> QED BY <1>1, <1>2, <1>4 DEF Layer

Flag == {"dirty", "pin", "volatile"}

(* Setting or clearing a flag changes the flags of one slot. *)
LEMMA FlagSet ==
    ASSUME NEW n \in Nat, NEW layer \in Layer(n), NEW i \in 1 .. n,
           NEW flag \in Flag
    PROVE  /\ WithFlag(layer, i, flag) \in Layer(n)
           /\ \A j \in 1 .. n :
                 WithFlag(layer, i, flag).blocks[j] =
                    IF j = i THEN [layer.blocks[i] EXCEPT !.flags = @ \cup {flag}]
                    ELSE layer.blocks[j]
<1> DEFINE block == [layer.blocks[i] EXCEPT !.flags = @ \cup {flag}]
<1>1. block \in Block
    BY DEF Layer, Block, Flag
<1>2. WithFlag(layer, i, flag) = [layer EXCEPT !.blocks[i] = block]
    BY DEF WithFlag
<1> QED
    <2> HIDE DEF block
    <2>1. WithFlag(layer, i, flag) = [layer EXCEPT !.blocks[i] = block]
        BY <1>2
    <2>2. /\ WithFlag(layer, i, flag) \in Layer(n)
          /\ \A j \in 1 .. n :
                WithFlag(layer, i, flag).blocks[j] = IF j = i THEN block ELSE layer.blocks[j]
        BY <1>1, <2>1, BlockReplaced
    <2> QED BY <2>2 DEF block

LEMMA FlagCleared ==
    ASSUME NEW n \in Nat, NEW layer \in Layer(n), NEW i \in 1 .. n,
           NEW flag
    PROVE  /\ WithoutFlag(layer, i, flag) \in Layer(n)
           /\ \A j \in 1 .. n :
                 WithoutFlag(layer, i, flag).blocks[j] =
                    IF j = i THEN [layer.blocks[i] EXCEPT !.flags = @ \ {flag}]
                    ELSE layer.blocks[j]
<1> DEFINE block == [layer.blocks[i] EXCEPT !.flags = @ \ {flag}]
<1>1. block \in Block
    BY DEF Layer, Block
<1>2. WithoutFlag(layer, i, flag) = [layer EXCEPT !.blocks[i] = block]
    BY DEF WithoutFlag
<1> QED
    <2> HIDE DEF block
    <2>1. WithoutFlag(layer, i, flag) = [layer EXCEPT !.blocks[i] = block]
        BY <1>2
    <2>2. /\ WithoutFlag(layer, i, flag) \in Layer(n)
          /\ \A j \in 1 .. n :
                WithoutFlag(layer, i, flag).blocks[j] = IF j = i THEN block ELSE layer.blocks[j]
        BY <1>1, <2>1, BlockReplaced
    <2> QED BY <2>2 DEF block

LEMMA StampSet ==
    ASSUME NEW n \in Nat, NEW layer \in Layer(n), NEW i \in 1 .. n,
           NEW stamp \in Stamps
    PROVE  /\ Touched(layer, i, stamp) \in Layer(n)
           /\ \A j \in 1 .. n :
                 Touched(layer, i, stamp).blocks[j] =
                    IF j = i THEN [layer.blocks[i] EXCEPT !.stamp = stamp]
                    ELSE layer.blocks[j]
<1> DEFINE block == [layer.blocks[i] EXCEPT !.stamp = stamp]
<1>1. block \in Block
    BY DEF Layer, Block
<1>2. Touched(layer, i, stamp) = [layer EXCEPT !.blocks[i] = block]
    BY DEF Touched
<1> QED
    <2> HIDE DEF block
    <2>1. Touched(layer, i, stamp) = [layer EXCEPT !.blocks[i] = block]
        BY <1>2
    <2>2. /\ Touched(layer, i, stamp) \in Layer(n)
          /\ \A j \in 1 .. n :
                Touched(layer, i, stamp).blocks[j] = IF j = i THEN block ELSE layer.blocks[j]
        BY <1>1, <2>1, BlockReplaced
    <2> QED BY <2>2 DEF block

(* A page comes into a slot with all the flags of the one before it.       *)
LEMMA PagePlaced ==
    ASSUME NEW n \in Nat, NEW layer \in Layer(n), NEW i \in 1 .. n,
           NEW a \in Addr, NEW data \in Data \ {Absent}, NEW stamp \in Stamps
    PROVE  /\ Placed(layer, i, a, data, stamp) \in Layer(n)
           /\ \A j \in 1 .. n :
                 Placed(layer, i, a, data, stamp).blocks[j] =
                    IF j = i THEN [addr |-> a, data |-> data,
                                   flags |-> layer.blocks[i].flags, stamp |-> stamp]
                    ELSE layer.blocks[j]
<1> DEFINE block == [addr |-> a, data |-> data, flags |-> layer.blocks[i].flags, stamp |-> stamp]
           new == [layer.blocks EXCEPT ![i] = block]
           occupied == IF layer.numOccupied < Len(layer.blocks)
                       THEN layer.numOccupied + 1 ELSE layer.numOccupied
<1>1. layer.blocks \in [1 .. n -> Block] /\ layer.numOccupied \in 0 .. n
    BY DEF Layer
<1>2. Len(layer.blocks) = n
    BY <1>1
<1>3. occupied \in 0 .. n
    BY <1>1, <1>2
<1>4. block \in Block
    BY <1>1 DEF Block, Addr
<1> QED
    <2>1. Placed(layer, i, a, data, stamp) = [blocks |-> new, numOccupied |-> occupied]
        BY DEF Placed
    <2> HIDE DEF block
    <2>2. /\ new \in [1 .. n -> Block]
          /\ \A j \in 1 .. n : new[j] = IF j = i THEN block ELSE layer.blocks[j]
        BY <1>1, <1>4
    <2> HIDE DEF new, occupied
    <2>3. /\ Placed(layer, i, a, data, stamp) \in Layer(n)
          /\ \A j \in 1 .. n :
                Placed(layer, i, a, data, stamp).blocks[j] =
                    IF j = i THEN block ELSE layer.blocks[j]
        BY <1>3, <2>1, <2>2 DEF Layer
    <2> QED BY <2>3 DEF block

(* A slot is emptied by overwriting its fd.                                *)
LEMMA SlotEmptied ==
    ASSUME NEW n \in Nat, NEW layer \in Layer(n), NEW a \in Addr, VACANT \notin File
    PROVE  /\ Emptied(layer, a) \in Layer(n)
           /\ \A j \in 1 .. n :
                 Emptied(layer, a).blocks[j] =
                    IF j = FindBufferedPage(layer, a)
                    THEN [layer.blocks[j] EXCEPT !.addr = <<VACANT, a[2]>>]
                    ELSE layer.blocks[j]
<1> DEFINE i == FindBufferedPage(layer, a)
<1>1. CASE i = FAILURE
    <2>1. Emptied(layer, a) = layer
        BY <1>1 DEF Emptied
    <2>2. \A j \in 1 .. n : j # i
        BY <1>1 DEF FAILURE
    <2> QED BY <2>1, <2>2
<1>2. CASE i # FAILURE
    <2>1. i \in 1 .. n /\ layer.blocks[i].addr = a
        BY <1>2, FirstSlot
    <2>2. Emptied(layer, a) = [layer EXCEPT !.blocks[i].addr[1] = VACANT]
        BY <1>2 DEF Emptied
    <2> HIDE DEF i
    <2> DEFINE block == [layer.blocks[i] EXCEPT !.addr = <<VACANT, a[2]>>]
    <2>3. layer.blocks[i] \in Block /\ block \in Block
        <3>1. layer.blocks[i] \in Block
            BY <2>1 DEF Layer
        <3>2. <<VACANT, a[2]>> \in {VACANT} \X (PageId \cup {0})
            BY DEF Addr
        <3> QED BY <3>1, <3>2 DEF Block
    <2>4. [layer.blocks[i].addr EXCEPT ![1] = VACANT] = <<VACANT, a[2]>>
        BY <2>1 DEF Addr
    <2>5. Emptied(layer, a) = [layer EXCEPT !.blocks[i] = block]
        BY <2>2, <2>4
    <2>6. /\ Emptied(layer, a) \in Layer(n)
          /\ \A j \in 1 .. n :
                Emptied(layer, a).blocks[j] = IF j = i THEN block ELSE layer.blocks[j]
        <3> HIDE DEF block
        <3> QED BY <2>1, <2>3, <2>5, BlockReplaced
    <2> QED BY <2>6 DEF i
<1> QED BY <1>1, <1>2

----------------------------------------------------------------------------
(* Where pages are found *)

(* No page but those of D is in two slots. *)
Single(layer, D) ==
    \A i, j \in Slots(layer) :
        /\ layer.blocks[i].addr = layer.blocks[j].addr
        /\ ~IsVacant(layer.blocks[i]) /\ layer.blocks[i].addr \notin D
        => i = j

(* As long as no address changes pages are found where they were.          *)
LEMMA SameAddresses ==
    ASSUME NEW n \in Nat, NEW layer \in Layer(n), NEW new \in Layer(n),
           \A j \in 1 .. n : new.blocks[j].addr = layer.blocks[j].addr
    PROVE  /\ \A b : FindBufferedPage(new, b) = FindBufferedPage(layer, b)
           /\ \A D : Single(layer, D) => Single(new, D)
<1>1. Slots(layer) = 1 .. n /\ Slots(new) = 1 .. n
    BY DEF Slots, Layer
<1>2. ASSUME NEW b PROVE FindBufferedPage(new, b) = FindBufferedPage(layer, b)
    <2>1. {i \in Slots(new) : new.blocks[i].addr = b} =
            {i \in Slots(layer) : layer.blocks[i].addr = b}
        BY <1>1
    <2> QED BY <2>1 DEF FindBufferedPage
<1>3. ASSUME NEW D, Single(layer, D) PROVE Single(new, D)
    BY <1>1, <1>3 DEF Single, IsVacant
<1> QED BY <1>2, <1>3

(* The slot that holds a page is the one where it is found. *)
LEMMA OnlySlot ==
    ASSUME NEW n \in Nat, NEW layer \in Layer(n), NEW D, Single(layer, D), VACANT \notin File,
           NEW i \in 1 .. n, layer.blocks[i].addr \in Addr, layer.blocks[i].addr \notin D
    PROVE  FindBufferedPage(layer, layer.blocks[i].addr) = i
<1> DEFINE k == FindBufferedPage(layer, layer.blocks[i].addr)
<1>1. k \in 1 .. n /\ layer.blocks[k].addr = layer.blocks[i].addr
    BY FirstSlot
<1>2. ~IsVacant(layer.blocks[k])
    BY <1>1 DEF IsVacant, Addr
<1> QED BY <1>1, <1>2 DEF Single, Slots, Layer

(* A page that is placed is found in its slot if it has no other, and all  *)
(* others but the one it replaces where they were.                         *)
LEMMA FoundWhenPlaced ==
    ASSUME NEW n \in Nat, NEW layer \in Layer(n), NEW new \in Layer(n), VACANT \notin File,
           NEW D, NEW E, D \subseteq E, Single(layer, D), NEW i \in 1 .. n, NEW a \in Addr,
           FindBufferedPage(layer, a) # FAILURE => a \in E,
           new.blocks[i].addr = a,
           \A j \in 1 .. n : j # i => new.blocks[j].addr = layer.blocks[j].addr
    PROVE  /\ Single(new, E)
           /\ FindBufferedPage(new, a) # FAILURE
           /\ FindBufferedPage(layer, a) = FAILURE => FindBufferedPage(new, a) = i
           /\ \A b \in Addr : b # a =>
                /\ FindBufferedPage(layer, b) \notin {FAILURE, i} =>
                      FindBufferedPage(new, b) # FAILURE
                /\ b \notin E =>
                      FindBufferedPage(new, b) =
                          IF FindBufferedPage(layer, b) = i THEN FAILURE
                          ELSE FindBufferedPage(layer, b)
<1>1. Slots(layer) = 1 .. n /\ Slots(new) = 1 .. n
    BY DEF Slots, Layer
<1>2. FindBufferedPage(layer, a) = FAILURE => \A j \in 1 .. n : layer.blocks[j].addr # a
    BY FirstSlot
<1>3. Single(new, E)
    BY <1>1, <1>2 DEF Single, IsVacant
<1>4. FindBufferedPage(new, a) # FAILURE
    BY FirstSlot
<1>5. ASSUME FindBufferedPage(layer, a) = FAILURE PROVE FindBufferedPage(new, a) = i
    <2>1. FindBufferedPage(new, a) \in 1 .. n /\ new.blocks[FindBufferedPage(new, a)].addr = a
        BY <1>4, FirstSlot
    <2>2. \A j \in 1 .. n : j # i => new.blocks[j].addr # a
        BY <1>2, <1>5
    <2> QED BY <2>1, <2>2
<1>6. ASSUME NEW b \in Addr, b # a, FindBufferedPage(layer, b) \notin {FAILURE, i}
      PROVE  FindBufferedPage(new, b) # FAILURE
    <2> DEFINE k == FindBufferedPage(layer, b)
    <2>1. k \in 1 .. n /\ layer.blocks[k].addr = b /\ k # i
        BY <1>6, FirstSlot
    <2>2. new.blocks[k].addr = b
        BY <2>1
    <2> QED BY <2>1, <2>2, FirstSlot
<1>7. ASSUME NEW b \in Addr, b # a, b \notin E
      PROVE  FindBufferedPage(new, b) =
                IF FindBufferedPage(layer, b) = i THEN FAILURE
                ELSE FindBufferedPage(layer, b)
    <2> DEFINE k == FindBufferedPage(layer, b)
    <2>1. CASE k = FAILURE
        <3>1. \A j \in 1 .. n : new.blocks[j].addr # b
            BY <1>7, <2>1, FirstSlot
        <3> QED BY <2>1, <3>1, FirstSlot DEF FAILURE
    <2>2. CASE k # FAILURE /\ k # i
        <3>1. k \in 1 .. n /\ layer.blocks[k].addr = b
            BY <2>2, FirstSlot
        <3>2. new.blocks[k].addr = b
            BY <2>2, <3>1
        <3>3. FindBufferedPage(new, b) = k
            <4> HIDE DEF k
            <4> QED BY <1>3, <1>7, <3>1, <3>2, OnlySlot
        <3> QED BY <2>2, <3>3
    <2>3. CASE k # FAILURE /\ k = i
        <3>1. layer.blocks[i].addr = b
            BY <2>3, FirstSlot
        <3>2. \A j \in 1 .. n : j # i => layer.blocks[j].addr # b
            <4>1. ~IsVacant(layer.blocks[i])
                BY <3>1 DEF IsVacant, Addr
            <4> QED BY <1>1, <1>7, <3>1, <4>1 DEF Single
        <3>3. \A j \in 1 .. n : new.blocks[j].addr # b
            BY <1>7, <3>2
        <3> QED BY <2>3, <3>3, FirstSlot
    <2> QED BY <2>1, <2>2, <2>3
<1> QED BY <1>3, <1>4, <1>5, <1>6, <1>7

(* Of all pages only the one that is removed is not found any more.        *)
LEMMA FoundWhenEmptied ==
    ASSUME NEW n \in Nat, NEW layer \in Layer(n), VACANT \notin File,
           NEW D, Single(layer, D), NEW a \in Addr
    PROVE  LET new == Emptied(layer, a)
           IN  /\ Single(new, D)
               /\ a \notin D => FindBufferedPage(new, a) = FAILURE
               /\ \A b \in Addr : b # a =>
                    FindBufferedPage(new, b) = FindBufferedPage(layer, b)
<1> DEFINE new == Emptied(layer, a)
           i   == FindBufferedPage(layer, a)
<1>1. /\ new \in Layer(n)
      /\ \A j \in 1 .. n :
            new.blocks[j] = IF j = i THEN [layer.blocks[j] EXCEPT !.addr = <<VACANT, a[2]>>]
                            ELSE layer.blocks[j]
    BY SlotEmptied
<1>2. Slots(layer) = 1 .. n /\ Slots(new) = 1 .. n
    BY <1>1 DEF Slots, Layer
<1>3. \A j \in 1 .. n : new.blocks[j].addr = IF j = i THEN <<VACANT, a[2]>>
                                           ELSE layer.blocks[j].addr
    <2> HIDE DEF new, i
    <2>1. \A j \in 1 .. n : layer.blocks[j] \in Block
        BY DEF Layer
    <2> QED BY <1>1, <2>1 DEF Block
<1> HIDE DEF new
<1>4. Single(new, D)
    <2> HIDE DEF i
    <2> QED BY <1>2, <1>3 DEF Single, IsVacant
<1>5. ASSUME a \notin D PROVE FindBufferedPage(new, a) = FAILURE
    <2>1. ASSUME NEW j \in 1 .. n PROVE new.blocks[j].addr # a
        <3>1. CASE j = i
            BY <1>3, <3>1 DEF Addr
        <3>2. CASE j # i
            <4>1. layer.blocks[j].addr # a
                BY <1>5, <3>2, OnlySlot
            <4> QED BY <1>3, <3>2, <4>1
        <3> QED BY <3>1, <3>2
    <2> QED BY <1>1, <2>1, FirstSlot
<1>6. ASSUME NEW b \in Addr, b # a
      PROVE  FindBufferedPage(new, b) = FindBufferedPage(layer, b)
    <2>1. b[1] # VACANT
        BY DEF Addr
    <2>2. i # FAILURE => layer.blocks[i].addr = a /\ i \in 1 .. n
        BY FirstSlot
    <2>3. \A j \in 1 .. n : new.blocks[j].addr = b <=> layer.blocks[j].addr = b
        <3> HIDE DEF i
        <3>1. \A j \in 1 .. n : j = i => i # FAILURE
            BY DEF FAILURE
        <3> QED BY <1>3, <1>6, <2>1, <2>2, <3>1
    <2>4. {j \in Slots(new) : new.blocks[j].addr = b} =
            {j \in Slots(layer) : layer.blocks[j].addr = b}
        BY <1>2, <2>3
    <2> QED BY <2>4 DEF FindBufferedPage
<1> QED BY <1>4, <1>5, <1>6 DEF new

----------------------------------------------------------------------------
(* The invariant *)

Inv == TypeOK /\ OneCopy

LEMMA Sizes ==
    /\ VACANT \notin File
    /\ nPageBlocks \in Nat /\ nCacheBlocks \in Nat /\ MaxStamp \in Nat
    /\ Zeros \in Data \ {Absent} /\ Garbage \in Data \ {Absent}
    /\ Content \subseteq Data \ {Absent}
BY BufferAssumption DEF Data

LEMMA Empty ==
    ASSUME NEW n \in Nat
    PROVE  /\ InitLayer(n) \in Layer(n)
           /\ \A D : Single(InitLayer(n), D)
           /\ \A a \in Addr : FindBufferedPage(InitLayer(n), a) = FAILURE
<1>1. <<VACANT, 0>> \in {VACANT} \X (PageId \cup {0}) /\ 0 \in Stamps
    BY Sizes DEF Stamps
<1>2. InitLayer(n) \in Layer(n)
    BY <1>1, Sizes DEF InitLayer, Layer, Block
<1>3. \A j \in 1 .. n : InitLayer(n).blocks[j].addr = <<VACANT, 0>>
    BY DEF InitLayer
<1>4. \A D : Single(InitLayer(n), D)
    BY <1>2, <1>3 DEF Single, IsVacant, Slots, Layer
<1>5. ASSUME NEW a \in Addr PROVE FindBufferedPage(InitLayer(n), a) = FAILURE
    <2>1. a[1] # VACANT
        BY Sizes DEF Addr
    <2> QED BY <1>2, <1>3, <2>1, FirstSlot
<1> QED BY <1>2, <1>4, <1>5

(* Where a page is found there is a slot. *)
LEMMA BufferedAt ==
    ASSUME TypeOK, NEW a, Buffered(a)
    PROVE  /\ FindBufferedPage(pages, a) \in 1 .. nPageBlocks
           /\ pages.blocks[FindBufferedPage(pages, a)].addr = a
           /\ pages.blocks[FindBufferedPage(pages, a)] \in Block
BY Sizes, FirstSlot DEF TypeOK, Buffered, Layer

(* flushPage() does nothing, or saves a page and marks it clean.           *)
LEMMA Flushing ==
    ASSUME TypeOK, NEW a, CanFlush(a)
    PROVE  LET k == FindBufferedPage(pages, a)
           IN  /\ Cleaned(a) \in Layer(nPageBlocks)
               /\ Saved(a) \in [Addr -> Data]
               /\ \/ /\ ~IsDirty(pages, k)
                     /\ \A j \in 1 .. nPageBlocks : Cleaned(a).blocks[j] = pages.blocks[j]
                     /\ Saved(a) = disk
                  \/ /\ IsDirty(pages, k)
                     /\ a \in Addr /\ Writable(a)
                     /\ \A j \in 1 .. nPageBlocks :
                           Cleaned(a).blocks[j] =
                              IF j = k THEN [pages.blocks[k] EXCEPT !.flags = @ \ {"dirty"}]
                              ELSE pages.blocks[j]
                     /\ Saved(a) = [disk EXCEPT ![a] = pages.blocks[k].data]
<1> DEFINE k == FindBufferedPage(pages, a)
<1>1. /\ k \in 1 .. nPageBlocks /\ pages.blocks[k].addr = a /\ pages.blocks[k] \in Block
      /\ pages \in Layer(nPageBlocks) /\ disk \in [Addr -> Data]
    BY BufferedAt DEF CanFlush, TypeOK
<1> HIDE DEF k
<1>2. /\ Cleaned(a) \in Layer(nPageBlocks)
      /\ \A j \in 1 .. nPageBlocks :
            Cleaned(a).blocks[j] =
                IF j = k THEN [pages.blocks[k] EXCEPT !.flags = @ \ {"dirty"}]
                ELSE pages.blocks[j]
    BY <1>1, Sizes, FlagCleared DEF Cleaned, k
<1>3. CASE ~IsDirty(pages, k)
    <2>1. [pages.blocks[k] EXCEPT !.flags = @ \ {"dirty"}] = pages.blocks[k]
        <3>1. pages.blocks[k].flags \ {"dirty"} = pages.blocks[k].flags
            BY <1>3 DEF IsDirty
        <3> QED BY <1>1, <3>1 DEF Block
    <2> QED BY <1>1, <1>2, <1>3, <2>1 DEF Saved, k
<1>4. CASE IsDirty(pages, k)
    <2>1. Writable(a) /\ Buffered(a)
        BY <1>4 DEF CanFlush, k
    <2>2. a \in Addr
        BY <1>1, <2>1, Sizes DEF Block, Writable, TypeOK
    <2>3. Saved(a) = [disk EXCEPT ![a] = pages.blocks[k].data]
        BY <1>4 DEF Saved, k
    <2>4. Saved(a) \in [Addr -> Data]
        BY <1>1, <2>3 DEF Block
    <2> QED BY <1>2, <1>4, <2>1, <2>2, <2>3, <2>4 DEF k
<1> QED BY <1>3, <1>4

(* The slot a page is going to be placed in: what it held is saved, or     *)
(* need not be; of a page that is in two slots the first is saved.         *)
LEMMA Evicting ==
    ASSUME Inv, NEW i, CanEvict(i)
    PROVE  LET e == pages.blocks[i].addr
               k == FindBufferedPage(pages, e)
           IN  /\ i \in 1 .. nPageBlocks
               /\ AfterEvict(i) \in Layer(nPageBlocks)
               /\ DiskAfterEvict(i) \in [Addr -> Data]
               /\ e \in Addr \ renewed => k = i
               /\ \/ /\ \A j \in 1 .. nPageBlocks : AfterEvict(i).blocks[j] = pages.blocks[j]
                     /\ DiskAfterEvict(i) = disk
                     /\ e \in Addr \ renewed => ~IsDirty(pages, i)
                  \/ /\ IsDirty(pages, k)
                     /\ e \in Addr /\ Writable(e) /\ k \in 1 .. nPageBlocks
                     /\ \A j \in 1 .. nPageBlocks :
                           AfterEvict(i).blocks[j] =
                              IF j = k THEN [pages.blocks[k] EXCEPT !.flags = @ \ {"dirty"}]
                              ELSE pages.blocks[j]
                     /\ DiskAfterEvict(i) = [disk EXCEPT ![e] = pages.blocks[k].data]
<1> DEFINE e == pages.blocks[i].addr
           k == FindBufferedPage(pages, e)
<1>1. i \in 1 .. nPageBlocks
    BY DEF CanEvict, Slots, Inv, TypeOK, Layer
<1>2. e \in Addr \ renewed => k = i
    BY <1>1, Sizes, OnlySlot DEF Inv, TypeOK, OneCopy, Single
<1>3. CASE ~IsDirty(pages, i)
    BY <1>1, <1>2, <1>3 DEF AfterEvict, DiskAfterEvict, Inv, TypeOK
<1>4. CASE IsDirty(pages, i)
    <2>1. CanFlush(e)
        BY <1>4 DEF CanEvict
    <2>2. AfterEvict(i) = Cleaned(e) /\ DiskAfterEvict(i) = Saved(e)
        BY <1>4 DEF AfterEvict, DiskAfterEvict
    <2> HIDE DEF e
    <2>3. /\ Cleaned(e) \in Layer(nPageBlocks)
          /\ Saved(e) \in [Addr -> Data]
        BY <2>1, Flushing DEF Inv
    <2>4. CASE ~IsDirty(pages, k)
        <3>1. e \notin Addr \ renewed
            BY <1>2, <1>4, <2>4
        <3>2. /\ \A j \in 1 .. nPageBlocks : Cleaned(e).blocks[j] = pages.blocks[j]
              /\ Saved(e) = disk
            BY <2>1, <2>4, Flushing DEF Inv
        <3> QED BY Zenon, <1>1, <1>2, <2>2, <2>3, <3>1, <3>2 DEF e
    <2>5. CASE IsDirty(pages, k)
        <3>1. /\ e \in Addr /\ Writable(e)
              /\ \A j \in 1 .. nPageBlocks :
                    Cleaned(e).blocks[j] =
                        IF j = k THEN [pages.blocks[k] EXCEPT !.flags = @ \ {"dirty"}]
                        ELSE pages.blocks[j]
              /\ Saved(e) = [disk EXCEPT ![e] = pages.blocks[k].data]
            BY <2>1, <2>5, Flushing DEF Inv
        <3>2. k \in 1 .. nPageBlocks
            BY <2>1, BufferedAt DEF Inv, CanFlush
        <3> HIDE DEF k
        <3> QED BY Zenon, <1>1, <1>2, <2>2, <2>3, <2>5, <3>1, <3>2 DEF e, k
    <2> QED BY <2>4, <2>5
<1> QED BY <1>3, <1>4

(* A step that leaves the addresses alone brings no second copy.           *)
LEMMA NoNewCopy ==
    ASSUME Inv, pages' \in Layer(nPageBlocks),
           \A j \in 1 .. nPageBlocks : pages'.blocks[j].addr = pages.blocks[j].addr,
           renewed' = renewed
    PROVE  /\ OneCopy'
           /\ \A b : FindBufferedPage(pages', b) = FindBufferedPage(pages, b)
<1>1. Single(pages, renewed) => Single(pages', renewed)
    BY Sizes, SameAddresses DEF Inv, TypeOK
<1>2. \A b : FindBufferedPage(pages', b) = FindBufferedPage(pages, b)
    BY Sizes, SameAddresses DEF Inv, TypeOK
<1> QED BY <1>1, <1>2 DEF Inv, OneCopy, Single

(* What an eviction, and the page placed after it, leave in the buffer.    *)
LEMMA AfterEviction ==
    ASSUME Inv, NEW i, CanEvict(i)
    PROVE  /\ \A j \in 1 .. nPageBlocks : AfterEvict(i).blocks[j].addr = pages.blocks[j].addr
           /\ Single(AfterEvict(i), renewed)
           /\ \A b : FindBufferedPage(AfterEvict(i), b) = FindBufferedPage(pages, b)
<1>1. AfterEvict(i) \in Layer(nPageBlocks) /\ pages \in Layer(nPageBlocks)
    BY Evicting DEF Inv, TypeOK
<1>2. \A j \in 1 .. nPageBlocks : AfterEvict(i).blocks[j].addr = pages.blocks[j].addr
    <2>1. ASSUME NEW j \in 1 .. nPageBlocks
          PROVE  AfterEvict(i).blocks[j].addr = pages.blocks[j].addr
        <3>1. pages.blocks[j] \in Block
            BY <1>1 DEF Layer
        <3>2. [pages.blocks[j] EXCEPT !.flags = @ \ {"dirty"}].addr = pages.blocks[j].addr
            BY <3>1 DEF Block
        <3>3. \/ AfterEvict(i).blocks[j] = pages.blocks[j]
              \/ AfterEvict(i).blocks[j] = [pages.blocks[j] EXCEPT !.flags = @ \ {"dirty"}]
            BY Evicting
        <3> QED BY <3>2, <3>3
    <2> QED BY <2>1
<1>3. Single(pages, renewed)
    BY DEF Inv, OneCopy, Single
<1> QED BY <1>1, <1>2, <1>3, Sizes, SameAddresses

LEMMA PlacingSlots ==
    ASSUME Inv, NEW i, CanEvict(i), NEW a \in Addr,
           NEW data \in Data \ {Absent}, NEW stamp \in Stamps,
           pages' = Placed(AfterEvict(i), i, a, data, stamp)
    PROVE  /\ pages' \in Layer(nPageBlocks)
           /\ i \in 1 .. nPageBlocks
           /\ pages'.blocks[i].addr = a /\ pages'.blocks[i].data = data
           /\ \A j \in 1 .. nPageBlocks : j # i => pages'.blocks[j] = AfterEvict(i).blocks[j]
<1>1. AfterEvict(i) \in Layer(nPageBlocks) /\ i \in 1 .. nPageBlocks
    BY Evicting
<1>2. /\ pages' \in Layer(nPageBlocks)
      /\ \A j \in 1 .. nPageBlocks :
            pages'.blocks[j] =
                IF j = i THEN [addr |-> a, data |-> data,
                               flags |-> AfterEvict(i).blocks[i].flags, stamp |-> stamp]
                ELSE AfterEvict(i).blocks[j]
    BY <1>1, Sizes, PagePlaced
<1> QED BY <1>1, <1>2

LEMMA Placing ==
    ASSUME Inv, NEW i, CanEvict(i), NEW a \in Addr,
           Buffered(a) => a \in renewed', renewed \subseteq renewed',
           NEW data \in Data \ {Absent}, NEW stamp \in Stamps,
           pages' = Placed(AfterEvict(i), i, a, data, stamp)
    PROVE  /\ pages' \in Layer(nPageBlocks)
           /\ OneCopy'
           /\ i \in 1 .. nPageBlocks
           /\ FindBufferedPage(pages', a) # FAILURE
           /\ ~Buffered(a) => FindBufferedPage(pages', a) = i
           /\ \A b \in Addr : b # a =>
                /\ FindBufferedPage(pages, b) \notin {FAILURE, i} =>
                      FindBufferedPage(pages', b) # FAILURE
                /\ b \notin renewed' =>
                      FindBufferedPage(pages', b) =
                          IF FindBufferedPage(pages, b) = i THEN FAILURE
                          ELSE FindBufferedPage(pages, b)
<1>1. /\ pages' \in Layer(nPageBlocks) /\ i \in 1 .. nPageBlocks
      /\ pages'.blocks[i].addr = a
      /\ \A j \in 1 .. nPageBlocks :
            j # i => pages'.blocks[j].addr = AfterEvict(i).blocks[j].addr
    BY PlacingSlots
<1>2. AfterEvict(i) \in Layer(nPageBlocks)
    BY Evicting
<1>3. /\ Single(AfterEvict(i), renewed)
      /\ \A b : FindBufferedPage(AfterEvict(i), b) = FindBufferedPage(pages, b)
    BY AfterEviction
<1>4. FindBufferedPage(AfterEvict(i), a) # FAILURE => a \in renewed'
    BY <1>3 DEF Buffered
<1>5. /\ Single(pages', renewed')
      /\ FindBufferedPage(pages', a) # FAILURE
      /\ FindBufferedPage(AfterEvict(i), a) = FAILURE => FindBufferedPage(pages', a) = i
      /\ \A b \in Addr : b # a =>
            /\ FindBufferedPage(AfterEvict(i), b) \notin {FAILURE, i} =>
                  FindBufferedPage(pages', b) # FAILURE
            /\ b \notin renewed' =>
                  FindBufferedPage(pages', b) =
                      IF FindBufferedPage(AfterEvict(i), b) = i THEN FAILURE
                      ELSE FindBufferedPage(AfterEvict(i), b)
    BY SMTT(30), <1>1, <1>2, <1>3, <1>4, Sizes, FoundWhenPlaced
<1>6. OneCopy'
    BY <1>5 DEF OneCopy, Single
<1> QED BY <1>1, <1>3, <1>5, <1>6 DEF Buffered

(* Operations that change one slot of the page layer, but not its address. *)
LEMMA OneSlotPreserves ==
    ASSUME Inv, NEW a \in Addr, Buffered(a),
           \/ ReadBuffered(a) \/ \E content \in Content : WritePage(a, content)
           \/ PinPage(a) \/ UnPinPage(a) \/ SetDirtyFlag(a) \/ ClearDirtyFlag(a)
    PROVE  /\ pages' \in Layer(nPageBlocks)
           /\ OneCopy'
           /\ \A b : FindBufferedPage(pages', b) = FindBufferedPage(pages, b)
           /\ UNCHANGED <<status, cache, disk, files, refused, renewed>>
           /\ \A j \in 1 .. nPageBlocks :
                 j # FindBufferedPage(pages, a) => pages'.blocks[j] = pages.blocks[j]
           /\ LET old == pages.blocks[FindBufferedPage(pages, a)]
                  new == pages'.blocks[FindBufferedPage(pages, a)]
              IN  \/ ReadBuffered(a) /\ new.data = old.data /\ new.flags = old.flags
                  \/ \E content \in Content :
                        /\ WritePage(a, content)
                        /\ new.data = content /\ new.flags = old.flags \cup {"dirty"}
                  \/ PinPage(a) /\ new.data = old.data /\ new.flags = old.flags \cup {"pin"}
                  \/ UnPinPage(a) /\ new.data = old.data /\ new.flags = old.flags \ {"pin"}
                  \/ SetDirtyFlag(a) /\ new.data = old.data /\ new.flags = old.flags \cup {"dirty"}
                  \/ ClearDirtyFlag(a) /\ new.data = old.data /\ new.flags = old.flags \ {"dirty"}
<1> DEFINE i == FindBufferedPage(pages, a)
           old == pages.blocks[i]
           new == pages'.blocks[i]
<1>1. i \in 1 .. nPageBlocks /\ old \in Block /\ pages \in Layer(nPageBlocks)
    BY BufferedAt DEF Inv, TypeOK
<1>f. "dirty" \in Flag /\ "pin" \in Flag
    BY DEF Flag
<1> DEFINE Changed(data, flags) ==
        /\ pages' \in Layer(nPageBlocks)
        /\ \A j \in 1 .. nPageBlocks : j # i => pages'.blocks[j] = pages.blocks[j]
        /\ new.addr = old.addr /\ new.data = data /\ new.flags = flags
<1>2. ASSUME ReadBuffered(a) PROVE Changed(old.data, old.flags)
    <2>1. PICK stamp \in Stamps : pages' = Touched(pages, i, stamp)
        BY <1>2 DEF ReadBuffered
    <2> HIDE DEF i
    <2>2. /\ pages' \in Layer(nPageBlocks)
          /\ \A j \in 1 .. nPageBlocks :
                pages'.blocks[j] = IF j = i THEN [old EXCEPT !.stamp = stamp] ELSE pages.blocks[j]
        BY <1>1, <2>1, Sizes, StampSet
    <2>3. new = [old EXCEPT !.stamp = stamp]
        BY <1>1, <2>2
    <2> HIDE DEF new, old
    <2> QED BY <1>1, <2>2, <2>3 DEF Block
<1>3. ASSUME NEW content \in Content, WritePage(a, content)
      PROVE  Changed(content, old.flags \cup {"dirty"})
    <2> DEFINE block   == [old EXCEPT !.data = content]
               changed == [pages EXCEPT !.blocks[i] = block]
    <2>1. PICK stamp \in Stamps : pages' = Touched(WithFlag(changed, i, "dirty"), i, stamp)
        BY <1>3 DEF WritePage
    <2>2. block \in Block /\ block.addr = old.addr /\ block.data = content /\ block.flags = old.flags
        BY <1>1, Sizes DEF Block
    <2> HIDE DEF i, block
    <2>3. /\ changed \in Layer(nPageBlocks)
          /\ \A j \in 1 .. nPageBlocks :
                changed.blocks[j] = IF j = i THEN block ELSE pages.blocks[j]
        BY <1>1, <2>2, Sizes, BlockReplaced
    <2> HIDE DEF changed
    <2>4. /\ WithFlag(changed, i, "dirty") \in Layer(nPageBlocks)
          /\ \A j \in 1 .. nPageBlocks :
                WithFlag(changed, i, "dirty").blocks[j] =
                    IF j = i THEN [changed.blocks[i] EXCEPT !.flags = @ \cup {"dirty"}]
                    ELSE changed.blocks[j]
        BY <1>1, <1>f, <2>3, Sizes, FlagSet
    <2>5. \A j \in 1 .. nPageBlocks :
            pages'.blocks[j] =
                IF j = i THEN [WithFlag(changed, i, "dirty").blocks[i] EXCEPT !.stamp = stamp]
                ELSE WithFlag(changed, i, "dirty").blocks[j]
        BY <1>1, <2>1, <2>4, Sizes, StampSet
    <2>6. pages' \in Layer(nPageBlocks)
        BY <1>1, <2>1, <2>4, Sizes, StampSet
    <2>7. new = [[block EXCEPT !.flags = @ \cup {"dirty"}] EXCEPT !.stamp = stamp]
        <3>1. changed.blocks[i] = block
            BY <1>1, <2>3
        <3>2. WithFlag(changed, i, "dirty").blocks[i] = [block EXCEPT !.flags = @ \cup {"dirty"}]
            BY <1>1, <2>4, <3>1
        <3>3. pages'.blocks[i] = [WithFlag(changed, i, "dirty").blocks[i] EXCEPT !.stamp = stamp]
            BY <1>1, <2>5
        <3> QED BY <3>2, <3>3 DEF i
    <2>8. ASSUME NEW j \in 1 .. nPageBlocks, j # i PROVE pages'.blocks[j] = pages.blocks[j]
        <3>1. pages'.blocks[j] = WithFlag(changed, i, "dirty").blocks[j]
            BY <2>5, <2>8
        <3>2. WithFlag(changed, i, "dirty").blocks[j] = changed.blocks[j]
            BY <2>4, <2>8
        <3>3. changed.blocks[j] = pages.blocks[j]
            BY <2>3, <2>8
        <3> QED BY <3>1, <3>2, <3>3
    <2> QED BY <2>2, <2>6, <2>7, <2>8 DEF Block
<1>4. ASSUME PinPage(a) PROVE Changed(old.data, old.flags \cup {"pin"})
    <2>1. pages' = WithFlag(pages, i, "pin")
        BY <1>4 DEF PinPage
    <2> HIDE DEF i
    <2>2. /\ pages' \in Layer(nPageBlocks)
          /\ \A j \in 1 .. nPageBlocks :
                pages'.blocks[j] = IF j = i THEN [old EXCEPT !.flags = @ \cup {"pin"}] ELSE pages.blocks[j]
        BY <1>1, <1>f, <2>1, Sizes, FlagSet
    <2>3. new = [old EXCEPT !.flags = @ \cup {"pin"}]
        BY <1>1, <2>2
    <2> HIDE DEF new, old
    <2> QED BY <1>1, <2>2, <2>3 DEF Block
<1>5. ASSUME UnPinPage(a) PROVE Changed(old.data, old.flags \ {"pin"})
    <2>1. pages' = WithoutFlag(pages, i, "pin")
        BY <1>5 DEF UnPinPage
    <2> HIDE DEF i
    <2>2. /\ pages' \in Layer(nPageBlocks)
          /\ \A j \in 1 .. nPageBlocks :
                pages'.blocks[j] = IF j = i THEN [old EXCEPT !.flags = @ \ {"pin"}] ELSE pages.blocks[j]
        BY <1>1, <1>f, <2>1, Sizes, FlagCleared
    <2>3. new = [old EXCEPT !.flags = @ \ {"pin"}]
        BY <1>1, <2>2
    <2> HIDE DEF new, old
    <2> QED BY <1>1, <2>2, <2>3 DEF Block
<1>6. ASSUME SetDirtyFlag(a) PROVE Changed(old.data, old.flags \cup {"dirty"})
    <2>1. pages' = WithFlag(pages, i, "dirty")
        BY <1>6 DEF SetDirtyFlag
    <2> HIDE DEF i
    <2>2. /\ pages' \in Layer(nPageBlocks)
          /\ \A j \in 1 .. nPageBlocks :
                pages'.blocks[j] = IF j = i THEN [old EXCEPT !.flags = @ \cup {"dirty"}] ELSE pages.blocks[j]
        BY <1>1, <1>f, <2>1, Sizes, FlagSet
    <2>3. new = [old EXCEPT !.flags = @ \cup {"dirty"}]
        BY <1>1, <2>2
    <2> HIDE DEF new, old
    <2> QED BY <1>1, <2>2, <2>3 DEF Block
<1>7. ASSUME ClearDirtyFlag(a) PROVE Changed(old.data, old.flags \ {"dirty"})
    <2>1. pages' = WithoutFlag(pages, i, "dirty")
        BY <1>7 DEF ClearDirtyFlag
    <2> HIDE DEF i
    <2>2. /\ pages' \in Layer(nPageBlocks)
          /\ \A j \in 1 .. nPageBlocks :
                pages'.blocks[j] = IF j = i THEN [old EXCEPT !.flags = @ \ {"dirty"}] ELSE pages.blocks[j]
        BY <1>1, <1>f, <2>1, Sizes, FlagCleared
    <2>3. new = [old EXCEPT !.flags = @ \ {"dirty"}]
        BY <1>1, <2>2
    <2> HIDE DEF new, old
    <2> QED BY <1>1, <2>2, <2>3 DEF Block
<1>8. \E data, flags : Changed(data, flags)
    <2> HIDE DEF Changed
    <2> QED BY <1>2, <1>3, <1>4, <1>5, <1>6, <1>7
<1>9. /\ pages' \in Layer(nPageBlocks)
      /\ \A j \in 1 .. nPageBlocks : j # i => pages'.blocks[j] = pages.blocks[j]
      /\ \A j \in 1 .. nPageBlocks : pages'.blocks[j].addr = pages.blocks[j].addr
    BY <1>8
<1>10. UNCHANGED <<status, cache, disk, files, refused, renewed>>
    BY DEF ReadBuffered, WritePage, PinPage, UnPinPage, SetDirtyFlag, ClearDirtyFlag
<1>11. \/ ReadBuffered(a) /\ new.data = old.data /\ new.flags = old.flags
       \/ \E content \in Content :
             /\ WritePage(a, content)
             /\ new.data = content /\ new.flags = old.flags \cup {"dirty"}
       \/ PinPage(a) /\ new.data = old.data /\ new.flags = old.flags \cup {"pin"}
       \/ UnPinPage(a) /\ new.data = old.data /\ new.flags = old.flags \ {"pin"}
       \/ SetDirtyFlag(a) /\ new.data = old.data /\ new.flags = old.flags \cup {"dirty"}
       \/ ClearDirtyFlag(a) /\ new.data = old.data /\ new.flags = old.flags \ {"dirty"}
    <2> HIDE DEF new, old
    <2> QED BY <1>2, <1>3, <1>4, <1>5, <1>6, <1>7
<1>12. OneCopy' /\ \A b : FindBufferedPage(pages', b) = FindBufferedPage(pages, b)
    BY <1>9, <1>10, NoNewCopy
<1> QED BY <1>9, <1>10, <1>11, <1>12

(* A cache page takes its slot over, whatever was in it. *)
LEMMA AllocatedIsLayer ==
    ASSUME NEW layer \in Layer(nCacheBlocks), NEW i \in 1 .. nCacheBlocks,
           NEW a \in Addr
    PROVE  Allocated(layer, i, a) \in Layer(nCacheBlocks)
<1>1. "dirty" \in Flag /\ "volatile" \in Flag
    BY DEF Flag
<1> DEFINE placed == Placed(layer, i, a, Zeros, 0)
<1>2. placed \in Layer(nCacheBlocks)
    <2>1. 0 \in Stamps
        BY Sizes DEF Stamps
    <2> QED BY <2>1, Sizes, PagePlaced
<1> HIDE DEF placed
<1>3. WithFlag(placed, i, "volatile") \in Layer(nCacheBlocks)
    BY <1>1, <1>2, Sizes, FlagSet
<1>4. WithFlag(WithFlag(placed, i, "volatile"), i, "dirty") \in Layer(nCacheBlocks)
    BY <1>1, <1>3, Sizes, FlagSet
<1> QED BY <1>4 DEF Allocated, placed

LEMMA FlushPreserves ==
    ASSUME Inv, NEW a, CanFlush(a), pages' = Cleaned(a), renewed' = renewed
    PROVE  /\ pages' \in Layer(nPageBlocks)
           /\ OneCopy'
           /\ \A b : FindBufferedPage(pages', b) = FindBufferedPage(pages, b)
<1> DEFINE k == FindBufferedPage(pages, a)
<1>1. Cleaned(a) \in Layer(nPageBlocks)
    BY Flushing DEF Inv
<1>2. \A j \in 1 .. nPageBlocks :
        \/ Cleaned(a).blocks[j] = pages.blocks[j]
        \/ Cleaned(a).blocks[j] = [pages.blocks[j] EXCEPT !.flags = @ \ {"dirty"}]
    <2> HIDE DEF k
    <2>1. \/ \A j \in 1 .. nPageBlocks : Cleaned(a).blocks[j] = pages.blocks[j]
          \/ \A j \in 1 .. nPageBlocks :
                Cleaned(a).blocks[j] =
                    IF j = k THEN [pages.blocks[k] EXCEPT !.flags = @ \ {"dirty"}]
                    ELSE pages.blocks[j]
        BY Flushing DEF Inv, k
    <2> QED BY <2>1
<1>3. \A j \in 1 .. nPageBlocks : Cleaned(a).blocks[j].addr = pages.blocks[j].addr
    <2>1. ASSUME NEW j \in 1 .. nPageBlocks
          PROVE  [pages.blocks[j] EXCEPT !.flags = @ \ {"dirty"}].addr = pages.blocks[j].addr
        BY DEF Inv, TypeOK, Layer, Block
    <2> QED BY <1>2, <2>1
<1> QED BY <1>1, <1>3, NoNewCopy

(* At its beginning and at its end the program has no pages.               *)
LEMMA EmptyPreserves ==
    ASSUME Inv, pages' = InitLayer(nPageBlocks), cache' = InitLayer(nCacheBlocks)
    PROVE  /\ pages' \in Layer(nPageBlocks) /\ cache' \in Layer(nCacheBlocks)
           /\ OneCopy'
           /\ \A a \in Addr : FindBufferedPage(pages', a) = FAILURE
<1>1. Single(pages', renewed')
    BY Sizes, Empty
<1> QED BY <1>1, Sizes, Empty DEF OneCopy, Single

LEMMA InvInit == Init => Inv
<1> SUFFICES ASSUME Init PROVE Inv
    OBVIOUS
<1>1. TypeOK
    BY Sizes, Empty, BufferAssumption DEF Init, TypeOK, Data
<1>2. OneCopy
    BY Sizes, Empty DEF Init, OneCopy, Single
<1> QED BY <1>1, <1>2 DEF Inv

LEMMA InvNext == Inv /\ [Next]_vars => Inv'
<1> SUFFICES ASSUME Inv, [Next]_vars PROVE Inv'
    OBVIOUS
<1> USE DEF Inv
<1>1. ASSUME NEW a \in Addr, ReadPage(a) PROVE Inv'
    <2>1. PICK i \in Evictable(pages), stamp \in Stamps :
            /\ CanEvict(i)
            /\ disk' = DiskAfterEvict(i)
            /\ pages' = Placed(AfterEvict(i), i, a, disk[a], stamp)
        BY <1>1 DEF ReadPage
    <2>2. ~Buffered(a) /\ disk[a] \in Data \ {Absent}
        BY <1>1 DEF ReadPage, TypeOK
    <2>3. pages' \in Layer(nPageBlocks) /\ OneCopy'
        <3>1. renewed' = renewed
            BY <1>1 DEF ReadPage
        <3> QED BY <2>1, <2>2, <3>1, Placing
    <2>4. disk' \in [Addr -> Data]
        BY <2>1, Evicting
    <2> QED BY <1>1, <2>3, <2>4 DEF ReadPage, TypeOK
<1>2. ASSUME NEW a \in Addr, NewPage(a) PROVE Inv'
    <2>1. PICK i \in Evictable(pages), stamp \in Stamps :
            /\ CanEvict(i)
            /\ IF Writable(a)
               THEN /\ disk' = [DiskAfterEvict(i) EXCEPT ![a] = Garbage]
                    /\ pages' = Placed(AfterEvict(i), i, a, Zeros, stamp)
                    /\ renewed' = IF Buffered(a) THEN renewed \cup {a} ELSE renewed
               ELSE /\ disk' = DiskAfterEvict(i)
                    /\ pages' = AfterEvict(i)
                    /\ UNCHANGED renewed
        BY <1>2 DEF NewPage
    <2>2. /\ renewed' \subseteq Addr /\ renewed \subseteq renewed'
          /\ Writable(a) => (Buffered(a) => a \in renewed')
        BY <2>1 DEF TypeOK
    <2>3. DiskAfterEvict(i) \in [Addr -> Data]
        BY <2>1, Evicting
    <2>4. disk' \in [Addr -> Data]
        BY <2>1, <2>3, Sizes
    <2>5. CASE Writable(a)
        <3>1. pages' \in Layer(nPageBlocks) /\ OneCopy'
            BY <2>1, <2>2, <2>5, Placing, Sizes
        <3> QED BY <1>2, <2>2, <2>4, <3>1 DEF NewPage, TypeOK
    <2>6. CASE ~Writable(a)
        <3>1. CanEvict(i) /\ pages' = AfterEvict(i) /\ renewed' = renewed
            BY <2>1, <2>6
        <3>2. pages' \in Layer(nPageBlocks) /\ OneCopy'
            <4>1. pages' \in Layer(nPageBlocks)
                BY <3>1, Evicting
            <4>2. \A j \in 1 .. nPageBlocks : pages'.blocks[j].addr = pages.blocks[j].addr
                BY <3>1, AfterEviction
            <4> QED BY <3>1, <4>1, <4>2, NoNewCopy
        <3> QED BY <1>2, <2>2, <2>4, <3>2 DEF NewPage, TypeOK
    <2> QED BY <2>5, <2>6
<1>3. ASSUME NEW a \in Addr,
             \/ ReadBuffered(a) \/ \E content \in Content : WritePage(a, content)
             \/ PinPage(a) \/ UnPinPage(a) \/ SetDirtyFlag(a) \/ ClearDirtyFlag(a)
      PROVE  Inv'
    <2>1. Buffered(a)
        BY <1>3 DEF ReadBuffered, WritePage, PinPage, UnPinPage, SetDirtyFlag, ClearDirtyFlag
    <2>2. /\ pages' \in Layer(nPageBlocks)
          /\ OneCopy'
          /\ UNCHANGED <<status, cache, disk, files, refused, renewed>>
        BY <1>3, <2>1, OneSlotPreserves
    <2> QED BY <2>2 DEF TypeOK
<1>4. ASSUME NEW a \in Addr, FlushPage(a) PROVE Inv'
    <2>1. pages' \in Layer(nPageBlocks) /\ OneCopy'
        BY <1>4, FlushPreserves DEF FlushPage
    <2>2. disk' \in [Addr -> Data]
        BY <1>4, Flushing DEF FlushPage
    <2> QED BY <1>4, <2>1, <2>2 DEF FlushPage, TypeOK
<1>5. ASSUME NEW a \in Volatile, AllocateCachePage(a) PROVE Inv'
    <2>1. PICK i \in Slots(cache) : cache' = Allocated(cache, i, a)
        BY <1>5 DEF AllocateCachePage
    <2>2. a \in Addr /\ Slots(cache) = 1 .. nCacheBlocks
        BY BufferAssumption DEF Addr, Slots, TypeOK, Layer
    <2>3. cache' \in Layer(nCacheBlocks)
        BY <2>1, <2>2, AllocatedIsLayer DEF TypeOK
    <2> QED BY <1>5, <2>3 DEF AllocateCachePage, TypeOK, OneCopy
<1>6. ASSUME NEW a \in Volatile, AllocateOverMarked(a) PROVE Inv'
    <2>1. PICK i \in Slots(cache), p \in Slots(pages) :
            LET copied == [cache EXCEPT !.blocks[i] = Cleaned(pages.blocks[p].addr).blocks[p]]
            IN  /\ CanFlush(pages.blocks[p].addr)
                /\ pages' = Cleaned(pages.blocks[p].addr)
                /\ disk' = Saved(pages.blocks[p].addr)
                /\ cache' = Allocated(copied, i, a)
        BY <1>6 DEF AllocateOverMarked
    <2> DEFINE e == pages.blocks[p].addr
               copied == [cache EXCEPT !.blocks[i] = Cleaned(e).blocks[p]]
    <2>2. a \in Addr /\ i \in 1 .. nCacheBlocks /\ p \in 1 .. nPageBlocks
        BY <2>1, BufferAssumption DEF Addr, Slots, TypeOK, Layer
    <2>3. CanFlush(e) /\ pages' = Cleaned(e) /\ disk' = Saved(e) /\ cache' = Allocated(copied, i, a)
        BY <2>1
    <2> HIDE DEF e
    <2>4. pages' \in Layer(nPageBlocks) /\ OneCopy'
        <3>1. renewed' = renewed
            BY <1>6 DEF AllocateOverMarked
        <3> QED BY <2>3, <3>1, FlushPreserves
    <2>5. disk' \in [Addr -> Data]
        BY <2>3, Flushing
    <2>6. Cleaned(e).blocks[p] \in Block
        BY <2>2, <2>3, <2>4 DEF Layer
    <2>7. copied \in Layer(nCacheBlocks)
        BY <2>2, <2>6, Sizes, BlockReplaced DEF TypeOK
    <2> HIDE DEF copied
    <2>8. cache' \in Layer(nCacheBlocks)
        BY <2>2, <2>3, <2>7, AllocatedIsLayer
    <2> QED BY <1>6, <2>4, <2>5, <2>8 DEF AllocateOverMarked, TypeOK
<1>7. ASSUME NEW a \in Addr, RemoveCachePage(a) PROVE Inv'
    <2>1. pages' \in Layer(nPageBlocks) /\ cache' \in Layer(nCacheBlocks)
        BY <1>7, Sizes, SlotEmptied DEF RemoveCachePage, TypeOK
    <2>2. Single(pages', renewed)
        <3>1. Single(pages, renewed)
            BY DEF OneCopy, Single
        <3> QED BY <1>7, <3>1, Sizes, FoundWhenEmptied DEF RemoveCachePage, TypeOK
    <2>3. disk' \in [Addr -> Data] /\ files' \subseteq File
        <3>1. Absent \in Data
            BY DEF Data
        <3> QED BY <1>7, <3>1 DEF RemoveCachePage, TypeOK
    <2> QED BY <1>7, <2>1, <2>2, <2>3 DEF RemoveCachePage, TypeOK, OneCopy, Single
<1>8. ASSUME AllocateAsserts \/ Crash \/ Commence PROVE Inv'
    <2>1. /\ pages' = InitLayer(nPageBlocks) /\ cache' = InitLayer(nCacheBlocks)
          /\ disk' = disk \/ disk' = [a \in Addr |-> Absent]
          /\ files' \in {files, File} /\ refused' = refused
          /\ renewed' \in {renewed, {}} /\ status' \in {"running", "dead"}
        BY <1>8 DEF AllocateAsserts, Crash, Commence
    <2>2. disk' \in [Addr -> Data]
        BY <2>1 DEF TypeOK, Data
    <2> QED BY <2>1, <2>2, EmptyPreserves DEF TypeOK
<1>9. ASSUME Squash PROVE Inv'
    <2>1. pages' = InitLayer(nPageBlocks) /\ cache' = InitLayer(nCacheBlocks)
        BY <1>9 DEF Squash
    <2>2. disk' \in [Addr -> Data]
        <3>1. ASSUME NEW a \in Addr, FlushedBySquash(a) PROVE Saved(a)[a] \in Data
            <4>1. CanFlush(a)
                BY <3>1 DEF FlushedBySquash, CanFlush
            <4> QED BY <4>1, Flushing
        <3> QED BY <1>9, <3>1 DEF Squash, TypeOK
    <2> QED BY <1>9, <2>1, <2>2, EmptyPreserves DEF Squash, TypeOK
<1>10. ASSUME Refuse PROVE Inv'
    BY <1>10 DEF Refuse, TypeOK, OneCopy
<1>11. ASSUME UNCHANGED vars PROVE Inv'
    BY <1>11 DEF vars, TypeOK, OneCopy
<1> QED BY <1>1, <1>2, <1>3, <1>4, <1>5, <1>6, <1>7, <1>8, <1>9, <1>10, <1>11 DEF Next

(* No operation, restart or crash breaks the invariant. *)
THEOREM InvAlways == Spec => []Inv
<1> QED BY InvInit, InvNext, PTL DEF Spec

(* A program that does not run has nothing in its buffer. *)
NoPages == status # "running" => \A a \in Addr : FindBufferedPage(pages, a) = FAILURE

LEMMA NoPagesAlways == Spec => []NoPages
<1>1. Init => NoPages
    BY DEF Init, NoPages
<1>2. ASSUME Inv, NoPages, [Next]_vars PROVE NoPages'
    <2>1. CASE Squash \/ Crash \/ AllocateAsserts
        <3>1. pages' = InitLayer(nPageBlocks) /\ cache' = InitLayer(nCacheBlocks)
            BY <2>1 DEF Squash, Crash, AllocateAsserts
        <3> QED BY <1>2, <3>1, EmptyPreserves DEF NoPages
    <2>2. CASE Refuse \/ UNCHANGED vars
        BY <1>2, <2>2 DEF Refuse, vars, NoPages
    <2>3. CASE /\ ~(Squash \/ Crash \/ AllocateAsserts)
               /\ ~(Refuse \/ UNCHANGED vars)
        <3>1. status' = "running"
            BY <1>2, <2>3 DEF Next, ReadBuffered, ReadPage, NewPage, FlushPage, WritePage,
                PinPage, UnPinPage, SetDirtyFlag, ClearDirtyFlag, RemoveCachePage,
                AllocateCachePage, AllocateOverMarked, Commence
        <3> QED BY <3>1 DEF NoPages
    <2> QED BY <2>1, <2>2, <2>3
<1> QED BY <1>1, <1>2, InvAlways, PTL DEF Spec

(* Every layer keeps its shape, every flag and stamp its range, whatever   *)
(* operations the users call.                                              *)
THEOREM TypeCorrect == Spec => []TypeOK
<1>1. Inv => TypeOK
    BY DEF Inv
<1> QED BY <1>1, InvAlways, PTL

(* No page is ever in two slots of the page layer, unless newPage() has    *)
(* been called for it while it was in one of them.                         *)
THEOREM NoSecondCopy == Spec => []OneCopy
<1>1. Inv => OneCopy
    BY DEF Inv
<1> QED BY <1>1, InvAlways, PTL

----------------------------------------------------------------------------
(* Pinned pages *)

(* lruEvict() looks for a slot that is free or whose page is not pinned.   *)
LEMMA EvictsNoPinned ==
    ASSUME Inv, NEW i \in Evictable(pages), CanEvict(i),
           NEW a \in Addr, Pinned(a)
    PROVE  FindBufferedPage(pages, a) # i
<1> DEFINE k == FindBufferedPage(pages, a)
<1>1. k \in 1 .. nPageBlocks /\ pages.blocks[k].addr = a /\ "pin" \in pages.blocks[k].flags
    BY BufferedAt DEF Pinned, Inv
<1>2. ~IsVacant(pages.blocks[k])
    BY <1>1, Sizes DEF IsVacant, Addr
<1>3. i \in 1 .. nPageBlocks
    BY Evicting
<1>4. \/ IsVacant(pages.blocks[i])
      \/ pages.blocks[i].flags \cap {"pin", "volatile"} = {}
    <2>1. i # NO_EVICT_CANDIDATES
        BY <1>3 DEF NO_EVICT_CANDIDATES
    <2>2. PICK now \in Stamps : i = LruEvict(pages, now)
        BY DEF Evictable
    <2> QED BY <2>1, <2>2, Sizes, LruChoice DEF Inv, TypeOK
<1> HIDE DEF k
<1> QED BY <1>1, <1>2, <1>4 DEF k

(* A page in another slot than the one taken stays in the buffer. *)
LEMMA PlacingKeeps ==
    ASSUME Inv, NEW i, CanEvict(i), NEW b \in Addr,
           Buffered(b) => b \in renewed', renewed \subseteq renewed',
           NEW data \in Data \ {Absent}, NEW stamp \in Stamps,
           pages' = Placed(AfterEvict(i), i, b, data, stamp),
           NEW a \in Addr, FindBufferedPage(pages, a) \notin {FAILURE, i}
    PROVE  FindBufferedPage(pages', a) # FAILURE
<1>1. CASE a = b
    BY <1>1, Placing
<1>2. CASE a # b
    BY <1>2, Placing
<1> QED BY <1>1, <1>2

LEMMA PinnedStep ==
    ASSUME Inv, NoPages, [Next]_vars, NEW a \in Addr, Pinned(a), status' = "running"
    PROVE  Buffered(a)' \/ RemoveCachePage(a)
<1>1. FindBufferedPage(pages, a) # FAILURE
    BY DEF Pinned, Buffered
<1> SUFFICES FindBufferedPage(pages', a) # FAILURE \/ RemoveCachePage(a)
    BY DEF Buffered
<1>2. ASSUME NEW b \in Addr, ReadPage(b) PROVE FindBufferedPage(pages', a) # FAILURE
    <2>1. PICK i \in Evictable(pages), stamp \in Stamps :
            CanEvict(i) /\ pages' = Placed(AfterEvict(i), i, b, disk[b], stamp)
        BY <1>2 DEF ReadPage
    <2>2. ~Buffered(b) /\ disk[b] \in Data \ {Absent} /\ renewed' = renewed
        BY <1>2 DEF ReadPage, Inv, TypeOK
    <2> QED BY <1>1, <2>1, <2>2, EvictsNoPinned, PlacingKeeps
<1>3. ASSUME NEW b \in Addr, NewPage(b) PROVE FindBufferedPage(pages', a) # FAILURE
    <2>1. PICK i \in Evictable(pages), stamp \in Stamps :
            /\ CanEvict(i)
            /\ \/ /\ pages' = Placed(AfterEvict(i), i, b, Zeros, stamp)
                  /\ renewed' = IF Buffered(b) THEN renewed \cup {b} ELSE renewed
               \/ pages' = AfterEvict(i)
        BY <1>3 DEF NewPage
    <2>2. CASE /\ pages' = Placed(AfterEvict(i), i, b, Zeros, stamp)
               /\ renewed' = IF Buffered(b) THEN renewed \cup {b} ELSE renewed
        <3>1. (Buffered(b) => b \in renewed') /\ renewed \subseteq renewed'
            BY <2>2
        <3> QED BY <1>1, <2>1, <2>2, <3>1, Sizes, EvictsNoPinned, PlacingKeeps
    <2>3. CASE pages' = AfterEvict(i)
        BY <1>1, <2>1, <2>3, AfterEviction
    <2> QED BY <2>1, <2>2, <2>3
<1>4. ASSUME NEW b \in Addr,
             \/ ReadBuffered(b) \/ \E content \in Content : WritePage(b, content)
             \/ PinPage(b) \/ UnPinPage(b) \/ SetDirtyFlag(b) \/ ClearDirtyFlag(b)
      PROVE  FindBufferedPage(pages', a) # FAILURE
    <2>1. Buffered(b)
        BY <1>4 DEF ReadBuffered, WritePage, PinPage, UnPinPage, SetDirtyFlag, ClearDirtyFlag
    <2> QED BY <1>1, <1>4, <2>1, OneSlotPreserves
<1>5. ASSUME NEW b \in Addr, FlushPage(b) PROVE FindBufferedPage(pages', a) # FAILURE
    BY <1>1, <1>5, FlushPreserves DEF FlushPage
<1>6. ASSUME NEW b \in Volatile, AllocateOverMarked(b) PROVE FindBufferedPage(pages', a) # FAILURE
    <2>1. PICK e : CanFlush(e) /\ pages' = Cleaned(e)
        BY <1>6 DEF AllocateOverMarked
    <2>2. renewed' = renewed
        BY <1>6 DEF AllocateOverMarked
    <2> QED BY <1>1, <2>1, <2>2, FlushPreserves
<1>7. ASSUME NEW b \in Addr, RemoveCachePage(b)
      PROVE  FindBufferedPage(pages', a) # FAILURE \/ RemoveCachePage(a)
    <2>1. CASE b = a
        BY <1>7, <2>1
    <2>2. CASE b # a
        <3>1. FindBufferedPage(Emptied(pages, b), a) = FindBufferedPage(pages, a)
            BY <2>2, Sizes, FoundWhenEmptied DEF Inv, TypeOK, OneCopy, Single
        <3> QED BY <1>1, <1>7, <3>1 DEF RemoveCachePage
    <2> QED BY <2>1, <2>2
<1>8. ASSUME \/ \E b \in Volatile : AllocateCachePage(b)
             \/ Refuse \/ UNCHANGED vars
      PROVE  FindBufferedPage(pages', a) # FAILURE
    BY <1>1, <1>8 DEF AllocateCachePage, Refuse, vars
<1>9. ~Squash /\ ~Crash /\ ~AllocateAsserts
    BY DEF Squash, Crash, AllocateAsserts
<1>10. ASSUME Commence PROVE FindBufferedPage(pages', a) # FAILURE
    <2>1. status # "running"
        BY <1>10 DEF Commence
    <2> QED BY <1>1, <2>1 DEF NoPages
<1> QED BY <1>2, <1>3, <1>4, <1>5, <1>6, <1>7, <1>8, <1>9, <1>10 DEF Next

(* A pinned page is not evicted, whatever else is read, made or asked for. *)
THEOREM PinnedPagesStay == Spec => PinnedStays
<1>1. Inv /\ NoPages /\ [Next]_vars =>
        [\A a \in Addr : Pinned(a) /\ status' = "running" => Buffered(a)' \/ RemoveCachePage(a)]_vars
    BY PinnedStep
<1> QED BY <1>1, InvAlways, NoPagesAlways, PTL DEF Spec, PinnedStays

----------------------------------------------------------------------------
(* What readers may find *)

(* Readers of page a notice nothing, and it is saved if the disk changes.  *)
Settled(a) ==
    \/ a \in renewed
    \/ /\ Readable(a)' # {} /\ Readable(a)' \subseteq Readable(a)
       /\ disk'[a] # disk[a] => a \notin refused /\ Readable(a)' = {disk'[a]}

(* A page whose slot and copy on disk stay as they are. *)
LEMMA ReadableStays ==
    ASSUME NEW a \in Addr,
           FindBufferedPage(pages', a) = FindBufferedPage(pages, a),
           disk'[a] = disk[a],
           Buffered(a) =>
              LET k == FindBufferedPage(pages, a)
              IN  /\ pages'.blocks[k].data = pages.blocks[k].data
                  /\ "dirty" \in pages'.blocks[k].flags <=> "dirty" \in pages.blocks[k].flags
    PROVE  Readable(a)' = Readable(a) /\ Settled(a)
<1>1. Readable(a)' = Readable(a)
    BY DEF Readable, Buffered, IsDirty
<1>2. Readable(a) # {}
    BY DEF Readable
<1> QED BY <1>1, <1>2 DEF Settled

LEMMA FlushSettles ==
    ASSUME Inv, NEW a, CanFlush(a), pages' = Cleaned(a), disk' = Saved(a),
           renewed' = renewed
    PROVE  \A b \in Addr : Settled(b)
<1> DEFINE k == FindBufferedPage(pages, a)
<1>1. k \in 1 .. nPageBlocks /\ pages.blocks[k].addr = a /\ pages.blocks[k] \in Block
    BY BufferedAt DEF CanFlush, Inv
<1>2. \A b : FindBufferedPage(pages', b) = FindBufferedPage(pages, b)
    BY FlushPreserves
<1>3. SUFFICES ASSUME NEW b \in Addr PROVE Settled(b)
    OBVIOUS
<1> HIDE DEF k
<1>4. Buffered(b) => FindBufferedPage(pages, b) \in 1 .. nPageBlocks
    BY BufferedAt DEF Inv
<1>5. CASE ~IsDirty(pages, k)
    <2>1. /\ \A j \in 1 .. nPageBlocks : Cleaned(a).blocks[j] = pages.blocks[j]
          /\ Saved(a) = disk
        BY <1>5, Flushing DEF Inv, k
    <2> QED BY <1>2, <1>4, <2>1, ReadableStays
<1>6. CASE IsDirty(pages, k)
    <2>1. /\ a \in Addr /\ Writable(a)
          /\ \A j \in 1 .. nPageBlocks :
                Cleaned(a).blocks[j] =
                    IF j = k THEN [pages.blocks[k] EXCEPT !.flags = @ \ {"dirty"}]
                    ELSE pages.blocks[j]
          /\ Saved(a) = [disk EXCEPT ![a] = pages.blocks[k].data]
        BY <1>6, Flushing DEF Inv, k
    <2>2. CASE b # a
        <3>1. Buffered(b) => FindBufferedPage(pages, b) # k
            BY <1>1, <2>2, BufferedAt DEF Inv
        <3>2. disk'[b] = disk[b]
            BY <2>1, <2>2 DEF Inv, TypeOK
        <3> QED BY <1>2, <1>4, <2>1, <3>1, <3>2, ReadableStays
    <2>3. CASE b = a
        <3>1. disk'[b] = pages.blocks[k].data
            BY <2>1, <2>3 DEF Inv, TypeOK
        <3>2. pages'.blocks[k].data = pages.blocks[k].data /\ "dirty" \notin pages'.blocks[k].flags
            BY <1>1, <2>1 DEF Block
        <3>3. k # FAILURE
            BY <1>1 DEF FAILURE
        <3>4. Readable(b) = {pages.blocks[k].data}
            BY <1>6, <2>3, <3>3 DEF Readable, k
        <3>5. FindBufferedPage(pages', b) = k
            BY <1>2, <2>3 DEF k
        <3>6. Readable(b)' = {pages'.blocks[k].data, disk'[b]}
            BY <3>2, <3>3, <3>5 DEF Readable, IsDirty
        <3>7. b \notin refused
            BY <2>1, <2>3 DEF Writable
        <3> QED BY <3>1, <3>2, <3>4, <3>6, <3>7 DEF Settled
    <2> QED BY <2>2, <2>3
<1> QED BY <1>5, <1>6

(* The page whose slot is taken is on disk before it goes; no other page   *)
(* is touched.                                                             *)
LEMMA Evicted ==
    ASSUME Inv, NEW i, CanEvict(i), NEW b \in Addr \ renewed
    PROVE  /\ FindBufferedPage(pages, b) # i =>
                /\ DiskAfterEvict(i)[b] = disk[b]
                /\ Buffered(b) => AfterEvict(i).blocks[FindBufferedPage(pages, b)] =
                                  pages.blocks[FindBufferedPage(pages, b)]
           /\ FindBufferedPage(pages, b) = i =>
                /\ DiskAfterEvict(i)[b] \in Readable(b)
                /\ DiskAfterEvict(i)[b] # disk[b] =>
                      b \notin refused /\ Readable(b) = {DiskAfterEvict(i)[b]}
<1> DEFINE k == FindBufferedPage(pages, b)
           d == DiskAfterEvict(i)[b]
           e == pages.blocks[i].addr
           f == FindBufferedPage(pages, e)
<1>1. i \in 1 .. nPageBlocks /\ (k = i => e = b)
    <2>1. i \in 1 .. nPageBlocks
        BY Evicting
    <2>2. i # FAILURE
        BY <2>1 DEF FAILURE
    <2> QED BY <2>1, <2>2, BufferedAt DEF Inv, Buffered
<1>2. Buffered(b) => k \in 1 .. nPageBlocks /\ pages.blocks[k].addr = b
    BY BufferedAt DEF Inv
<1>3. e = b => k = i
    BY Evicting
<1>4. CASE /\ \A j \in 1 .. nPageBlocks : AfterEvict(i).blocks[j] = pages.blocks[j]
           /\ DiskAfterEvict(i) = disk
           /\ e \in Addr \ renewed => ~IsDirty(pages, i)
    <2>1. k = i => d \in Readable(b)
        <3>1. ASSUME k = i PROVE Readable(b) = {pages.blocks[i].data, disk[b]}
            <4>1. ~IsDirty(pages, i) /\ i # FAILURE
                BY <1>1, <1>4, <3>1 DEF FAILURE
            <4> QED BY <3>1, <4>1 DEF Readable
        <3> QED BY <1>4, <3>1
    <2> QED BY <1>2, <1>4, <2>1
<1>5. CASE /\ IsDirty(pages, f)
           /\ e \in Addr /\ Writable(e) /\ f \in 1 .. nPageBlocks
           /\ \A j \in 1 .. nPageBlocks :
                 AfterEvict(i).blocks[j] =
                    IF j = f THEN [pages.blocks[f] EXCEPT !.flags = @ \ {"dirty"}]
                    ELSE pages.blocks[j]
           /\ DiskAfterEvict(i) = [disk EXCEPT ![e] = pages.blocks[f].data]
    <2>1. CASE k # i
        <3>1. e # b
            BY <1>3, <2>1
        <3>2. d = disk[b]
            BY <1>5, <3>1 DEF Inv, TypeOK
        <3>3. Buffered(b) => k # f
            <4>1. pages.blocks[f].addr = e
                <5>1. f # FAILURE
                    BY <1>5 DEF FAILURE
                <5> HIDE DEF e
                <5> QED BY <5>1, BufferedAt DEF Inv, Buffered
            <4> QED BY <1>2, <3>1, <4>1
        <3> HIDE DEF k, d, e, f
        <3> QED BY <1>2, <1>5, <2>1, <3>2, <3>3 DEF k, d
    <2>2. CASE k = i
        <3>1. f = i /\ e = b
            BY <1>1, <2>2
        <3>2. d = pages.blocks[i].data
            BY <1>5, <3>1 DEF Inv, TypeOK
        <3>3. Readable(b) = {pages.blocks[i].data}
            <4>1. i # FAILURE
                BY <1>1 DEF FAILURE
            <4> QED BY <1>5, <2>2, <3>1, <4>1 DEF Readable
        <3>4. b \notin refused
            BY <1>5, <3>1 DEF Writable
        <3> QED BY <2>2, <3>2, <3>3, <3>4
    <2> QED BY <2>1, <2>2
<1>6. \/ /\ \A j \in 1 .. nPageBlocks : AfterEvict(i).blocks[j] = pages.blocks[j]
         /\ DiskAfterEvict(i) = disk
         /\ e \in Addr \ renewed => ~IsDirty(pages, i)
      \/ /\ IsDirty(pages, f)
         /\ e \in Addr /\ Writable(e) /\ f \in 1 .. nPageBlocks
         /\ \A j \in 1 .. nPageBlocks :
               AfterEvict(i).blocks[j] =
                  IF j = f THEN [pages.blocks[f] EXCEPT !.flags = @ \ {"dirty"}]
                  ELSE pages.blocks[j]
         /\ DiskAfterEvict(i) = [disk EXCEPT ![e] = pages.blocks[f].data]
    BY Evicting
<1> QED BY <1>4, <1>5, <1>6

(* Placing a page settles all others. *)
LEMMA PlacingSettles ==
    ASSUME Inv, NEW i, CanEvict(i), NEW a \in Addr,
           Buffered(a) => a \in renewed', renewed \subseteq renewed', renewed' \subseteq renewed \cup {a},
           NEW data \in Data \ {Absent}, NEW stamp \in Stamps,
           pages' = Placed(AfterEvict(i), i, a, data, stamp),
           NEW b \in Addr, b # a, disk'[b] = DiskAfterEvict(i)[b]
    PROVE  Settled(b)
<1> SUFFICES ASSUME b \notin renewed PROVE Settled(b)
    BY DEF Settled
<1>1. \A j \in 1 .. nPageBlocks : j # i => pages'.blocks[j] = AfterEvict(i).blocks[j]
    BY PlacingSlots
<1>2. FindBufferedPage(pages', b) =
        IF FindBufferedPage(pages, b) = i THEN FAILURE ELSE FindBufferedPage(pages, b)
    BY Placing
<1>3. Buffered(b) => FindBufferedPage(pages, b) \in 1 .. nPageBlocks
    BY BufferedAt DEF Inv
<1>4. CASE FindBufferedPage(pages, b) = i
    <2>1. /\ DiskAfterEvict(i)[b] \in Readable(b)
          /\ DiskAfterEvict(i)[b] # disk[b] =>
                b \notin refused /\ Readable(b) = {DiskAfterEvict(i)[b]}
        BY <1>4, Evicted
    <2>2. Readable(b)' = {disk'[b]}
        BY <1>2, <1>4 DEF Readable
    <2> QED BY <2>1, <2>2 DEF Settled
<1>5. CASE FindBufferedPage(pages, b) # i
    <2>1. /\ DiskAfterEvict(i)[b] = disk[b]
          /\ Buffered(b) =>
                AfterEvict(i).blocks[FindBufferedPage(pages, b)] =
                pages.blocks[FindBufferedPage(pages, b)]
        BY <1>5, Evicted
    <2>2. Buffered(b) => pages'.blocks[FindBufferedPage(pages, b)] =
                         pages.blocks[FindBufferedPage(pages, b)]
        BY <1>1, <1>3, <1>5, <2>1
    <2> QED BY <1>2, <1>5, <2>1, <2>2, ReadableStays
<1> QED BY <1>4, <1>5

LEMMA EvictionSettles ==
    ASSUME Inv, NEW i, CanEvict(i), pages' = AfterEvict(i), disk' = DiskAfterEvict(i),
           renewed' = renewed
    PROVE  \A b \in Addr : Settled(b)
<1>1. CASE IsDirty(pages, i)
    <2>1. CanFlush(pages.blocks[i].addr)
        BY <1>1 DEF CanEvict
    <2>2. pages' = Cleaned(pages.blocks[i].addr) /\ disk' = Saved(pages.blocks[i].addr)
        BY <1>1 DEF AfterEvict, DiskAfterEvict
    <2> QED BY <2>1, <2>2, FlushSettles
<1>2. CASE ~IsDirty(pages, i)
    <2>1. pages' = pages /\ disk' = disk
        BY <1>2 DEF AfterEvict, DiskAfterEvict
    <2> QED BY <2>1, ReadableStays
<1> QED BY <1>1, <1>2

LEMMA ReadPageSettles ==
    ASSUME Inv, NEW a \in Addr, ReadPage(a)
    PROVE  \A b \in Addr : Settled(b)
<1>1. PICK i \in Evictable(pages), stamp \in Stamps :
        /\ CanEvict(i)
        /\ disk' = DiskAfterEvict(i)
        /\ pages' = Placed(AfterEvict(i), i, a, disk[a], stamp)
    BY DEF ReadPage
<1>2. ~Buffered(a) /\ disk[a] \in Data \ {Absent}
    BY DEF ReadPage, Inv, TypeOK
<1> SUFFICES ASSUME a \notin renewed PROVE Settled(a)
    <2>1. renewed' = renewed
        BY DEF ReadPage
    <2>2. \A b \in Addr : b # a => Settled(b)
        BY <1>1, <1>2, <2>1, PlacingSettles
    <2>3. a \in renewed => Settled(a)
        BY DEF Settled
    <2> QED BY <2>2, <2>3
<1>3. renewed' = renewed
    BY DEF ReadPage
<1>4. /\ i \in 1 .. nPageBlocks
      /\ FindBufferedPage(pages', a) = i
      /\ pages'.blocks[i].data = disk[a]
    BY <1>1, <1>2, <1>3, Placing, PlacingSlots
<1>5. FindBufferedPage(pages, a) = FAILURE /\ i # FAILURE
    BY <1>2, <1>4 DEF FAILURE, Buffered
<1>6. disk'[a] = disk[a]
    BY <1>1, <1>5, Evicted
<1>7. Readable(a) = {disk[a]} /\ Readable(a)' = {disk[a]}
    BY <1>4, <1>5, <1>6 DEF Readable
<1> QED BY <1>6, <1>7 DEF Settled

(* A new page is read as newPage() has filled it, in memory or on disk,    *)
(* unless it had a slot already, and what it pushes out is saved.          *)
LEMMA NewPageSettles ==
    ASSUME Inv, NEW a \in Addr, NewPage(a)
    PROVE  \/ renewed' = renewed /\ \A b \in Addr : Settled(b)
           \/ /\ Writable(a)
              /\ \/ /\ disk'[a] = Garbage /\ renewed' = renewed
                    /\ Readable(a)' # {} /\ Readable(a)' \subseteq {Zeros, Garbage}
                 \/ Readable(a) # {Absent} /\ renewed' = renewed \cup {a}
              /\ \A b \in Addr \ {a} : Settled(b)
<1>1. PICK i \in Evictable(pages), stamp \in Stamps :
        /\ CanEvict(i)
        /\ IF Writable(a)
           THEN /\ disk' = [DiskAfterEvict(i) EXCEPT ![a] = Garbage]
                /\ pages' = Placed(AfterEvict(i), i, a, Zeros, stamp)
                /\ renewed' = IF Buffered(a) THEN renewed \cup {a} ELSE renewed
           ELSE /\ disk' = DiskAfterEvict(i)
                /\ pages' = AfterEvict(i)
                /\ UNCHANGED renewed
    BY DEF NewPage
<1>2. CASE ~Writable(a)
    <2>1. CanEvict(i) /\ pages' = AfterEvict(i) /\ disk' = DiskAfterEvict(i) /\ renewed' = renewed
        BY <1>1, <1>2
    <2> QED BY <2>1, EvictionSettles
<1>3. CASE Writable(a)
    <2>1. /\ CanEvict(i)
          /\ disk' = [DiskAfterEvict(i) EXCEPT ![a] = Garbage]
          /\ pages' = Placed(AfterEvict(i), i, a, Zeros, stamp)
          /\ renewed' = IF Buffered(a) THEN renewed \cup {a} ELSE renewed
        BY <1>1, <1>3
    <2>2. DiskAfterEvict(i) \in [Addr -> Data]
        BY <2>1, Evicting
    <2>3. disk'[a] = Garbage /\ \A b \in Addr : b # a => disk'[b] = DiskAfterEvict(i)[b]
        BY <2>1, <2>2
    <2>4. /\ Buffered(a) => a \in renewed'
          /\ renewed \subseteq renewed' /\ renewed' \subseteq renewed \cup {a}
        BY <2>1
    <2>5. \A b \in Addr \ {a} : Settled(b)
        BY <2>1, <2>3, <2>4, Sizes, PlacingSettles
    <2>6. CASE Buffered(a)
        <3>1. FindBufferedPage(pages, a) # FAILURE
            BY <2>6 DEF Buffered
        <3>2. pages.blocks[FindBufferedPage(pages, a)].data # Absent
            BY <2>6, BufferedAt DEF Inv, Block
        <3>3. Readable(a) # {Absent}
            BY <3>1, <3>2 DEF Readable
        <3> QED BY <1>3, <2>1, <2>5, <2>6, <3>3
    <2>7. CASE ~Buffered(a)
        <3>1. /\ i \in 1 .. nPageBlocks
              /\ FindBufferedPage(pages', a) = i
              /\ pages'.blocks[i].data = Zeros
            BY <2>1, <2>4, <2>7, Sizes, Placing, PlacingSlots
        <3>2. Readable(a)' # {} /\ Readable(a)' \subseteq {Zeros, Garbage}
            BY <2>3, <3>1 DEF Readable, FAILURE
        <3> QED BY <1>3, <2>1, <2>3, <2>5, <2>7, <3>2
    <2> QED BY <2>6, <2>7
<1> QED BY <1>2, <1>3

(* The operations on a slot of page a leave all other pages alone, ...     *)
LEMMA OthersStay ==
    ASSUME Inv, NEW a \in Addr, Buffered(a),
           \/ ReadBuffered(a) \/ \E content \in Content : WritePage(a, content)
           \/ PinPage(a) \/ UnPinPage(a) \/ SetDirtyFlag(a) \/ ClearDirtyFlag(a),
           NEW b \in Addr, b # a
    PROVE  Readable(b)' = Readable(b)
<1>1. /\ FindBufferedPage(pages', b) = FindBufferedPage(pages, b)
      /\ disk' = disk
      /\ \A j \in 1 .. nPageBlocks :
            j # FindBufferedPage(pages, a) => pages'.blocks[j] = pages.blocks[j]
    BY OneSlotPreserves
<1>2. Buffered(b) => /\ FindBufferedPage(pages, b) \in 1 .. nPageBlocks
                     /\ FindBufferedPage(pages, b) # FindBufferedPage(pages, a)
    BY BufferedAt DEF Inv
<1> QED BY <1>1, <1>2, ReadableStays

(* ... and what readers of a find is what the page and its flags say.      *)
LEMMA OneSlotReadable ==
    ASSUME Inv, NEW a \in Addr, Buffered(a),
           \/ ReadBuffered(a) \/ \E content \in Content : WritePage(a, content)
           \/ PinPage(a) \/ UnPinPage(a) \/ SetDirtyFlag(a) \/ ClearDirtyFlag(a)
    PROVE  LET k == FindBufferedPage(pages, a)
           IN  /\ Readable(a) = IF "dirty" \in pages.blocks[k].flags
                                THEN {pages.blocks[k].data}
                                ELSE {pages.blocks[k].data, disk[a]}
               /\ Readable(a)' = IF "dirty" \in pages'.blocks[k].flags
                                 THEN {pages'.blocks[k].data}
                                 ELSE {pages'.blocks[k].data, disk[a]}
               /\ pages.blocks[k].data # Absent
<1>1. FindBufferedPage(pages', a) = FindBufferedPage(pages, a) /\ disk' = disk
    BY OneSlotPreserves
<1>2. FindBufferedPage(pages, a) # FAILURE
    BY DEF Buffered
<1>3. pages.blocks[FindBufferedPage(pages, a)] \in Block
    BY BufferedAt DEF Inv
<1> QED BY <1>1, <1>2, <1>3 DEF Readable, IsDirty, Block

(* Pages of a deleted file are not on disk. *)
Gone == \A a \in Addr : a[1] \notin files => disk[a] = Absent

LEMMA SavingKeepsGone ==
    ASSUME Inv, NEW e, CanFlush(e), NEW a \in Addr, a[1] \notin files
    PROVE  Saved(e)[a] = disk[a]
<1>1. \/ Saved(e) = disk
      \/ /\ e \in Addr /\ Writable(e)
         /\ Saved(e) = [disk EXCEPT ![e] = pages.blocks[FindBufferedPage(pages, e)].data]
    BY Flushing DEF Inv
<1>2. Writable(e) => e # a
    BY DEF Writable
<1> QED BY <1>1, <1>2 DEF Inv, TypeOK

LEMMA EvictionKeepsGone ==
    ASSUME Inv, NEW i, CanEvict(i), NEW a \in Addr, a[1] \notin files
    PROVE  DiskAfterEvict(i)[a] = disk[a]
BY SavingKeepsGone DEF CanEvict, DiskAfterEvict

LEMMA GoneAlways == Spec => []Gone
<1>1. Init => Gone
    BY DEF Init, Gone
<1>2. ASSUME Inv, Gone, [Next]_vars PROVE Gone'
    <2>1. SUFFICES ASSUME NEW b \in Addr, b[1] \notin files' PROVE disk'[b] = Absent
        BY DEF Gone
    <2>2. ASSUME files' = files, disk'[b] = disk[b] PROVE disk'[b] = Absent
        BY <1>2, <2>1, <2>2 DEF Gone
    <2>3. ASSUME NEW a \in Addr, ReadPage(a) PROVE disk'[b] = Absent
        <3>1. files' = files /\ \E i : CanEvict(i) /\ disk' = DiskAfterEvict(i)
            BY <2>3 DEF ReadPage
        <3> QED BY <1>2, <2>1, <2>2, <3>1, EvictionKeepsGone
    <2>4. ASSUME NEW a \in Addr, NewPage(a) PROVE disk'[b] = Absent
        <3>1. /\ files' = files /\ a[1] \in files
              /\ \E i : /\ CanEvict(i)
                       /\ \/ disk' = [DiskAfterEvict(i) EXCEPT ![a] = Garbage]
                          \/ disk' = DiskAfterEvict(i)
            BY <2>4 DEF NewPage
        <3>2. PICK i : /\ CanEvict(i)
                       /\ \/ disk' = [DiskAfterEvict(i) EXCEPT ![a] = Garbage]
                          \/ disk' = DiskAfterEvict(i)
            BY <3>1
        <3>3. DiskAfterEvict(i) \in [Addr -> Data] /\ DiskAfterEvict(i)[b] = disk[b]
            BY <1>2, <2>1, <3>1, <3>2, Evicting, EvictionKeepsGone
        <3>4. a # b
            BY <2>1, <3>1
        <3> QED BY <2>2, <3>1, <3>2, <3>3, <3>4
    <2>5. ASSUME \/ \E a \in Addr : FlushPage(a)
                 \/ \E a \in Volatile : AllocateOverMarked(a)
          PROVE  disk'[b] = Absent
        <3>1. files' = files /\ \E e : CanFlush(e) /\ disk' = Saved(e)
            BY <2>5 DEF FlushPage, AllocateOverMarked
        <3> QED BY <1>2, <2>1, <2>2, <3>1, SavingKeepsGone
    <2>6. ASSUME NEW a \in Addr, RemoveCachePage(a) PROVE disk'[b] = Absent
        <3>1. CASE UNCHANGED <<files, disk>>
            BY <2>2, <3>1
        <3>2. CASE /\ files' = files \ {a[1]}
                   /\ disk' = [c \in Addr |-> IF c[1] = a[1] THEN Absent ELSE disk[c]]
            <4>1. disk'[b] = IF b[1] = a[1] THEN Absent ELSE disk[b]
                BY <3>2
            <4>2. b[1] # a[1] => disk[b] = Absent
                BY <1>2, <2>1, <3>2 DEF Gone
            <4> QED BY <4>1, <4>2
        <3> QED BY <2>6, <3>1, <3>2 DEF RemoveCachePage
    <2>7. ASSUME Squash PROVE disk'[b] = Absent
        <3>1. files' = files
            BY <2>7 DEF Squash
        <3>2. ~FlushedBySquash(b)
            BY <2>1, <3>1 DEF FlushedBySquash, Writable
        <3>3. disk'[b] = disk[b]
            BY <2>7, <3>2 DEF Squash
        <3> QED BY <2>2, <3>1, <3>3
    <2>8. ASSUME \/ \E a \in Addr : \/ ReadBuffered(a) \/ PinPage(a) \/ UnPinPage(a)
                                    \/ SetDirtyFlag(a) \/ ClearDirtyFlag(a)
                                    \/ \E content \in Content : WritePage(a, content)
                 \/ \E a \in Volatile : AllocateCachePage(a)
                 \/ AllocateAsserts \/ Crash \/ Refuse \/ UNCHANGED vars
          PROVE  disk'[b] = Absent
        <3>1. files' = files /\ disk' = disk
            BY <2>8 DEF ReadBuffered, PinPage, UnPinPage, SetDirtyFlag, ClearDirtyFlag,
                WritePage, AllocateCachePage, AllocateAsserts, Crash, Refuse, vars
        <3> QED BY <2>2, <3>1
    <2>9. ASSUME Commence PROVE disk'[b] = Absent
        <3>1. CASE UNCHANGED <<disk, files>>
            BY <2>2, <3>1
        <3>2. CASE disk' = [a \in Addr |-> Absent]
            BY <3>2
        <3> QED BY <2>9, <3>1, <3>2 DEF Commence
    <2> QED BY <1>2, <2>3, <2>4, <2>5, <2>6, <2>7, <2>8, <2>9 DEF Next
<1> QED BY <1>1, <1>2, InvAlways, PTL DEF Spec

----------------------------------------------------------------------------
(* The buffer manager implements a page store *)

LEMMA SettleStep ==
    ASSUME status = "running", UNCHANGED <<status, refused, renewed>>,
           \A a \in Addr : Settled(a)
    PROVE  Store!Settle
<1>1. \A a \in Addr : a \in renewed \/ Readable(a)' \in (SUBSET Readable(a)) \ {{}}
    BY DEF Settled
<1> QED BY <1>1 DEF Store!Settle, Store!Settled, Store!Addr, Addr, Settled

LEMMA StutterStep ==
    ASSUME UNCHANGED <<status, disk, refused, renewed>>,
           \A a \in Addr : Readable(a)' = Readable(a)
    PROVE  UNCHANGED Store!vars
BY DEF Store!vars

LEMMA NewStep ==
    ASSUME status = "running", UNCHANGED <<status, refused>>,
           NEW a \in Addr, a \notin refused,
           \/ /\ disk'[a] = Garbage /\ renewed' = renewed
              /\ Readable(a)' # {} /\ Readable(a)' \subseteq {Zeros, Garbage}
           \/ Readable(a) # {Absent} /\ renewed' = renewed \cup {a},
           \A b \in Addr \ {a} : Settled(b)
    PROVE  Store!New(a)
<1>1. \A b \in Addr \ {a} : b \in renewed \/ Readable(b)' \in (SUBSET Readable(b)) \ {{}}
    BY DEF Settled
<1> QED BY <1>1 DEF Store!New, Store!Settled, Store!Addr, Addr, Settled

LEMMA WriteStep ==
    ASSUME status = "running", UNCHANGED <<status, disk, refused, renewed>>,
           NEW a \in Addr, NEW content, Readable(a) # {Absent},
           Readable(a)' = {content},
           \A b \in Addr : b # a => Readable(b)' = Readable(b)
    PROVE  Store!Write(a, content)
BY DEF Store!Write, Store!Addr, Addr

LEMMA GiveUpStep ==
    ASSUME status = "running", UNCHANGED <<status, disk, refused, renewed>>,
           NEW a \in Addr, Readable(a)' = Readable(a) \cup {disk[a]},
           \A b \in Addr : b # a => Readable(b)' = Readable(b)
    PROVE  Store!GiveUp(a)
BY DEF Store!GiveUp, Store!Addr, Addr

LEMMA OneSlotStep ==
    ASSUME Inv, status = "running", NEW a \in Addr, Buffered(a),
           \/ ReadBuffered(a) \/ \E content \in Content : WritePage(a, content)
           \/ PinPage(a) \/ UnPinPage(a) \/ SetDirtyFlag(a) \/ ClearDirtyFlag(a)
    PROVE  [Store!Next]_(Store!vars)
<1> DEFINE old == pages.blocks[FindBufferedPage(pages, a)]
           new == pages'.blocks[FindBufferedPage(pages, a)]
<1>1. \A b \in Addr : b # a => Readable(b)' = Readable(b)
    BY OthersStay
<1>2. UNCHANGED <<status, disk, refused, renewed>>
    BY OneSlotPreserves
<1>3. /\ Readable(a) = IF "dirty" \in old.flags THEN {old.data} ELSE {old.data, disk[a]}
      /\ Readable(a)' = IF "dirty" \in new.flags THEN {new.data} ELSE {new.data, disk[a]}
      /\ old.data # Absent
    BY OneSlotReadable
<1>4. \/ new.data = old.data /\ new.flags = old.flags
      \/ \E content \in Content : new.data = content /\ new.flags = old.flags \cup {"dirty"}
      \/ new.data = old.data /\ new.flags = old.flags \cup {"pin"}
      \/ new.data = old.data /\ new.flags = old.flags \ {"pin"}
      \/ new.data = old.data /\ new.flags = old.flags \cup {"dirty"}
      \/ new.data = old.data /\ new.flags = old.flags \ {"dirty"}
    BY OneSlotPreserves
<1> HIDE DEF old, new
<1>5. CASE /\ new.data = old.data
           /\ \/ new.flags = old.flags
              \/ new.flags = old.flags \cup {"pin"}
              \/ new.flags = old.flags \ {"pin"}
    <2>1. Readable(a)' = Readable(a)
        BY <1>3, <1>5
    <2> QED BY <1>1, <1>2, <2>1, StutterStep
<1>6. CASE new.data = old.data /\ new.flags = old.flags \cup {"dirty"}
    <2>1. Settled(a)
        BY <1>2, <1>3, <1>6 DEF Settled
    <2>2. \A b \in Addr : b # a => Settled(b)
        BY <1>1, <1>2 DEF Settled, Readable
    <2> QED BY <1>2, <2>1, <2>2, SettleStep DEF Store!Next
<1>7. CASE new.data = old.data /\ new.flags = old.flags \ {"dirty"}
    <2>1. Readable(a)' = Readable(a) \cup {disk[a]}
        BY <1>3, <1>7
    <2> QED BY <1>1, <1>2, <2>1, GiveUpStep DEF Store!Next, Store!Addr, Addr
<1>8. ASSUME NEW content \in Content,
             new.data = content, new.flags = old.flags \cup {"dirty"}
      PROVE  [Store!Next]_(Store!vars)
    <2>1. Readable(a)' = {content} /\ Readable(a) # {Absent}
        BY <1>3, <1>8
    <2>2. Store!Write(a, content)
        BY <1>1, <1>2, <2>1, WriteStep
    <2> QED BY <2>2 DEF Store!Next, Store!Addr, Addr
<1> QED BY <1>4, <1>5, <1>6, <1>7, <1>8

LEMMA EmptiedLeaves ==
    ASSUME NEW n \in Nat, NEW layer \in Layer(n), NEW a \in Addr, VACANT \notin File,
           NEW j \in 1 .. n, j # FindBufferedPage(layer, a)
    PROVE  Emptied(layer, a).blocks[j] = layer.blocks[j]
BY DEF Emptied, Layer

LEMMA RemoveStep ==
    ASSUME Inv, NEW a \in Addr, RemoveCachePage(a)
    PROVE  Store!Remove(a)
<1>1. /\ pages \in Layer(nPageBlocks) /\ Single(pages, renewed)
      /\ pages' = Emptied(pages, a)
    BY DEF RemoveCachePage, Inv, TypeOK, OneCopy, Single
<1>2. a \in renewed \/ Readable(a)' = {disk'[a]}
    <2>1. a \notin renewed => FindBufferedPage(pages', a) = FAILURE
        BY <1>1, Sizes, FoundWhenEmptied
    <2> QED BY <2>1 DEF Readable
<1>3. ASSUME NEW b \in Addr, b # a
      PROVE  \/ Readable(b)' = {disk'[b]} /\ Readable(b) = {disk[b]}
             \/ \E data : Readable(b) = {data} /\ Readable(b)' = {data}
             \/ \E data : Readable(b) = {data, disk[b]} /\ Readable(b)' = {data, disk'[b]}
    <2>1. FindBufferedPage(pages', b) = FindBufferedPage(pages, b)
        BY <1>1, <1>3, Sizes, FoundWhenEmptied
    <2>2. CASE ~Buffered(b)
        BY <2>1, <2>2 DEF Readable, Buffered
    <2>3. CASE Buffered(b)
        <3> DEFINE k == FindBufferedPage(pages, b)
        <3>1. /\ k \in 1 .. nPageBlocks /\ pages.blocks[k].addr = b
              /\ k # FAILURE
            BY <2>3, BufferedAt DEF Inv, Buffered
        <3>2. k # FindBufferedPage(pages, a)
            BY <1>1, <1>3, <3>1, Sizes, FirstSlot
        <3>3. pages'.blocks[k] = pages.blocks[k]
            <4> HIDE DEF k
            <4> QED BY <1>1, <3>1, <3>2, Sizes, EmptiedLeaves
        <3> QED BY <2>1, <3>1, <3>3 DEF Readable, IsDirty
    <2> QED BY <2>2, <2>3
<1>4. /\ status = "running" /\ UNCHANGED <<status, refused, renewed>>
      /\ \/ /\ disk[a] # Absent
            /\ disk' = [b \in Addr |-> IF b[1] = a[1] THEN Absent ELSE disk[b]]
         \/ disk' = disk
    BY DEF RemoveCachePage
<1>5. ASSUME NEW b \in Addr, b # a
      PROVE  /\ Readable(b)' # {}
             /\ Readable(b)' \subseteq Readable(b) \cup {disk'[b]}
             /\ b[1] # a[1] => Readable(b)' = Readable(b)
    <2>1. b[1] # a[1] => disk'[b] = disk[b]
        BY <1>4
    <2> QED BY <1>3, <1>5, <2>1
<1> QED BY <1>2, <1>4, <1>5 DEF Store!Remove, Store!Addr, Addr

(* At its end the program has nothing but what is on disk. *)
LEMMA OnDisk ==
    ASSUME Inv, pages' = InitLayer(nPageBlocks), cache' = InitLayer(nCacheBlocks),
           NEW a \in Addr
    PROVE  Readable(a)' = {disk'[a]}
BY EmptyPreserves DEF Readable

LEMMA CrashStep ==
    ASSUME Inv, Crash \/ AllocateAsserts
    PROVE  Store!Crash
<1>1. /\ status = "running" /\ status' = "dead" /\ UNCHANGED <<disk, refused, renewed>>
      /\ \A a \in Addr : Readable(a)' = {disk[a]}
    BY OnDisk DEF Crash, AllocateAsserts
<1> QED BY <1>1 DEF Store!Crash, Store!OnlyDurable, Store!Addr, Addr

LEMMA SquashStep ==
    ASSUME Inv, Gone, Squash
    PROVE  Store!Close
<1>1. ASSUME NEW a \in Addr
      PROVE  \/ disk'[a] \in Readable(a)
             \/ disk'[a] = disk[a] /\ (a \in refused \/ disk[a] = Absent)
    <2>1. CASE FlushedBySquash(a)
        <3>1. /\ Buffered(a) /\ Writable(a) /\ IsDirty(pages, FindBufferedPage(pages, a))
            BY <2>1 DEF FlushedBySquash
        <3>2. disk'[a] = Saved(a)[a]
            BY <2>1 DEF Squash
        <3>3. Saved(a)[a] = pages.blocks[FindBufferedPage(pages, a)].data
            BY <3>1 DEF Saved, Inv, TypeOK
        <3>4. Readable(a) = {pages.blocks[FindBufferedPage(pages, a)].data}
            BY <3>1 DEF Readable, Buffered
        <3> QED BY <3>2, <3>3, <3>4
    <2>2. CASE ~FlushedBySquash(a)
        <3>1. disk'[a] = disk[a]
            BY <2>2 DEF Squash
        <3>2. CASE ~Writable(a)
            BY <3>1, <3>2 DEF Writable, Gone
        <3>3. CASE Writable(a)
            <4>1. disk[a] \in Readable(a)
                BY <2>2, <3>3 DEF FlushedBySquash, Readable, Buffered
            <4> QED BY <3>1, <4>1
        <3> QED BY <3>2, <3>3
    <2> QED BY <2>1, <2>2
<1>2. /\ status = "running" /\ status' = "squashed" /\ UNCHANGED <<refused, renewed>>
      /\ \A a \in Addr : Readable(a)' = {disk'[a]}
    BY OnDisk DEF Squash
<1> QED BY <1>1, <1>2 DEF Store!Close, Store!Addr, Addr

LEMMA CommenceStep ==
    ASSUME Inv, Commence
    PROVE  Store!Commence
<1>1. /\ status # "running" /\ status' = "running"
      /\ disk' = disk \/ disk' = [a \in Addr |-> Absent]
      /\ renewed' = {} /\ refused' = refused
    BY DEF Commence
<1>2. \A a \in Addr : Readable(a)' = {disk'[a]}
    BY OnDisk DEF Commence
<1> QED BY <1>1, <1>2 DEF Store!Commence, Store!Addr, Addr

LEMMA RefuseStep ==
    ASSUME Inv, Refuse
    PROVE  Store!Refuse
<1>1. /\ refused' \subseteq Addr /\ UNCHANGED <<status, disk, renewed>>
      /\ \A a \in Addr : Readable(a)' = Readable(a)
    BY BufferAssumption DEF Refuse, Readable, IsDirty, Addr
<1> QED BY <1>1 DEF Store!Refuse, Store!Addr, Addr

LEMMA InitStep == Init => Store!Init
<1> SUFFICES ASSUME Init PROVE Store!Init
    OBVIOUS
<1>1. \A a \in Addr : Readable(a) = {disk[a]}
    BY Sizes, Empty DEF Init, Readable
<1> QED BY <1>1 DEF Init, Store!Init, Store!OnlyDurable, Store!Addr, Addr

LEMMA NextStep ==
    ASSUME Inv, NoPages, Gone, [Next]_vars
    PROVE  [Store!Next]_(Store!vars)
<1>1. ASSUME NEW a \in Addr, ReadPage(a) PROVE [Store!Next]_(Store!vars)
    <2>1. status = "running" /\ UNCHANGED <<status, refused, renewed>>
        BY <1>1 DEF ReadPage
    <2> QED BY <1>1, <2>1, ReadPageSettles, SettleStep DEF Store!Next
<1>2. ASSUME NEW a \in Addr, NewPage(a) PROVE [Store!Next]_(Store!vars)
    <2>1. status = "running" /\ UNCHANGED <<status, refused>>
        BY <1>2 DEF NewPage
    <2>2. CASE renewed' = renewed /\ \A b \in Addr : Settled(b)
        BY <2>1, <2>2, SettleStep DEF Store!Next
    <2>3. CASE /\ Writable(a)
               /\ \/ /\ disk'[a] = Garbage /\ renewed' = renewed
                     /\ Readable(a)' # {} /\ Readable(a)' \subseteq {Zeros, Garbage}
                  \/ Readable(a) # {Absent} /\ renewed' = renewed \cup {a}
               /\ \A b \in Addr \ {a} : Settled(b)
        <3>1. a \notin refused
            BY <2>3 DEF Writable
        <3>2. Store!New(a)
            BY <2>1, <2>3, <3>1, NewStep
        <3> QED BY <3>2 DEF Store!Next, Store!Addr, Addr
    <2> QED BY <1>2, <2>2, <2>3, NewPageSettles
<1>3. ASSUME \/ \E a \in Addr : FlushPage(a)
             \/ \E a \in Volatile : AllocateOverMarked(a)
      PROVE  [Store!Next]_(Store!vars)
    <2>1. /\ status = "running" /\ UNCHANGED <<status, refused, renewed>>
          /\ \E e : CanFlush(e) /\ pages' = Cleaned(e) /\ disk' = Saved(e)
        BY <1>3 DEF FlushPage, AllocateOverMarked
    <2> QED BY <2>1, FlushSettles, SettleStep DEF Store!Next
<1>4. ASSUME NEW a \in Addr,
             \/ ReadBuffered(a) \/ \E content \in Content : WritePage(a, content)
             \/ PinPage(a) \/ UnPinPage(a) \/ SetDirtyFlag(a) \/ ClearDirtyFlag(a)
      PROVE  [Store!Next]_(Store!vars)
    <2>1. status = "running" /\ Buffered(a)
        BY <1>4 DEF ReadBuffered, WritePage, PinPage, UnPinPage, SetDirtyFlag, ClearDirtyFlag
    <2> QED BY <1>4, <2>1, OneSlotStep
<1>5. ASSUME NEW a \in Addr, RemoveCachePage(a) PROVE [Store!Next]_(Store!vars)
    BY <1>5, RemoveStep DEF Store!Next, Store!Addr, Addr
<1>6. ASSUME Crash \/ AllocateAsserts PROVE [Store!Next]_(Store!vars)
    BY <1>6, CrashStep DEF Store!Next
<1>7. ASSUME Squash PROVE [Store!Next]_(Store!vars)
    BY <1>7, SquashStep DEF Store!Next
<1>8. ASSUME Commence PROVE [Store!Next]_(Store!vars)
    BY <1>8, CommenceStep DEF Store!Next
<1>9. ASSUME Refuse PROVE [Store!Next]_(Store!vars)
    BY <1>9, RefuseStep DEF Store!Next
<1>10. ASSUME (\E a \in Volatile : AllocateCachePage(a)) \/ UNCHANGED vars
       PROVE  [Store!Next]_(Store!vars)
    <2>1. UNCHANGED <<status, pages, disk, refused, renewed>>
        BY <1>10 DEF AllocateCachePage, vars
    <2>2. \A a \in Addr : Readable(a)' = Readable(a)
        BY <2>1 DEF Readable, IsDirty
    <2> QED BY <2>1, <2>2, StutterStep
<1> QED BY <1>1, <1>2, <1>3, <1>4, <1>5, <1>6, <1>7, <1>8, <1>9, <1>10 DEF Next

(* Whatever is read, written, evicted, refused by the disk, removed or     *)
(* lost in a crash or with a disk that cannot be mounted: users find what  *)
(* a page store lets them find.  That lets them find anything in a page    *)
(* made anew while it was buffered, until the program starts again.        *)
THEOREM Implementation == Spec => ImplementsPageStore
<1>1. Inv /\ NoPages /\ Gone /\ [Next]_vars => [Store!Next]_(Store!vars)
    BY NextStep
<1>2. Init => Store!Init
    BY InitStep
<1> QED BY <1>1, <1>2, InvAlways, NoPagesAlways, GoneAlways, PTL
        DEF Spec, ImplementsPageStore, Store!Spec
=============================================================================
