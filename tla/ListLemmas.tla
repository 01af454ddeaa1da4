----------------------------- MODULE ListLemmas -----------------------------
(***************************************************************************)
(* Facts about numbers, loops and lists that the proofs share, whatever    *)
(* program they are about.                                                 *)
(***************************************************************************)
EXTENDS Integers, SequencesExt, SequenceTheorems, FiniteSetTheorems,
        NaturalsInduction, WellFoundedInduction, TLAPS

----------------------------------------------------------------------------
(* Least and greatest numbers *)

(* Of some numbers one is the least.                                       *)
LEMMA LeastOfSome ==
    ASSUME NEW S \in SUBSET Nat, S # {}
    PROVE  Min(S) \in S /\ \A y \in S : Min(S) <= y
<1> DEFINE Less == {ss \in Nat \X Nat : ss[1] < ss[2]}
<1>1. IsWellFoundedOn(Less, Nat)
    BY NatLessThanWellFounded, Zenon DEF OpToRel
<1>2. PICK x \in S : \A y \in S : ~(<<y, x>> \in Less)
    <2> HIDE DEF Less
    <2> QED BY <1>1, WFMin
<1>3. ASSUME NEW y \in S PROVE x <= y
    <2>1. <<y, x>> \in Nat \X Nat /\ ~(y < x)
        BY <1>2
    <2> QED BY <2>1
<1> QED BY <1>3 DEF Min

(* A finite set of numbers that is not empty has a greatest one: of the    *)
(* subsets that have none a smallest would have an element too many.       *)
LEMMA GreatestOfSome ==
    ASSUME NEW S \in SUBSET Nat, IsFiniteSet(S), S # {}
    PROVE  Max(S) \in S /\ \A y \in S : y <= Max(S)
<1> DEFINE Tops(T) == {x \in T : \A y \in T : x >= y}
           Without == {T \in SUBSET S : T # {} /\ Tops(T) = {}}
<1>1. SUFFICES ASSUME Without # {} PROVE FALSE
    <2>1. S \notin Without
        BY <1>1
    <2>2. Max(S) \in S /\ \A y \in S : Max(S) >= y
        BY <2>1, Zenon DEF Max
    <2> QED BY <2>2
<1>2. IsWellFoundedOn(StrictSubsetOrdering(S), SUBSET S)
    BY FS_StrictSubsetOrderingWellFounded, FS_FiniteSubsetsOfFinite
<1>3. PICK T \in Without : \A U \in Without : ~(<<U, T>> \in StrictSubsetOrdering(S))
    <2>1. Without \subseteq SUBSET S
        OBVIOUS
    <2> HIDE DEF Without
    <2> QED BY <1>1, <1>2, <2>1, WFMin
<1>4. PICK x \in T : TRUE
    OBVIOUS
<1>5. T \ {x} \notin Without
    BY <1>3, <1>4 DEF StrictSubsetOrdering
<1>6. CASE T \ {x} = {}
    <2>1. x \in Tops(T)
        BY <1>4, <1>6
    <2> QED BY <2>1
<1>7. CASE T \ {x} # {}
    <2>1. PICK z \in T \ {x} : \A y \in T \ {x} : z >= y
        BY <1>5, <1>7
    <2>2. x \in Nat /\ z \in Nat /\ T \subseteq Nat
        BY <1>4
    <2>3. CASE x >= z
        <3>1. ASSUME NEW y \in T PROVE x >= y
            BY <2>1, <2>2, <2>3
        <3>2. x \in Tops(T)
            BY <1>4, <3>1
        <3> QED BY <3>2
    <2>4. CASE z >= x
        <3>1. ASSUME NEW y \in T PROVE z >= y
            BY <2>1, <2>4
        <3>2. z \in Tops(T)
            BY <2>1, <3>1
        <3> QED BY <3>2
    <2> QED BY <2>2, <2>3, <2>4
<1> QED BY <1>6, <1>7

----------------------------------------------------------------------------
(* Loops *)

(* What holds before the first round of a loop and is kept by every round  *)
(* holds after any number of them.                                         *)
LEMMA EveryRound ==
    ASSUME NEW L \in Nat, NEW A, 0 \in A,
           \A n \in 0 .. L : n < L /\ n \in A => n + 1 \in A
    PROVE  \A n \in 0 .. L : n \in A
<1> DEFINE Without == {n \in Nat : n <= L /\ n \notin A}
<1>1. SUFFICES ASSUME Without # {} PROVE FALSE
    OBVIOUS
<1>2. PICK m \in Without : \A n \in Without : m <= n
    <2>1. Without \in SUBSET Nat
        OBVIOUS
    <2> HIDE DEF Without
    <2> QED BY <1>1, <2>1, LeastOfSome
<1>3. m # 0 /\ m - 1 \in 0 .. L /\ m - 1 < L
    BY <1>2
<1>4. m - 1 \in A
    BY <1>2, <1>3
<1> QED BY <1>2, <1>3, <1>4

(* What a loop has computed after each of its L rounds; G[n] is what round *)
(* n does.                                                                 *)
IsLoop(f, L, base, G) ==
    /\ f[0] = base
    /\ \A n \in 1 .. L : f[n] = G[n][f[n - 1]]

(* Such a function exists, and keeps the type of what the rounds change.   *)
LEMMA LoopExists ==
    ASSUME NEW S, NEW base \in S, NEW L \in Nat, NEW G \in [1 .. L -> [S -> S]]
    PROVE  \E f \in [0 .. L -> S] : IsLoop(f, L, base, G)
<1> DEFINE A == {n \in 0 .. L : \E f \in [0 .. n -> S] : IsLoop(f, n, base, G)}
<1>1. 0 \in A
    <2> DEFINE f == [i \in 0 .. 0 |-> base]
    <2>1. f \in [0 .. 0 -> S] /\ IsLoop(f, 0, base, G)
        BY DEF IsLoop
    <2> HIDE DEF f
    <2> QED BY <2>1
<1>2. ASSUME NEW n \in 0 .. L, n < L, n \in A PROVE n + 1 \in A
    <2>1. PICK f \in [0 .. n -> S] : IsLoop(f, n, base, G)
        BY <1>2
    <2>2. n + 1 \in 0 .. L /\ n + 1 \in 1 .. L /\ n \in 0 .. n /\ f[n] \in S
        BY <1>2, <2>1
    <2> DEFINE g == [i \in 0 .. n + 1 |-> IF i = n + 1 THEN G[n + 1][f[n]] ELSE f[i]]
    <2>3. G[n + 1][f[n]] \in S
        BY <2>2
    <2>4. g \in [0 .. n + 1 -> S] /\ g[0] = base
        BY <2>1, <2>3 DEF IsLoop
    <2>5. ASSUME NEW i \in 1 .. n + 1 PROVE g[i] = G[i][g[i - 1]]
        BY <2>1 DEF IsLoop
    <2>6. IsLoop(g, n + 1, base, G)
        BY <2>4, <2>5 DEF IsLoop
    <2> HIDE DEF g
    <2> QED BY <2>2, <2>4, <2>6
<1>3. L \in A
    <2>1. \A n \in 0 .. L : n < L /\ n \in A => n + 1 \in A
        BY <1>2
    <2>2. L \in 0 .. L
        OBVIOUS
    <2> HIDE DEF A
    <2> QED BY <1>1, <2>1, <2>2, EveryRound
<1> QED BY <1>3

----------------------------------------------------------------------------
(* Lists *)

(* A function over the first n positions is a list of that length.         *)
LEMMA FunctionIsSeq ==
    ASSUME NEW S, NEW n \in Nat, NEW f \in [1 .. n -> S]
    PROVE  f \in Seq(S) /\ Len(f) = n
<1>1. f \in Seq(S)
    BY SeqDef
<1> QED BY <1>1, LenProperties

(* What is taken from the front of a queue *)

LEMMA Prefix ==
    ASSUME NEW S, NEW queue \in Seq(S), NEW n \in 0 .. Len(queue)
    PROVE  /\ SubSeq(queue, 1, n) \in Seq(S)
           /\ Len(SubSeq(queue, 1, n)) = n
           /\ \A i \in 1 .. n : SubSeq(queue, 1, n)[i] = queue[i]
<1>1. \A i \in 1 .. n : queue[i] \in S
    BY ElementOfSeq
<1> QED BY <1>1, SubSeqProperties

LEMMA Suffix ==
    ASSUME NEW S, NEW queue \in Seq(S), NEW n \in 0 .. Len(queue)
    PROVE  /\ SubSeq(queue, n + 1, Len(queue)) \in Seq(S)
           /\ Len(SubSeq(queue, n + 1, Len(queue))) = Len(queue) - n
           /\ \A i \in 1 .. Len(queue) - n : SubSeq(queue, n + 1, Len(queue))[i] = queue[n + i]
<1>1. Len(queue) \in Nat /\ \A i \in (n + 1) .. Len(queue) : queue[i] \in S
    BY ElementOfSeq, LenProperties
<1> QED BY <1>1, SubSeqProperties

(* What a list holds when something is appended to it, or another list.    *)
LEMMA AppendRange ==
    ASSUME NEW T, NEW seq \in Seq(T), NEW x \in T
    PROVE  /\ Append(seq, x) \in Seq(T)
           /\ Range(Append(seq, x)) = Range(seq) \cup {x}
<1>1. Len(seq) \in Nat /\ DOMAIN seq = 1 .. Len(seq)
    BY LenProperties
<1>2. /\ Append(seq, x) \in Seq(T)
      /\ DOMAIN Append(seq, x) = 1 .. Len(seq) + 1
      /\ Append(seq, x)[Len(seq) + 1] = x
      /\ \A i \in 1 .. Len(seq) : Append(seq, x)[i] = seq[i]
    BY <1>1, AppendProperties, LenProperties
<1>3. \A y : y \in Range(Append(seq, x)) <=> \E i \in 1 .. Len(seq) + 1 : Append(seq, x)[i] = y
    BY <1>2 DEF Range
<1>4. \A i : i \in 1 .. Len(seq) + 1 <=> i \in 1 .. Len(seq) \/ i = Len(seq) + 1
    BY <1>1
<1>5. \A y : y \in Range(seq) <=> \E i \in 1 .. Len(seq) : seq[i] = y
    BY <1>1 DEF Range
<1> HIDE DEF Range
<1>6. \A y : y \in Range(Append(seq, x)) <=> y \in Range(seq) \/ y = x
    BY <1>2, <1>3, <1>4, <1>5
<1> QED BY <1>2, <1>6

LEMMA NothingInEmpty ==
    /\ Range(<<>>) = {}
    /\ \A T : \A seq \in Seq(T) : Range(seq) = {} => seq = <<>>
<1>1. Range(<<>>) = {}
    BY DEF Range
<1>2. ASSUME NEW T, NEW seq \in Seq(T), Range(seq) = {} PROVE seq = <<>>
    <2>1. Len(seq) \in Nat /\ DOMAIN seq = 1 .. Len(seq)
        BY LenProperties
    <2>2. Len(seq) # 0 => 1 \in DOMAIN seq
        BY <2>1
    <2>3. Len(seq) = 0
        BY <1>2, <2>1, <2>2 DEF Range
    <2> QED BY <2>3, EmptySeq
<1> QED BY <1>1, <1>2

LEMMA ConcatRange ==
    ASSUME NEW T, NEW s1 \in Seq(T), NEW s2 \in Seq(T)
    PROVE  /\ s1 \o s2 \in Seq(T)
           /\ Range(s1 \o s2) = Range(s1) \cup Range(s2)
<1>1. /\ Len(s1) \in Nat /\ DOMAIN s1 = 1 .. Len(s1)
      /\ Len(s2) \in Nat /\ DOMAIN s2 = 1 .. Len(s2)
    BY LenProperties
<1>2. /\ s1 \o s2 \in Seq(T)
      /\ DOMAIN (s1 \o s2) = 1 .. Len(s1) + Len(s2)
      /\ \A i \in 1 .. Len(s1) + Len(s2) :
            (s1 \o s2)[i] = IF i <= Len(s1) THEN s1[i] ELSE s2[i - Len(s1)]
    BY <1>1, ConcatProperties, LenProperties
<1> DEFINE both == s1 \o s2
<1>3. ASSUME NEW y \in Range(both) PROVE y \in Range(s1) \cup Range(s2)
    <2>1. PICK i \in 1 .. Len(s1) + Len(s2) : both[i] = y
        BY <1>2, <1>3 DEF Range
    <2> HIDE DEF both
    <2>2. CASE i <= Len(s1)
        BY <1>1, <1>2, <2>1, <2>2 DEF Range, both
    <2>3. CASE ~(i <= Len(s1))
        <3>1. i - Len(s1) \in 1 .. Len(s2)
            BY <1>1, <2>1, <2>3
        <3> QED BY <1>1, <1>2, <2>1, <2>3, <3>1 DEF Range, both
    <2> QED BY <2>2, <2>3
<1>4. ASSUME NEW y \in Range(s1) PROVE y \in Range(both)
    <2>1. PICK i \in 1 .. Len(s1) : s1[i] = y
        BY <1>1, <1>4 DEF Range
    <2>2. i \in 1 .. Len(s1) + Len(s2)
        BY <1>1
    <2> QED BY <1>2, <2>1, <2>2 DEF Range
<1>5. ASSUME NEW y \in Range(s2) PROVE y \in Range(both)
    <2>1. PICK i \in 1 .. Len(s2) : s2[i] = y
        BY <1>1, <1>5 DEF Range
    <2>2. /\ i + Len(s1) \in 1 .. Len(s1) + Len(s2)
          /\ ~(i + Len(s1) <= Len(s1)) /\ (i + Len(s1)) - Len(s1) = i
        BY <1>1
    <2> QED BY <1>2, <2>1, <2>2 DEF Range
<1> HIDE DEF both
<1>6. Range(both) = Range(s1) \cup Range(s2)
    BY <1>3, <1>4, <1>5
<1> QED BY <1>2, <1>6 DEF both

(* Lists put behind each other are a list.                                 *)
LEMMA Flattened ==
    ASSUME NEW T, NEW seqs \in Seq(Seq(T))
    PROVE  FlattenSeq(seqs) \in Seq(T)
<1> DEFINE L == Len(seqs)
           Flat(f) == [i \in 1 .. L |-> IF i = 1 THEN seqs[i] ELSE f[i - 1] \o seqs[i]]
           flatten == CHOOSE f : f = Flat(f)
           G == [n \in 1 .. L |-> [h \in Seq(T) |-> IF n = 1 THEN seqs[n] ELSE h \o seqs[n]]]
<1>1. L \in Nat /\ \A n \in 1 .. L : seqs[n] \in Seq(T)
    BY LenProperties, ElementOfSeq
<1>2. CASE L = 0
    <2>1. seqs = <<>> /\ FlattenSeq(seqs) = seqs
        BY <1>2, EmptySeq DEF FlattenSeq
    <2>2. <<>> \in Seq(T)
        OBVIOUS
    <2> QED BY <2>1, <2>2
<1>3. CASE L # 0
    <2>1. FlattenSeq(seqs) = flatten[L]
        BY <1>3 DEF FlattenSeq
    <2>2. flatten = Flat(flatten)
        <3>1. G \in [1 .. L -> [Seq(T) -> Seq(T)]]
            BY <1>1, ConcatProperties
        <3>2. <<>> \in Seq(T)
            OBVIOUS
        <3>3. PICK f \in [0 .. L -> Seq(T)] : IsLoop(f, L, <<>>, G)
            <4> HIDE DEF G, L
            <4> QED BY <1>1, <3>1, <3>2, LoopExists
        <3> DEFINE g == [i \in 1 .. L |-> f[i]]
        <3>4. ASSUME NEW n \in 1 .. L PROVE g[n] = Flat(g)[n]
            <4>1. n \in 0 .. L /\ n - 1 \in 0 .. L /\ (n # 1 => n - 1 \in 1 .. L)
                BY <1>1
            <4>2. f[n] = G[n][f[n - 1]] /\ f[n - 1] \in Seq(T)
                <5> HIDE DEF G
                <5> QED BY <3>3, <4>1 DEF IsLoop
            <4>3. f[n] = IF n = 1 THEN seqs[n] ELSE f[n - 1] \o seqs[n]
                BY <4>2
            <4> HIDE DEF G
            <4> QED BY <4>1, <4>3
        <3>5. g = Flat(g)
            BY <3>4
        <3> HIDE DEF Flat, g
        <3> QED BY <3>5
    <2> HIDE DEF flatten
    <2>3. \A n \in 1 .. L : flatten[n] = IF n = 1 THEN seqs[n] ELSE flatten[n - 1] \o seqs[n]
        BY <2>2
    <2> DEFINE A == {n \in 0 .. L : n # 0 => flatten[n] \in Seq(T)}
    <2>4. 0 \in A
        BY <1>1
    <2>5. ASSUME NEW n \in 0 .. L, n < L, n \in A PROVE n + 1 \in A
        <3>1. n + 1 \in 1 .. L /\ n + 1 \in 0 .. L /\ (n + 1) - 1 = n
            BY <1>1, <2>5
        <3>2. CASE n = 0
            BY <1>1, <2>3, <3>1, <3>2
        <3>3. CASE n # 0
            <4> HIDE DEF L, A
            <4>1. flatten[n + 1] = flatten[n] \o seqs[n + 1]
                <5>1. n + 1 # 1
                    BY <1>1, <3>3
                <5>2. flatten[n + 1] = IF n + 1 = 1 THEN seqs[n + 1]
                                       ELSE flatten[(n + 1) - 1] \o seqs[n + 1]
                    BY <2>3, <3>1, Zenon
                <5> QED BY <3>1, <5>1, <5>2
            <4>2. flatten[n] \in Seq(T) /\ seqs[n + 1] \in Seq(T)
                BY <1>1, <2>5, <3>1, <3>3 DEF A
            <4>3. flatten[n] \o seqs[n + 1] \in Seq(T)
                BY <4>2, ConcatProperties
            <4> QED BY <3>1, <4>1, <4>3 DEF A
        <3> QED BY <3>2, <3>3
    <2>6. L \in A
        <3>1. \A n \in 0 .. L : n < L /\ n \in A => n + 1 \in A
            BY <2>5
        <3>2. L \in 0 .. L
            BY <1>1
        <3> HIDE DEF A
        <3> QED BY <1>1, <2>4, <3>1, <3>2, EveryRound
    <2> QED BY <1>3, <2>1, <2>6
<1> QED BY <1>2, <1>3
=============================================================================
