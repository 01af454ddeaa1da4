-------------------------- MODULE SyncLink_proofs --------------------------
(***************************************************************************)
(* Proofs about SyncLink, with the estimate of either source, for any      *)
(* delays, number of trials, timeout and lag.                              *)
(***************************************************************************)
EXTENDS SyncLink, ListLemmas

----------------------------------------------------------------------------
(* The smoothed average *)

(* The smoothed average lies between the old average and the sample: the   *)
(* rounding never carries it past either of them.                          *)
LEMMA SmoothedBetween ==
    ASSUME NEW avg \in Nat, NEW half \in Nat
    PROVE  /\ Smoothed(avg, half) \in Nat
           /\ avg <= half => avg <= Smoothed(avg, half) /\ Smoothed(avg, half) <= half
           /\ half <= avg => half <= Smoothed(avg, half) /\ Smoothed(avg, half) <= avg
BY DEF Smoothed

(* An average moves on a sample from below exactly when the sample is at   *)
(* least 8 above it, and reaches every sample from above: the fixed points *)
(* of the smoothing are the 8 values up to the sample.                     *)
LEMMA SmoothedFixpoint ==
    ASSUME NEW avg \in Nat, NEW half \in Nat
    PROVE  Smoothed(avg, half) = avg <=> half - 7 <= avg /\ avg <= half
BY DEF Smoothed

(* Half a round trip is a natural number, at most half of any bound.       *)
LEMMA HalfTripBounds ==
    ASSUME NEW elapsed_ \in Nat, NEW bound \in Nat, elapsed_ <= 2 * bound + 1
    PROVE  HalfTrip(elapsed_) \in 0 .. bound
BY DEF HalfTrip

----------------------------------------------------------------------------
(* The average of samples *)

(* The loop of calc_delay() ends with at least the average it began with   *)
(* and the least sample as often as there are samples.                     *)
LEMMA AddedBounds ==
    ASSUME NEW avg \in Nat, NEW samples \in Seq(Nat), NEW least \in Nat,
           \A i \in 1 .. Len(samples) : least <= samples[i]
    PROVE  Added(avg, samples) \in Nat /\ Len(samples) * least <= Added(avg, samples)
<1> DEFINE L == Len(samples)
           Sum(f) == [n \in 0 .. L |-> IF n = 0 THEN avg ELSE f[n - 1] + samples[n]]
           sum == CHOOSE f : f = Sum(f)
           G == [n \in 1 .. L |-> [x \in Nat |-> x + samples[n]]]
<1>1. L \in Nat /\ \A n \in 1 .. L : samples[n] \in Nat
    BY LenProperties, ElementOfSeq
<1>2. Added(avg, samples) = sum[L]
    BY DEF Added
<1>3. sum = Sum(sum)
    <2>1. G \in [1 .. L -> [Nat -> Nat]]
        BY <1>1
    <2>2. PICK f \in [0 .. L -> Nat] : IsLoop(f, L, avg, G)
        <3> HIDE DEF G, L
        <3> QED BY <1>1, <2>1, LoopExists
    <2>3. ASSUME NEW n \in 0 .. L PROVE f[n] = Sum(f)[n]
        <3>1. CASE n = 0
            BY <2>2, <3>1 DEF IsLoop
        <3>2. CASE n # 0
            <4>1. n \in 1 .. L /\ n - 1 \in 0 .. L
                BY <1>1, <3>2
            <4>2. f[n] = G[n][f[n - 1]] /\ f[n - 1] \in Nat
                <5> HIDE DEF G
                <5> QED BY <2>2, <4>1 DEF IsLoop
            <4> QED BY <3>2, <4>1, <4>2
        <3> QED BY <3>1, <3>2
    <2>4. f = Sum(f)
        BY <2>2, <2>3
    <2> HIDE DEF Sum
    <2> QED BY <2>4
<1>4. /\ 0 \in 0 .. L /\ sum[0] = avg
      /\ \A n \in 0 .. L : n < L => sum[n + 1] = sum[n] + samples[n + 1]
    <2> HIDE DEF sum
    <2>1. 0 \in 0 .. L /\ sum[0] = avg
        BY <1>1, <1>3
    <2>2. ASSUME NEW n \in 0 .. L, n < L PROVE sum[n + 1] = sum[n] + samples[n + 1]
        <3>1. n + 1 \in 0 .. L /\ n + 1 # 0 /\ (n + 1) - 1 = n
            BY <1>1, <2>2
        <3>2. sum[n + 1] = Sum(sum)[n + 1]
            <4> HIDE DEF Sum
            <4> QED BY <1>3
        <3> QED BY <3>1, <3>2
    <2> QED BY <2>1, <2>2
<1> HIDE DEF sum, L
<1> DEFINE A == {n \in 0 .. L : sum[n] \in Nat /\ n * least <= sum[n]}
<1>5. 0 \in A
    BY <1>4
<1>6. ASSUME NEW n \in 0 .. L, n < L, n \in A PROVE n + 1 \in A
    <2>1. n + 1 \in 1 .. L /\ n \in Nat
        BY <1>1, <1>6
    <2>2. samples[n + 1] \in Nat /\ least <= samples[n + 1]
        BY <1>1, <2>1 DEF L
    <2>3. (n + 1) * least = n * least + least /\ n * least \in Nat
        BY <2>1
    <2>4. n + 1 \in 0 .. L
        BY <1>1, <1>6
    <2> HIDE DEF A
    <2>5. sum[n] \in Nat /\ n * least <= sum[n] /\ sum[n + 1] = sum[n] + samples[n + 1]
        BY <1>4, <1>6 DEF A
    <2>6. sum[n + 1] \in Nat /\ (n + 1) * least <= sum[n + 1]
        <3> DEFINE x == n * least
                   y == sum[n]
                   z == samples[n + 1]
        <3>1. x \in Nat /\ y \in Nat /\ z \in Nat /\ x <= y /\ least <= z
            BY <2>2, <2>3, <2>5
        <3> HIDE DEF x, y, z
        <3>2. y + z \in Nat /\ x + least <= y + z
            BY <3>1
        <3> QED BY <2>3, <2>5, <3>2 DEF x, y, z
    <2> QED BY <2>4, <2>6 DEF A
<1>7. L \in A
    <2>1. \A n \in 0 .. L : n < L /\ n \in A => n + 1 \in A
        BY <1>6
    <2>2. L \in 0 .. L
        BY <1>1
    <2> HIDE DEF A
    <2> QED BY <1>1, <1>5, <2>1, <2>2, EveryRound
<1> QED BY <1>2, <1>7 DEF L

(* A quotient is no less than what the divisor is multiplied with.         *)
LEMMA QuotientBounds ==
    ASSUME NEW x \in Nat, NEW n \in Nat \ {0}, NEW least \in Nat, n * least <= x
    PROVE  x \div n \in Nat /\ least <= x \div n
<1> DEFINE q == x \div n
<1>1. q \in Int /\ 0 <= q /\ x < n * (q + 1)
    BY SMT
<1> HIDE DEF q
<1>2. ASSUME q < least PROVE FALSE
    <2>1. q + 1 <= least
        BY <1>1, <1>2
    <2>2. \A i, j, k \in Nat : i <= j => k * i <= k * j /\ k * i \in Nat /\ k * j \in Nat
        OBVIOUS
    <2>3. q + 1 \in Nat /\ least \in Nat /\ n \in Nat
        BY <1>1
    <2> DEFINE low  == n * (q + 1)
               high == n * least
    <2>4. low <= high /\ low \in Nat /\ high \in Nat /\ x < low /\ high <= x
        BY <1>1, <2>1, <2>2, <2>3
    <2> HIDE DEF low, high
    <2> QED BY <2>4
<1> QED BY <1>1, <1>2 DEF q

(* So an average of samples that is added to the old one is no less than   *)
(* the least of the samples.                                               *)
LEMMA SampledBounds ==
    ASSUME NEW avg \in Nat, NEW samples \in Seq(Nat), samples # <<>>, NEW least \in Nat,
           \A i \in 1 .. Len(samples) : least <= samples[i]
    PROVE  Sampled(avg, samples) \in Nat /\ least <= Sampled(avg, samples)
<1>1. Len(samples) \in Nat \ {0}
    BY LenProperties, EmptySeq
<1> QED BY <1>1, AddedBounds, QuotientBounds DEF Sampled

(* The window always holds the new sample, and some of the old ones.       *)
LEMMA WindowBounds ==
    ASSUME NEW samples \in Seq(Nat), NEW sample \in Nat, NEW size \in Nat \ {0}
    PROVE  LET window == Window(samples, sample, size)
           IN  /\ window \in Seq(Nat) /\ window # <<>>
               /\ \A i \in 1 .. Len(window) :
                     window[i] = sample \/ \E j \in 1 .. Len(samples) : window[i] = samples[j]
<1> DEFINE longer == Append(samples, sample)
           L == Len(samples)
<1>1. /\ longer \in Seq(Nat) /\ Len(longer) = L + 1 /\ L \in Nat
      /\ longer[L + 1] = sample /\ \A i \in 1 .. L : longer[i] = samples[i]
    BY AppendProperties, LenProperties
<1> HIDE DEF longer, L
<1>2. CASE Len(longer) > size
    <2>1. Window(samples, sample, size) = Tail(longer)
        BY <1>2 DEF Window, longer
    <2>2. longer # <<>> /\ L >= 1
        BY <1>1, <1>2, EmptySeq
    <2>3. Tail(longer) \in Seq(Nat) /\ Len(Tail(longer)) = L
          /\ \A i \in 1 .. L : Tail(longer)[i] = longer[i + 1]
        BY <1>1, <2>2, HeadTailProperties
    <2>4. Tail(longer) # <<>>
        BY <2>2, <2>3, EmptySeq
    <2>5. ASSUME NEW i \in 1 .. L
          PROVE  Tail(longer)[i] = sample \/ \E j \in 1 .. L : Tail(longer)[i] = samples[j]
        <3>1. i + 1 \in 1 .. L \/ i + 1 = L + 1
            BY <1>1
        <3> QED BY <1>1, <2>3, <3>1
    <2> QED BY <2>1, <2>3, <2>4, <2>5 DEF L
<1>3. CASE ~(Len(longer) > size)
    <2>1. Window(samples, sample, size) = longer
        BY <1>3 DEF Window, longer
    <2>2. \A i \in 1 .. L + 1 : i \in 1 .. L \/ i = L + 1
        BY <1>1
    <2>3. longer # <<>>
        BY <1>1, EmptySeq
    <2> QED BY <1>1, <2>1, <2>2, <2>3 DEF L
<1> QED BY <1>2, <1>3

----------------------------------------------------------------------------
(* The server may exceed the timeout by no more than it has been late      *)
(* since the timeout was due.                                              *)
MeasuredSinceTimeout == elapsed <= MAX_SYNC_TIMEOUT * avg_delay + 1 + late

IInv == TypeOK /\ MeasuredSinceTimeout

LEMMA ProductIsNat == \A f, a \in Nat : f * a \in Nat
OBVIOUS

(* An answer or a timeout after which the measurement starts over.         *)
LEMMA StartsOver ==
    ASSUME avg_delay' \in Nat, elapsed' = 0, late' = 0
    PROVE  MeasuredSinceTimeout'
<1> DEFINE timeout == MAX_SYNC_TIMEOUT * avg_delay'
<1>1. timeout \in Nat
    BY ProductIsNat, ParametersAssumption
<1> HIDE DEF timeout
<1>2. 0 <= timeout + 1 + 0
    BY <1>1
<1> QED BY <1>2 DEF MeasuredSinceTimeout, timeout

LEMMA InitEstablishes == Init => IInv
<1> SUFFICES ASSUME Init PROVE IInv
    OBVIOUS
<1>1. TypeOK
    BY ParametersAssumption DEF Init, TypeOK
<1>2. MAX_SYNC_TIMEOUT * INITIAL_DELAY \in Nat
    BY ProductIsNat, ParametersAssumption
<1>3. elapsed = 0 /\ late = 0 /\ avg_delay = INITIAL_DELAY
    BY DEF Init
<1>4. MeasuredSinceTimeout
    BY <1>2, <1>3 DEF MeasuredSinceTimeout
<1> QED BY <1>1, <1>4 DEF IInv

(* What either source makes of an answer is a natural number.              *)
LEMMA EstimateTyped ==
    ASSUME TypeOK, HandleClientTiming
    PROVE  avg_delay' \in Nat /\ session_delay' \in Nat /\ delay_times' \in Seq(Nat)
<1>1. HalfTrip(elapsed) \in Nat
    BY DEF TypeOK, HalfTrip
<1>2. CASE Smooth
    BY <1>1, <1>2, SmoothedBetween DEF Smooth, TypeOK
<1>3. CASE Sample
    <2> DEFINE sum    == session_delay + HalfTrip(elapsed)
               mean   == sum \div (sync_counter + 1)
               window == Window(delay_times, mean, NUM_DELAY_SAMPLES)
    <2>1. sum \in Nat /\ mean \in Nat
        <3>1. sum \in Nat /\ sync_counter + 1 \in Nat \ {0}
            BY <1>1, ParametersAssumption DEF TypeOK
        <3>2. \A x \in Nat, n \in Nat \ {0} : x \div n \in Nat
            OBVIOUS
        <3> QED BY <3>1, <3>2
    <2>2. /\ session_delay' = IF SessionEnds THEN 0 ELSE sum
          /\ delay_times' = IF SessionEnds THEN window ELSE delay_times
          /\ avg_delay' = IF SessionEnds THEN Sampled(avg_delay, delay_times') ELSE avg_delay
        BY <1>3 DEF Sample
    <2> HIDE DEF sum, mean
    <2>3. window \in Seq(Nat) /\ window # <<>>
        BY <2>1, WindowBounds, ParametersAssumption DEF TypeOK
    <2> HIDE DEF window
    <2>4. \A i \in 1 .. Len(window) : 0 <= window[i]
        BY <2>3, ElementOfSeq
    <2>5. Sampled(avg_delay, window) \in Nat
        BY <2>3, <2>4, SampledBounds DEF TypeOK
    <2> QED BY <2>1, <2>2, <2>3, <2>5 DEF TypeOK
<1> QED BY <1>2, <1>3 DEF HandleClientTiming

(* A client's SYNC_ACK: the measurement starts over.                       *)
LEMMA TimingPreserves == IInv /\ HandleClientTiming => IInv'
<1> SUFFICES ASSUME IInv, HandleClientTiming PROVE IInv'
    OBVIOUS
<1> USE ParametersAssumption DEF IInv
<1>1. avg_delay' \in Nat /\ session_delay' \in Nat /\ delay_times' \in Seq(Nat)
    BY EstimateTyped
<1>2. elapsed' = 0 /\ late' = 0 /\ unread' \in Nat
    BY DEF HandleClientTiming, SendSync, TypeOK
<1>3. /\ session_delay_counter' \in 0 .. NUM_SYNC_TRIALS - 1
      /\ sync_counter' \in 0 .. session_delay_counter'
    BY DEF HandleClientTiming, SessionEnds, TypeOK
<1>4. active' \in BOOLEAN /\ inbox' \in Nat
    BY DEF HandleClientTiming, TypeOK
<1>5. TypeOK'
    BY <1>1, <1>2, <1>3, <1>4 DEF HandleClientTiming, user, TypeOK
<1> QED BY <1>1, <1>2, <1>5, StartsOver

(* A timeout leaves the average alone and starts the measurement over.     *)
LEMMA TimeoutPreserves == IInv /\ HandleSyncTimeout => IInv'
<1> SUFFICES ASSUME IInv, HandleSyncTimeout PROVE IInv'
    OBVIOUS
<1> USE ParametersAssumption DEF IInv
<1>1. elapsed' = 0 /\ late' = 0 /\ unread' \in Nat
    BY DEF HandleSyncTimeout, SendSync, TypeOK
<1>2. /\ session_delay_counter' \in 0 .. NUM_SYNC_TRIALS - 1
      /\ sync_counter' \in 0 .. session_delay_counter'
      /\ session_delay' \in Nat /\ active' \in BOOLEAN
    BY DEF HandleSyncTimeout, SessionEnds, TypeOK
<1>3. TypeOK'
    BY <1>1, <1>2 DEF HandleSyncTimeout, user, TypeOK
<1>4. late' = 0
    BY DEF HandleSyncTimeout, SendSync
<1> QED BY <1>1, <1>3, <1>4, StartsOver DEF TypeOK

(* The client touches none of what the server measures.                    *)
LEMMA AnswerTyped ==
    ASSUME TypeOK, NEW queue \in Seq(Int), AnswerDue(queue)
    PROVE  queued_syncs' \in Seq(Int) /\ inbox' \in Nat
<1>1. queue # <<>> => Tail(queue) \in Seq(Int)
    OBVIOUS
<1> DEFINE answers == queue # <<>> /\ Head(queue) < 0
<1>2. CASE answers
    <2>1. queued_syncs' = Tail(queue) /\ inbox' = inbox + 1
        BY <1>2 DEF AnswerDue
    <2> QED BY <1>1, <1>2, <2>1 DEF TypeOK
<1>3. CASE ~answers
    BY <1>3 DEF AnswerDue, TypeOK
<1> QED BY <1>2, <1>3

LEMMA ClientPreserves ==
    IInv /\ (Twiddle \/ SetDelay \/ Start \/ Stop) => IInv'
<1> SUFFICES ASSUME IInv, Twiddle \/ SetDelay \/ Start \/ Stop PROVE IInv'
    OBVIOUS
<1> USE ParametersAssumption DEF IInv
<1>1. queued_syncs' \in Seq(Int) /\ inbox' \in Nat
    <2>1. CASE Twiddle
        <3> DEFINE queue == IF Receives THEN Append(queued_syncs, delay) ELSE queued_syncs
        <3>1. queue \in Seq(Int)
            BY DEF TypeOK
        <3> QED BY <2>1, <3>1, AnswerTyped DEF Twiddle
    <2>2. CASE SetDelay
        BY <2>2, AnswerTyped DEF SetDelay, Command, TypeOK
    <2>3. CASE Start
        BY <2>3, AnswerTyped DEF Start, Command, TypeOK
    <2>4. CASE Stop
        <3>1. <<>> \in Seq(Int)
            OBVIOUS
        <3> QED BY <2>4, <3>1, AnswerTyped DEF Stop, Command
    <2> QED BY <2>1, <2>2, <2>3, <2>4
<1>2. /\ unread' \in Nat /\ client_alive' \in BOOLEAN /\ delay' \in Delays
      /\ changes' \in 0 .. MaxDelayChanges /\ stops' \in 0 .. MaxStops
    <2>1. CASE Twiddle
        BY <2>1 DEF Twiddle, Receives, user, TypeOK
    <2>2. CASE SetDelay
        BY <2>2 DEF SetDelay, Command, TypeOK
    <2>3. CASE Start
        <3>1. client_alive' \in BOOLEAN
            BY <2>3, Zenon DEF Start
        <3> QED BY <2>3, <3>1, SMT DEF Start, Command, TypeOK
    <2>4. CASE Stop
        <3>1. client_alive' \in BOOLEAN
            BY <2>4, Zenon DEF Stop
        <3> QED BY <2>4, <3>1, SMT DEF Stop, Command, TypeOK
    <2> QED BY <2>1, <2>2, <2>3, <2>4
<1>3. UNCHANGED <<estimator, estimate, elapsed, trials, late>>
    BY DEF Twiddle, SetDelay, Start, Stop, Command
<1>4. TypeOK'
    BY <1>1, <1>2, <1>3 DEF estimate, trials, TypeOK
<1>5. MeasuredSinceTimeout'
    BY <1>3 DEF estimate, MeasuredSinceTimeout
<1> QED BY <1>4, <1>5

(* A millisecond: before the timeout is due it may be used up, after that  *)
(* it is counted in late.                                                  *)
LEMMA TickPreserves == IInv /\ Tick => IInv'
<1> SUFFICES ASSUME IInv, Tick PROVE IInv'
    OBVIOUS
<1> USE ParametersAssumption DEF IInv
<1>1. elapsed' \in Nat /\ late' \in 0 .. Lag
    BY DEF Tick, TypeOK
<1>2. queued_syncs' \in Seq(Int)
    <2> DEFINE aged(i) == IF queued_syncs[i] < 0 THEN -1 ELSE queued_syncs[i] - 1
    <2>1. queued_syncs \in Seq(Int) /\ queued_syncs' = [i \in DOMAIN queued_syncs |-> aged(i)]
        BY DEF Tick, TypeOK
    <2>2. \A i \in DOMAIN queued_syncs : aged(i) \in Int
        BY <2>1
    <2> HIDE DEF aged
    <2> QED BY <2>1, <2>2
<1>3. TypeOK'
    BY <1>1, <1>2 DEF Tick, estimate, trials, user, TypeOK
<1>4. MeasuredSinceTimeout'
    <2> DEFINE timeout == MAX_SYNC_TIMEOUT * avg_delay
    <2>1. timeout \in Nat /\ avg_delay' = avg_delay /\ elapsed' = elapsed + 1
          /\ elapsed \in Nat /\ late \in Nat /\ late' \in Nat
        <3>1. timeout \in Nat
            BY ProductIsNat DEF TypeOK
        <3>2. avg_delay' = avg_delay /\ elapsed' = elapsed + 1
            BY DEF Tick, estimate
        <3>3. elapsed \in Nat /\ late \in Nat /\ late' \in Nat
            BY <1>1 DEF TypeOK
        <3> QED BY <3>1, <3>2, <3>3
    <2>2. elapsed <= timeout + 1 + late
        BY DEF MeasuredSinceTimeout
    <2>3. elapsed > timeout => late' = late + 1
        BY DEF Tick, ServerDue, TimedOut
    <2>4. \A t, e, l, m \in Nat :
              e <= t + 1 + l /\ (e > t => m = l + 1) => e + 1 <= t + 1 + m
        OBVIOUS
    <2> HIDE DEF timeout
    <2>5. elapsed' <= timeout + 1 + late'
        BY <2>1, <2>2, <2>3, <2>4
    <2> QED BY <2>1, <2>5 DEF MeasuredSinceTimeout, timeout
<1> QED BY <1>3, <1>4

LEMMA StepPreserves == IInv /\ [Next]_vars => IInv'
<1> SUFFICES ASSUME IInv, [Next]_vars PROVE IInv'
    OBVIOUS
<1>1. CASE ServerNext
    BY <1>1, TimingPreserves, TimeoutPreserves DEF ServerNext
<1>2. CASE Twiddle \/ SetDelay \/ Start \/ Stop
    BY <1>2, ClientPreserves
<1>3. CASE Tick
    BY <1>3, TickPreserves
<1>4. CASE UNCHANGED vars
    BY <1>4 DEF vars, estimate, trials, user, IInv, TypeOK, MeasuredSinceTimeout
<1> QED BY <1>1, <1>2, <1>3, <1>4 DEF Next

(* The invariant the theorems share. *)
THEOREM Invariant == Spec => []IInv
<1>1. Init => IInv
    BY InitEstablishes
<1>2. IInv /\ [Next]_vars => IInv'
    BY StepPreserves
<1> QED BY <1>1, <1>2, PTL DEF Spec

(* Every reachable state of SyncLink has the types of TypeOK: the trial    *)
(* counters of a session never reach NUM_SYNC_TRIALS, and no more of its   *)
(* trials are answered than were made.                                     *)
THEOREM TypeCorrect == Spec => []TypeOK
<1>1. IInv => TypeOK
    BY DEF IInv
<1> QED BY <1>1, Invariant, PTL

(* No answer is measured as longer than the timeout in force plus what the *)
(* server was late: for every set of delays, however the client is stopped *)
(* and restarted, and however many SYNCs are under way.                    *)
THEOREM SampleIsBounded == Spec => []SampleBounded
<1>1. IInv => SampleBounded
    <2> SUFFICES ASSUME IInv PROVE SampleBounded
        OBVIOUS
    <2> DEFINE timeout == MAX_SYNC_TIMEOUT * avg_delay
    <2>1. timeout \in Nat /\ elapsed \in Nat /\ late \in Nat /\ late <= Lag /\ Lag \in Nat
        BY ProductIsNat, ParametersAssumption DEF IInv, TypeOK
    <2>2. elapsed <= timeout + 1 + late
        BY DEF IInv, MeasuredSinceTimeout
    <2> HIDE DEF timeout
    <2>3. elapsed <= timeout + 1 + Lag
        BY <2>1, <2>2
    <2> QED BY <2>3 DEF SampleBounded, timeout
<1> QED BY <1>1, Invariant, PTL

(* The build that is made: the smoothing, and the factor of server.hpp.    *)
AsBuilt ==
    /\ Estimators = {"srtt"}
    /\ MAX_SYNC_TIMEOUT = 10

(* With the factor 10 of server.hpp, an estimate of at most 1 ms stays at  *)
(* or below 1 ms for ever, whatever delays the client takes on later, as   *)
(* long as the server is at most 6 ms late.                                *)
THEOREM LowEstimateIsAbsorbing ==
    ASSUME AsBuilt, Lag <= 6
    PROVE  Spec => LowEstimateSticks
<1>1. IInv /\ [Next]_vars => [avg_delay <= 1 => avg_delay' <= 1]_vars
    <2> SUFFICES ASSUME IInv, Next, avg_delay <= 1
                 PROVE  avg_delay' <= 1
        BY DEF vars
    <2>1. CASE HandleClientTiming
        <3>1. avg_delay \in Nat /\ elapsed \in Nat /\ elapsed <= 10 * avg_delay + 7
            BY ParametersAssumption, SMT DEF AsBuilt, IInv, TypeOK, MeasuredSinceTimeout
        <3>2. avg_delay' = Smoothed(avg_delay, HalfTrip(elapsed))
            BY <2>1 DEF AsBuilt, IInv, TypeOK, HandleClientTiming, Smooth, Sample
        <3> QED BY <3>1, <3>2, SMT DEF Smoothed, HalfTrip
    <2>2. CASE ~HandleClientTiming
        BY <2>2 DEF Next, ServerNext, HandleSyncTimeout, Twiddle, SetDelay, Start, Stop,
                    Command, Tick, estimate
    <2> QED BY <2>1, <2>2
<1> QED BY <1>1, Invariant, PTL DEF Spec, LowEstimateSticks
----------------------------------------------------------------------------
(* Delays that the timeout of every estimate they lead to leaves room for: *)
(* no round trip is longer than MAX_SYNC_TIMEOUT times the least value the *)
(* average can fall to, half the shortest round trip.  Nobody types        *)
(* "stop".                                                                 *)
Reached(least) ==
    /\ least <= INITIAL_DELAY
    /\ \A d \in Delays : /\ least <= HalfTrip(RoundTrip(d))
                         /\ RoundTrip(d) <= MAX_SYNC_TIMEOUT * least

WithinReach ==
    /\ MaxStops = 0
    /\ \E least \in Nat : Reached(least)

(* The one SYNC that is under way is unread, waits for its answer, or is   *)
(* answered; elapsed tells how long ago it was sent.                       *)
Unread == unread = 1 /\ queued_syncs = <<>> /\ inbox = 0 /\ elapsed = 0 /\ late = 0

Waiting ==
    /\ unread = 0 /\ inbox = 0 /\ late = 0
    /\ \E d \in Delays : \E wait \in -1 .. d :
          queued_syncs = <<wait>> /\ elapsed = d - wait

Answered ==
    /\ unread = 0 /\ queued_syncs = <<>> /\ inbox = 1
    /\ \E d \in Delays : elapsed = RoundTrip(d) + late

(* ... and no sample, on its own, in a session's sum or in the window, is  *)
(* less than the least.                                                    *)
Measured(least) ==
    estimator = "sampled" =>
        /\ sync_counter * least <= session_delay
        /\ \A i \in 1 .. Len(delay_times) : least <= delay_times[i]

OneSync(least) ==
    /\ client_alive /\ active
    /\ least <= avg_delay
    /\ Measured(least)
    /\ Unread \/ Waiting \/ Answered

(* No timeout is ever due while a SYNC waits for its answer. *)
LEMMA NeverTimedOut ==
    ASSUME TypeOK, NEW least \in Nat, Reached(least), OneSync(least), inbox = 0
    PROVE  ~TimedOut
<1>1. PICK d \in Delays : elapsed <= RoundTrip(d) \/ elapsed = 0
    <2>1. CASE Unread
        BY <2>1 DEF Unread, TypeOK
    <2>2. CASE Waiting
        BY <2>2, ParametersAssumption DEF Waiting, RoundTrip
    <2>3. ~Answered
        BY DEF Answered
    <2> QED BY <2>1, <2>2, <2>3 DEF OneSync
<1>2. MAX_SYNC_TIMEOUT \in Nat /\ avg_delay \in Nat /\ elapsed \in Nat
    BY ParametersAssumption DEF TypeOK
<1>3. least <= avg_delay /\ RoundTrip(d) <= MAX_SYNC_TIMEOUT * least /\ RoundTrip(d) \in Nat
    BY ParametersAssumption DEF OneSync, Reached, RoundTrip
<1>4. \A f, a, b \in Nat : a <= b => f * a <= f * b /\ 0 <= f * b
    OBVIOUS
<1>5. MAX_SYNC_TIMEOUT * least <= MAX_SYNC_TIMEOUT * avg_delay /\ 0 <= MAX_SYNC_TIMEOUT * avg_delay
    BY <1>2, <1>3, <1>4
<1>6. MAX_SYNC_TIMEOUT * least \in Nat /\ MAX_SYNC_TIMEOUT * avg_delay \in Nat
    BY <1>2
<1> DEFINE low == MAX_SYNC_TIMEOUT * least
           high == MAX_SYNC_TIMEOUT * avg_delay
<1> HIDE DEF low, high
<1>7. ~(elapsed > high)
    <2>1. low <= high /\ 0 <= high /\ low \in Nat /\ high \in Nat /\ RoundTrip(d) <= low
        BY <1>3, <1>5, <1>6 DEF low, high
    <2> QED BY <1>1, <1>2, <1>3, <2>1
<1> QED BY <1>7 DEF TimedOut, high

(* A sample that is not less than the least leaves either average so.      *)
LEMMA SmoothedReaches ==
    ASSUME NEW avg \in Nat, NEW half \in Nat, NEW least \in Nat, least <= avg, least <= half
    PROVE  least <= Smoothed(avg, half)
<1>1. Smoothed(avg, half) \in Nat
    BY SmoothedBetween
<1>2. CASE avg <= half
    BY <1>1, <1>2, SmoothedBetween
<1>3. CASE half <= avg
    BY <1>1, <1>3, SmoothedBetween
<1> QED BY <1>2, <1>3

LEMMA AnswerMeasured ==
    ASSUME TypeOK, NEW least \in Nat, least <= avg_delay, Measured(least), HandleClientTiming,
           HalfTrip(elapsed) \in Nat, least <= HalfTrip(elapsed)
    PROVE  least <= avg_delay' /\ Measured(least)'
<1> DEFINE half == HalfTrip(elapsed)
<1>1. avg_delay \in Nat /\ half \in Nat /\ least <= half /\ estimator' = estimator
    BY DEF TypeOK, HandleClientTiming
<1>2. CASE Smooth
    <2>1. avg_delay' = Smoothed(avg_delay, half) /\ estimator = "srtt"
        BY <1>2 DEF Smooth
    <2> HIDE DEF half
    <2> QED BY <1>1, <2>1, SmoothedReaches DEF Measured
<1>3. CASE Sample
    <2> DEFINE sum    == session_delay + half
               n      == sync_counter + 1
               mean   == sum \div n
               window == Window(delay_times, mean, NUM_DELAY_SAMPLES)
    <2>1. /\ session_delay' = IF SessionEnds THEN 0 ELSE sum
          /\ delay_times' = IF SessionEnds THEN window ELSE delay_times
          /\ avg_delay' = IF SessionEnds THEN Sampled(avg_delay, delay_times') ELSE avg_delay
          /\ sync_counter' = IF SessionEnds THEN 0 ELSE n
          /\ estimator = "sampled"
        BY <1>3 DEF Sample, HandleClientTiming
    <2>2. n \in Nat \ {0} /\ sum \in Nat /\ n * least <= sum
        <3>1. sync_counter \in Nat /\ session_delay \in Nat
            BY ParametersAssumption DEF TypeOK
        <3>2. sync_counter * least <= session_delay
            BY <2>1 DEF Measured
        <3>3. \A k \in Nat : (k + 1) * least = k * least + least /\ k * least \in Nat
            OBVIOUS
        <3> DEFINE before == sync_counter * least
        <3>4. n * least = before + least /\ before \in Nat /\ before <= session_delay
            BY <3>1, <3>2, <3>3
        <3> HIDE DEF half, before
        <3> QED BY <1>1, <3>1, <3>4
    <2> HIDE DEF sum, n
    <2>3. mean \in Nat /\ least <= mean
        BY <2>2, QuotientBounds
    <2> HIDE DEF mean
    <2>4. delay_times \in Seq(Nat) /\ \A i \in 1 .. Len(delay_times) : least <= delay_times[i]
        BY <2>1 DEF TypeOK, Measured
    <2>5. /\ window \in Seq(Nat) /\ window # <<>>
          /\ \A i \in 1 .. Len(window) : least <= window[i]
        <3>1. NUM_DELAY_SAMPLES \in Nat \ {0}
            BY ParametersAssumption
        <3>2. /\ window \in Seq(Nat) /\ window # <<>>
              /\ \A i \in 1 .. Len(window) :
                    \/ window[i] = mean
                    \/ \E j \in 1 .. Len(delay_times) : window[i] = delay_times[j]
            BY <2>3, <2>4, <3>1, WindowBounds
        <3> HIDE DEF window
        <3>3. ASSUME NEW i \in 1 .. Len(window) PROVE least <= window[i]
            <4>1. CASE window[i] = mean
                BY <2>3, <4>1
            <4>2. CASE window[i] # mean
                <5>1. PICK j \in 1 .. Len(delay_times) : window[i] = delay_times[j]
                    BY <3>2, <4>2
                <5> QED BY <2>4, <5>1
            <4> QED BY <4>1, <4>2
        <3> QED BY <3>2, <3>3
    <2> HIDE DEF window
    <2>6. least <= Sampled(avg_delay, window)
        BY <1>1, <2>5, SampledBounds
    <2>7. CASE SessionEnds
        <3>1. 0 * least <= 0
            OBVIOUS
        <3> QED BY <2>1, <2>5, <2>6, <2>7, <3>1 DEF Measured
    <2>8. CASE ~SessionEnds
        BY <2>1, <2>2, <2>4, <2>8 DEF Measured
    <2> QED BY <2>7, <2>8
<1> QED BY <1>2, <1>3 DEF HandleClientTiming

(* A client that is measured in this way sends the average no lower.       *)
LEMMA AnswerKeepsOneSync ==
    ASSUME TypeOK, NEW least \in Nat, Reached(least), OneSync(least), HandleClientTiming
    PROVE  OneSync(least)'
<1>1. Answered
    BY DEF HandleClientTiming, OneSync, Unread, Waiting
<1>2. PICK d \in Delays : elapsed = RoundTrip(d) + late
    BY <1>1 DEF Answered
<1>3. least <= HalfTrip(elapsed) /\ HalfTrip(elapsed) \in Nat
    <2>1. least <= HalfTrip(RoundTrip(d))
        BY DEF Reached
    <2> QED BY <1>2, <2>1, ParametersAssumption DEF HalfTrip, RoundTrip, TypeOK
<1>4. least <= avg_delay' /\ Measured(least)'
    BY <1>3, AnswerMeasured DEF OneSync
<1>5. Unread'
    BY <1>1, ParametersAssumption DEF Answered, HandleClientTiming, SendSync, Unread
<1>6. client_alive' /\ active'
    <2>1. client_alive /\ active
        BY DEF OneSync
    <2> QED BY <2>1, Zenon DEF HandleClientTiming, user
<1> QED BY <1>4, <1>5, <1>6 DEF OneSync

(* The client takes the SYNC, and answers it when its wait is over. *)
LEMMA AnswerInTime ==
    ASSUME TypeOK, Unread \/ Waiting \/ Answered, AnswerDue(queued_syncs),
           unread' = unread, elapsed' = elapsed, late' = late
    PROVE  (Unread \/ Waiting \/ Answered)'
<1>1. CASE Unread
    BY <1>1 DEF Unread, AnswerDue
<1>2. CASE Waiting
    <2>1. PICK d \in Delays : \E wait \in -1 .. d : queued_syncs = <<wait>> /\ elapsed = d - wait
        BY <1>2 DEF Waiting
    <2>2. PICK wait \in -1 .. d : queued_syncs = <<wait>> /\ elapsed = d - wait
        BY <2>1
    <2>3. d \in Nat /\ Head(queued_syncs) = wait /\ Tail(queued_syncs) = <<>> /\ queued_syncs # <<>>
        BY <2>2, ParametersAssumption
    <2>4. CASE wait < 0
        <3>1. queued_syncs' = <<>> /\ inbox' = 1
            BY <1>2, <2>3, <2>4 DEF AnswerDue, Waiting
        <3>2. elapsed' = RoundTrip(d) + late' /\ unread' = 0
            BY <1>2, <2>2, <2>3, <2>4 DEF Waiting, RoundTrip
        <3> QED BY <3>1, <3>2 DEF Answered
    <2>5. CASE ~(wait < 0)
        <3>1. queued_syncs' = queued_syncs /\ inbox' = inbox
            BY <2>3, <2>5 DEF AnswerDue
        <3> QED BY <1>2, <3>1 DEF Waiting
    <2> QED BY <2>4, <2>5
<1>3. CASE Answered
    BY <1>3 DEF Answered, AnswerDue
<1> QED BY <1>1, <1>2, <1>3

LEMMA ClientKeepsOneSync ==
    ASSUME TypeOK, MaxStops = 0, NEW least \in Nat, OneSync(least), Twiddle \/ SetDelay \/ Start \/ Stop
    PROVE  OneSync(least)'
<1>1. ~Start /\ ~Stop
    BY DEF TypeOK, OneSync, Start, Stop
<1>2. UNCHANGED <<avg_delay, active, elapsed, late, client_alive>> /\ Measured(least)'
    <2>1. UNCHANGED <<estimator, estimate, active, elapsed, late, client_alive>>
        BY <1>1 DEF Twiddle, SetDelay, Command, trials, user
    <2> QED BY <2>1 DEF estimate, OneSync, Measured
<1>3. (Unread \/ Waiting \/ Answered)'
    <2>1. CASE Twiddle /\ Receives
        <3>1. Unread
            BY <2>1 DEF OneSync, Receives, Waiting, Answered
        <3>2. Append(queued_syncs, delay) = <<delay>> /\ delay \in Nat /\ delay \in Delays
            BY <3>1, ParametersAssumption DEF Unread, TypeOK
        <3>3. queued_syncs' = <<delay>> /\ inbox' = 0
            <4>1. <<delay>> # <<>> /\ Head(<<delay>>) = delay
                OBVIOUS
            <4> QED BY <2>1, <3>1, <3>2, <4>1 DEF Twiddle, AnswerDue, Unread
        <3>4. unread' = 0 /\ elapsed' = 0 /\ late' = 0
            BY <1>2, <2>1, <3>1 DEF Twiddle, Unread
        <3>5. delay \in -1 .. delay /\ elapsed' = delay - delay
            BY <3>2, <3>4
        <3> QED BY <3>2, <3>3, <3>4, <3>5 DEF Waiting
    <2>2. CASE Twiddle /\ ~Receives
        BY <1>2, <2>2, AnswerInTime DEF Twiddle, OneSync
    <2>3. CASE SetDelay
        BY <1>2, <2>3, AnswerInTime DEF SetDelay, Command, OneSync
    <2> QED BY <1>1, <2>1, <2>2, <2>3
<1> QED BY <1>2, <1>3 DEF OneSync

LEMMA TickKeepsOneSync ==
    ASSUME TypeOK, NEW least \in Nat, Reached(least), OneSync(least), Tick
    PROVE  OneSync(least)'
<1>1. /\ UNCHANGED <<avg_delay, active, client_alive, unread, inbox>> /\ Measured(least)'
      /\ elapsed' = elapsed + 1
    BY DEF Tick, estimate, trials, user, OneSync, Measured
<1>2. ~Unread
    BY DEF Tick, ClientDue, Receives, OneSync, Unread
<1>3. CASE Waiting
    <2>1. PICK d \in Delays : \E wait \in -1 .. d : queued_syncs = <<wait>> /\ elapsed = d - wait
        BY <1>3 DEF Waiting
    <2>2. PICK wait \in -1 .. d : queued_syncs = <<wait>> /\ elapsed = d - wait
        BY <2>1
    <2>3. ~(wait < 0) /\ d \in Nat
        BY <2>2, ParametersAssumption DEF Tick, ClientDue
    <2>4. queued_syncs' = <<wait - 1>>
        <3>1. DOMAIN queued_syncs = 1 .. 1 /\ queued_syncs[1] = wait
            BY <2>2
        <3>2. queued_syncs' = [i \in 1 .. 1 |-> wait - 1]
            BY <2>3, <3>1 DEF Tick
        <3> QED BY <3>2
    <2>5. late' = 0
        BY <1>3, NeverTimedOut DEF Tick, ServerDue, Waiting
    <2>6. wait - 1 \in -1 .. d /\ elapsed' = d - (wait - 1)
        BY <1>1, <2>2, <2>3
    <2>7. Waiting'
        BY <1>1, <1>3, <2>4, <2>5, <2>6 DEF Waiting
    <2> QED BY <1>1, <2>7 DEF OneSync
<1>4. CASE Answered
    <2>1. PICK d \in Delays : elapsed = RoundTrip(d) + late
        BY <1>4 DEF Answered
    <2>2. late' = late + 1
        BY <1>4 DEF Tick, ServerDue, Answered
    <2>3. elapsed' = RoundTrip(d) + late'
        BY <1>1, <2>1, <2>2, ParametersAssumption DEF TypeOK, RoundTrip
    <2>4. queued_syncs' = <<>>
        BY <1>4 DEF Tick, Answered
    <2>5. Answered'
        BY <1>1, <1>4, <2>3, <2>4 DEF Answered
    <2> QED BY <1>1, <2>5 DEF OneSync
<1> QED BY <1>2, <1>3, <1>4 DEF OneSync

LEMMA StepKeepsOneSync ==
    ASSUME TypeOK, MaxStops = 0, NEW least \in Nat, Reached(least), OneSync(least),
           [Next]_vars
    PROVE  OneSync(least)'
<1>1. ~HandleSyncTimeout
    BY NeverTimedOut DEF HandleSyncTimeout
<1>2. CASE HandleClientTiming
    BY <1>2, AnswerKeepsOneSync
<1>3. CASE Twiddle \/ SetDelay \/ Start \/ Stop
    BY <1>3, ClientKeepsOneSync
<1>4. CASE Tick
    BY <1>4, TickKeepsOneSync
<1>5. CASE UNCHANGED vars
    BY <1>5 DEF vars, estimate, trials, user, OneSync, Measured, Unread, Waiting, Answered
<1> QED BY <1>1, <1>2, <1>3, <1>4, <1>5 DEF Next, ServerNext

(* The one SYNC is unread, waiting or answered in every reachable state. *)
THEOREM OneSyncInvariant ==
    ASSUME MaxStops = 0, NEW least \in Nat, Reached(least)
    PROVE  Spec => []OneSync(least)
<1>1. Init => OneSync(least)
    <2> SUFFICES ASSUME Init PROVE OneSync(least)
        OBVIOUS
    <2>1. Unread /\ client_alive /\ active /\ least <= avg_delay
        BY DEF Init, Unread, Reached
    <2>2. sync_counter * least <= session_delay /\ Len(delay_times) = 0
        BY DEF Init
    <2>3. Measured(least)
        BY <2>2 DEF Measured
    <2> QED BY <2>1, <2>3 DEF OneSync
<1>2. TypeOK /\ OneSync(least) /\ [Next]_vars => OneSync(least)'
    BY StepKeepsOneSync
<1> QED BY <1>1, <1>2, TypeCorrect, PTL DEF Spec

(* A client that is not stopped is never given up, whatever delays within  *)
(* reach of each other its user sets, and however often.                   *)
THEOREM AnsweringClientIsNeverGivenUp ==
    ASSUME WithinReach
    PROVE  Spec => []AnsweringClientStaysActive
<1>1. PICK least \in Nat : Reached(least)
    BY DEF WithinReach
<1>2. OneSync(least) => AnsweringClientStaysActive
    BY DEF OneSync, AnsweringClientStaysActive
<1>3. Spec => []OneSync(least)
    BY <1>1, OneSyncInvariant DEF WithinReach
<1> QED BY <1>2, <1>3, PTL

(* ... and exactly one SYNC or answer is under way at any time, so that    *)
(* every answer is measured against the SYNC it answers.                   *)
THEOREM OneSyncIsUnderWay ==
    ASSUME WithinReach
    PROVE  Spec => []OneSyncUnderWay
<1>1. PICK least \in Nat : Reached(least)
    BY DEF WithinReach
<1>2. OneSync(least) => OneSyncUnderWay
    <2>1. Unread \/ Answered => unread + Len(queued_syncs) + inbox = 1
        BY DEF Unread, Answered
    <2>2. Waiting => unread + Len(queued_syncs) + inbox = 1
        <3> SUFFICES ASSUME NEW d \in Delays, NEW wait \in -1 .. d, queued_syncs = <<wait>>,
                            unread = 0, inbox = 0
                     PROVE  unread + Len(queued_syncs) + inbox = 1
            BY DEF Waiting
        <3> QED OBVIOUS
    <2> QED BY <2>1, <2>2 DEF OneSync, OneSyncUnderWay, UnderWay
<1>3. Spec => []OneSync(least)
    BY <1>1, OneSyncInvariant DEF WithinReach
<1> QED BY <1>2, <1>3, PTL
=============================================================================
