--------------------------- MODULE DelayEstimate ---------------------------
(***************************************************************************)
(* The arithmetic by which the server turns the round trip of a SYNC into  *)
(* ClientInfo.avg_delay.  All quantities are milliseconds in a C long.     *)
(***************************************************************************)
EXTENDS Integers, SequencesExt

(* The one sided delay a round trip stands for: the server takes the way   *)
(* to the client and the way back to be equally long.                      *)
HalfTrip(elapsed) == elapsed \div 2

(* Mistakes the properties must notice: the cast to long rounds up, alpha  *)
(* is 0.25.                                                                *)
SmoothedUp(avg, half)     == (7 * avg + half + 7) \div 8
SmoothedFaster(avg, half) == (3 * avg + half) \div 4

(* The smoothed average of srtt_server.cpp.  alpha is 0.125 and every      *)
(* operand a multiple of it, so the double is exact and the cast to long   *)
(* is the only rounding: it drops the fraction.                            *)
Smoothed(avg, half) == (7 * avg + half) \div 8

(* One more sample in the window of calc_delay() of server.cpp.            *)
Window(samples, sample, size) ==
    LET longer == Append(samples, sample)
    IN  IF Len(longer) > size THEN Tail(longer) ELSE longer

(* The loop of calc_delay(): the samples are added to the average, which   *)
(* is not reset ...                                                        *)
Added(avg, samples) ==
    LET added[n \in 0 .. Len(samples)] ==
            IF n = 0 THEN avg ELSE added[n - 1] + samples[n]
    IN  added[Len(samples)]

(* A mistake: one sample too many is counted.                              *)
OneTooMany(avg, samples) == Added(0, samples) \div (Len(samples) + 1)

(* ... and the sum is divided by the number of samples.                    *)
Sampled(avg, samples) == Added(avg, samples) \div Len(samples)
=============================================================================
