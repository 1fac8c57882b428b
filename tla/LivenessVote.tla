---------------------------- MODULE LivenessVote ----------------------------
(***************************************************************************)
(* The passive-liveness vote of internal/web/recognition_track.go: what a  *)
(* window of at most livenessMaxFrames scores decides about a track.       *)
(* Scores are the code's floats in hundredths, so "average >= 0.68" is     *)
(* Total(w) >= 68 * Len(w); times are whole seconds.                       *)
(***************************************************************************)
EXTENDS Integers, Sequences, FiniteSets

TrackTTL          == 3      \* livenessTrackTTL, seconds
FastFrames        == 3      \* livenessFastFrames
MinFrames         == 4      \* livenessMinFrames
MaxFrames         == 6      \* livenessMaxFrames
FrameThreshold    == 60     \* livenessFrameThreshold
FastPassThreshold == 80     \* livenessFastPassThreshold
PassThreshold     == 68     \* livenessPassThreshold
SpoofThreshold    == 40     \* livenessSpoofThreshold
DecisionTimeout   == 2      \* livenessDecisionTimeout, seconds

Score == 0..100

\* The last MaxFrames scores once one more has been appended.
Slide(w, score) ==
  LET longer == Append(w, score)
  IN  IF Len(longer) > MaxFrames THEN Tail(longer) ELSE longer

\* The sum behind averageScores. A window never exceeds MaxFrames = 6 scores,
\* so the loop is written out, which keeps it in reach of the provers.
ScoreAt(w, i) == IF i \in 1..Len(w) THEN w[i] ELSE 0
Total(w) == ScoreAt(w, 1) + ScoreAt(w, 2) + ScoreAt(w, 3)
            + ScoreAt(w, 4) + ScoreAt(w, 5) + ScoreAt(w, 6)

AverageAtLeast(w, threshold) == Total(w) >= threshold * Len(w)
LiveVotes(w)  == Cardinality({i \in DOMAIN w : w[i] >= FrameThreshold})
SpoofVotes(w) == Cardinality({i \in DOMAIN w : w[i] < SpoofThreshold})

LooksSpoofed(w) ==
  /\ Len(w) >= 3
  /\ ~ AverageAtLeast(w, SpoofThreshold)
  /\ SpoofVotes(w) >= 2

PassesFast(w) ==
  /\ Len(w) >= FastFrames
  /\ AverageAtLeast(w, FastPassThreshold)
  /\ LiveVotes(w) = Len(w)

MutantPassesSlow(w) == Len(w) >= MinFrames
PassesSlow(w) ==
  /\ Len(w) >= MinFrames
  /\ AverageAtLeast(w, PassThreshold)
  /\ LiveVotes(w) >= MinFrames - 1

MutantOutOfTime(w, age) == age > DecisionTimeout \/ Len(w) >= MaxFrames
OutOfTime(w, age) == age >= DecisionTimeout \/ Len(w) >= MaxFrames

\* The switch over an undecided track; its cases are tried in this order.
Verdict(w, age) ==
  CASE LooksSpoofed(w)                                 -> "rejected"
    [] ~ LooksSpoofed(w) /\ (PassesFast(w) \/ PassesSlow(w)) -> "verified"
    [] ~ LooksSpoofed(w) /\ ~ (PassesFast(w) \/ PassesSlow(w))
       /\ OutOfTime(w, age)                            -> "timedOut"
    [] OTHER                                           -> "open"

\* What the documentation promises of a check-in, independently of the order
\* of the switch: enough frames of one identity, an average that is live, and
\* three frames that are live by themselves.
Persuasive(w) ==
  /\ Len(w) >= FastFrames
  /\ AverageAtLeast(w, PassThreshold)
  /\ Cardinality({i \in DOMAIN w : w[i] >= FrameThreshold}) >= 3
=============================================================================
