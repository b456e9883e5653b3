----------------------------- MODULE MediaProofs -----------------------------
(* Proofs about the frame plan and MediaPipeline, for any durations, interval, *)
(* margin and number of frames.                                                *)
EXTENDS MediaPipeline, FiniteSetTheorems, TLAPS

-----------------------------------------------------------------------------
(* The frame plan *)

LEMMA Quotient ==
    ASSUME NEW end \in Nat
    PROVE  LET full == end \div Interval
           IN  full \in Nat /\ full * Interval <= end /\ end < (full + 1) * Interval
BY PlanAssumption, SMTT(30)

\* Where two of the times of a plan are, and how far apart.
LEMMA Multiples ==
    ASSUME NEW i \in Nat, NEW j \in Nat, i < j
    PROVE  i * Interval \in Nat /\ j * Interval \in Nat
           /\ i * Interval + Interval <= j * Interval
BY PlanAssumption, SMTT(30)

Full(end) == end \div Interval
Count(end) == Full(end) + (IF Full(end) * Interval = end THEN 1 ELSE 2)

\* A plan is its first Count times, or MaxFrames of them.
LEMMA PlanTimes ==
    ASSUME NEW end \in Nat
    PROVE  /\ Full(end) \in Nat /\ Count(end) \in Nat \ {0}
           /\ Plan(end) \in Seq(0..end)
           /\ Len(Plan(end)) = Least(Count(end), MaxFrames)
           /\ \A i \in 1..Len(Plan(end)) :
                Plan(end)[i] = IF i <= Full(end) + 1 THEN (i - 1) * Interval ELSE end
<1> DEFINE times == FrameTimes(end)
           time(i) == IF i <= Full(end) + 1 THEN (i - 1) * Interval ELSE end
           size == Least(Count(end), MaxFrames)
<1>1. Full(end) \in Nat /\ Full(end) * Interval <= end /\ end < (Full(end) + 1) * Interval
  BY Quotient DEF Full
<1>2. Count(end) \in Nat \ {0}
  BY <1>1 DEF Count
<1>3. times = [i \in 1..Count(end) |-> time(i)]
  BY DEF FrameTimes, Full, Count
<1>4. \A i \in 1..Count(end) : time(i) \in 0..end
  <2> TAKE i \in 1..Count(end)
  <2>1. CASE i <= Full(end) + 1
    <3>1. i - 1 \in Nat /\ i - 1 <= Full(end)
      BY <1>1, <1>2, <2>1
    <3>2. (i - 1) * Interval \in Nat /\ Full(end) * Interval \in Nat
      BY <1>1, <3>1, PlanAssumption
    <3>3. (i - 1) * Interval <= Full(end) * Interval
      BY <1>1, <3>1, Multiples, PlanAssumption
    <3> QED  BY <1>1, <2>1, <3>2, <3>3
  <2>2. CASE ~(i <= Full(end) + 1)
    BY <2>2
  <2> QED  BY <2>1, <2>2
<1>5. Len(times) = Count(end)
  BY <1>2, <1>3
<1>6. size \in Nat \ {0} /\ size <= Count(end)
  BY <1>2, PlanAssumption DEF Least
<1>7. Plan(end) = [i \in 1..size |-> times[i]]
  BY <1>5 DEF Plan
<1>8. \A i \in 1..size : times[i] = time(i) /\ time(i) \in 0..end
  BY <1>2, <1>3, <1>4, <1>6
<1>9. Plan(end) \in Seq(0..end) /\ Len(Plan(end)) = size
  BY <1>6, <1>7, <1>8
<1> QED  BY <1>1, <1>2, <1>7, <1>8, <1>9

LEMMA PlanIsIncreasing ==
    ASSUME NEW end \in Nat,
           NEW i \in 1..Len(Plan(end)), NEW j \in 1..Len(Plan(end)), i < j
    PROVE  Plan(end)[i] < Plan(end)[j]
<1>1. /\ Full(end) \in Nat /\ Count(end) \in Nat /\ Len(Plan(end)) = Least(Count(end), MaxFrames)
      /\ \A k \in 1..Len(Plan(end)) :
           Plan(end)[k] = IF k <= Full(end) + 1 THEN (k - 1) * Interval ELSE end
  BY PlanTimes
<1>2. Full(end) * Interval <= end
  BY Quotient DEF Full
<1>3. i \in Nat /\ j \in Nat /\ i >= 1 /\ j <= Count(end) /\ Count(end) <= Full(end) + 2
  BY <1>1, PlanAssumption DEF Least, Count
<1>4. CASE j <= Full(end) + 1
  <2>1. Plan(end)[i] = (i - 1) * Interval /\ Plan(end)[j] = (j - 1) * Interval
    BY <1>1, <1>3, <1>4
  <2>2. (i - 1) * Interval + Interval <= (j - 1) * Interval
    BY <1>3, Multiples
  <2> QED  BY <1>3, <2>1, <2>2, PlanAssumption
<1>5. CASE ~(j <= Full(end) + 1)
  <2>1. Full(end) * Interval # end /\ i <= Full(end) + 1
    BY <1>1, <1>3, <1>5 DEF Count
  <2>2. Plan(end)[i] = (i - 1) * Interval /\ Plan(end)[j] = end
    BY <1>1, <1>5, <2>1
  <2>3. (i - 1) * Interval <= Full(end) * Interval
    BY <1>1, <1>3, <2>1, Multiples, PlanAssumption
  <2>4. (i - 1) * Interval \in Nat /\ Full(end) * Interval \in Nat
    BY <1>1, <1>3, PlanAssumption
  <2> QED  BY <1>2, <2>1, <2>2, <2>3, <2>4
<1> QED  BY <1>4, <1>5

\* The plan of a supported video is not cut: it reaches the end, and no moment
\* is further than an interval from the frame before it (processor.py:678-696).
THEOREM PlanCovers ==
    ASSUME NEW end \in Nat, end <= MaxDuration
    PROVE  /\ Len(Plan(end)) = Count(end)
           /\ \E i \in 1..Len(Plan(end)) : Plan(end)[i] = end
           /\ \A moment \in 0..end : \E i \in 1..Len(Plan(end)) :
                moment - Plan(end)[i] \in 0..Interval - 1
<1>1. /\ Full(end) \in Nat /\ Count(end) \in Nat \ {0}
      /\ Len(Plan(end)) = Least(Count(end), MaxFrames)
      /\ \A i \in 1..Len(Plan(end)) :
           Plan(end)[i] = IF i <= Full(end) + 1 THEN (i - 1) * Interval ELSE end
  BY PlanTimes
<1>2. Full(end) * Interval <= end /\ end < (Full(end) + 1) * Interval
  BY Quotient DEF Full
<1>3. Full(end) <= MaxFrames - 1
  <2> SUFFICES ASSUME MaxFrames - 1 < Full(end) PROVE FALSE
    BY <1>1, PlanAssumption
  <2>1. MaxFrames - 1 \in Nat /\ Interval \in Nat \ {0} /\ MaxDuration \in Nat
        /\ MaxDuration <= (MaxFrames - 1) * Interval
    BY PlanAssumption
  <2>2. (MaxFrames - 1) * Interval + Interval <= Full(end) * Interval
        /\ (MaxFrames - 1) * Interval \in Nat /\ Full(end) * Interval \in Nat
    BY <1>1, <2>1, Multiples
  <2> QED  BY <1>2, <2>1, <2>2
<1>4. Full(end) = MaxFrames - 1 => Full(end) * Interval = end
  BY <1>1, <1>2, PlanAssumption
<1>5. Len(Plan(end)) = Count(end)
  BY <1>1, <1>3, <1>4, PlanAssumption DEF Count, Least
<1>6. \E i \in 1..Len(Plan(end)) : Plan(end)[i] = end
  <2>1. CASE Full(end) * Interval = end
    <3>1. Full(end) + 1 \in 1..Len(Plan(end)) /\ (Full(end) + 1) - 1 = Full(end)
      BY <1>1, <1>5, <2>1 DEF Count
    <3> QED  BY <1>1, <2>1, <3>1
  <2>2. CASE Full(end) * Interval # end
    <3>1. Full(end) + 2 \in 1..Len(Plan(end))
      BY <1>1, <1>5, <2>2 DEF Count
    <3> QED  BY <1>1, <3>1
  <2> QED  BY <2>1, <2>2
<1>7. \A moment \in 0..end : \E i \in 1..Len(Plan(end)) : moment - Plan(end)[i] \in 0..Interval - 1
  <2> TAKE moment \in 0..end
  <2> DEFINE q == Full(moment)
  <2>1. q \in Nat /\ q * Interval <= moment /\ moment < (q + 1) * Interval
    BY Quotient DEF Full
  <2>2. q <= Full(end)
    <3> SUFFICES ASSUME Full(end) < q PROVE FALSE
      BY <1>1, <2>1
    <3> HIDE DEF q
    <3>1. /\ Full(end) * Interval \in Nat /\ q * Interval \in Nat
          /\ Full(end) * Interval + Interval <= q * Interval
      BY <1>1, <2>1, Multiples
    <3>2. (Full(end) + 1) * Interval = Full(end) * Interval + Interval
      BY <1>1, PlanAssumption
    <3> DEFINE a == Full(end) * Interval
               b == q * Interval
    <3>3. end < a + Interval /\ b <= moment /\ a + Interval <= b /\ a \in Nat /\ b \in Nat
      BY <1>2, <2>1, <3>1, <3>2
    <3> HIDE DEF a, b
    <3> QED  BY <3>3, PlanAssumption
  <2>3. q + 1 \in 1..Len(Plan(end)) /\ q + 1 <= Full(end) + 1 /\ (q + 1) - 1 = q
    BY <1>1, <1>5, <2>1, <2>2 DEF Count
  <2> HIDE DEF q
  <2>4. Plan(end)[q + 1] = q * Interval
    BY <1>1, <2>3
  <2>5. (q + 1) * Interval = q * Interval + Interval /\ q * Interval \in Nat
    BY <2>1, PlanAssumption
  <2>6. moment - q * Interval \in 0..Interval - 1
    BY <2>1, <2>5, PlanAssumption
  <2> QED  BY <2>3, <2>4, <2>6
<1> QED  BY <1>5, <1>6, <1>7

-----------------------------------------------------------------------------
(* The process of an attempt *)

LEMMA NextKeepsNoOrphan == NoOrphan /\ [Next]_vars => NoOrphan'
<1> SUFFICES ASSUME NoOrphan, [Next]_vars PROVE NoOrphan'
  OBVIOUS
<1> USE DEF NoOrphan, Ended, WithChild
<1>1. ASSUME ReportStep \/ Elapse \/ (\E time \in OutTimes : Line(time)) \/ UNCHANGED vars
      PROVE  NoOrphan'
  BY <1>1 DEF ReportStep, SubmitSkips, SubmitStarts, SubmitEnds, Elapse, Line, vars,
              childVars, inputVars, gateVars
<1>2. CASE ProcessEnds
  BY <1>2 DEF ProcessEnds
<1>3. CASE TimeoutFires \/ Terminated \/ KillAfterGrace
  BY <1>3 DEF TimeoutFires, Terminated, KillAfterGrace, Raise
<1>4. CASE ProcessFailed \/ SomethingRaises
  BY <1>4 DEF ProcessFailed, SomethingRaises, Raise, Done
<1>5. CASE Probed \/ Transcoded \/ Checked \/ Verified
  BY <1>5 DEF Probed, Transcoded, Checked, Verified, Worked, Done, Enter, Raise
<1>6. CASE FrameStarts \/ FrameReused \/ FrameExtracted \/ Finish
  BY <1>6 DEF FrameStarts, FrameReused, FrameExtracted, FrameStored, Finish, Enter
<1> QED  BY <1>1, <1>2, <1>3, <1>4, <1>5, <1>6 DEF Next, RunnerStep

\* Whatever the process ignores, no attempt ends while it runs.
THEOREM AttemptLeavesNoProcess == Spec => []NoOrphan
<1>1. Init => NoOrphan
  BY DEF Init, NoOrphan, Ended
<1> QED  BY <1>1, NextKeepsNoOrphan, PTL DEF Spec

-----------------------------------------------------------------------------
(* The frames of an attempt: those taken are the first of the plan.            *)

Sampling == {"frames", "extract", "ready"}

Inputs ==
    /\ source.duration \in Nat /\ source.zero \in Nat /\ source.match \in Nat
    /\ out \in Nat \cup {None}
    /\ told \in Nat

Planned == out \in Nat /\ out <= MaxDuration /\ ~TooShort(out, source.zero)

FirstTaken ==
    /\ IsFiniteSet(taken) /\ Taken \in 0..Len(Times)
    /\ taken = {Times[i] : i \in 1..Taken}

Frames ==
    /\ stage \in Sampling => Planned /\ FirstTaken
    /\ stage \notin Sampling \cup {"failed"} => taken = {}
    /\ stage = "extract" => Taken < Len(Times)
    /\ stage = "ready" => Taken = Len(Times)

FrameInv == Inputs /\ Frames

LEMMA PlannedEnds ==
    ASSUME Inputs, Planned
    PROVE  /\ End \in Nat /\ End <= MaxDuration
           /\ source.zero + End + Margin <= out
           /\ Times \in Seq(0..End) /\ Len(Times) \in Nat \ {0}
<1>1. /\ End \in Nat /\ End <= MaxDuration
      /\ source.zero + End + Margin <= out
  BY PlanAssumption
  DEF Inputs, Planned, TooShort, End, PlanEnd, CoverageEnd, ExtractableEnd, Least
<1>2. Len(Times) \in Nat \ {0}
  BY <1>1, PlanTimes, PlanAssumption DEF Times, Least
<1> QED  BY <1>1, <1>2, PlanTimes DEF Times

LEMMA FramesSafe == FrameInv => SeekIsSafe /\ CoverageIsSampled
<1> SUFFICES ASSUME FrameInv PROVE SeekIsSafe /\ CoverageIsSampled
  OBVIOUS
<1>1. SeekIsSafe
  <2> SUFFICES ASSUME stage = "extract"
               PROVE  LET time == VideoTime(Times[Taken + 1], source.zero) IN
                      source.zero <= time /\ time + Margin <= out
    BY DEF SeekIsSafe
  <2>1. Planned /\ Taken \in Nat /\ Taken + 1 \in 1..Len(Times)
    BY DEF FrameInv, Frames, Sampling, FirstTaken
  <2>2. Times[Taken + 1] \in 0..End
    BY <2>1, PlannedEnds DEF FrameInv
  <2>3. /\ End \in Nat /\ source.zero \in Nat /\ out \in Nat /\ Margin \in Nat
        /\ source.zero + End + Margin <= out
    BY <2>1, PlannedEnds, PlanAssumption DEF FrameInv, Inputs, Planned
  <2> QED  BY <2>2, <2>3 DEF VideoTime
<1>2. CoverageIsSampled
  <2> SUFFICES ASSUME stage = "ready"
               PROVE  /\ End \in taken
                      /\ \A moment \in 0..End : \E time \in taken : moment - time \in 0..Interval - 1
    BY DEF CoverageIsSampled
  <2>1. Planned /\ taken = {Times[i] : i \in 1..Len(Times)}
    BY DEF FrameInv, Frames, Sampling, FirstTaken
  <2>2. End \in Nat /\ End <= MaxDuration
    BY <2>1, PlannedEnds DEF FrameInv
  <2>3. /\ \E i \in 1..Len(Times) : Times[i] = End
        /\ \A moment \in 0..End : \E i \in 1..Len(Times) : moment - Times[i] \in 0..Interval - 1
    BY <2>2, PlanCovers DEF Times
  <2> QED  BY <2>1, <2>3
<1> QED  BY <1>1, <1>2

LEMMA InitFrames == Init => FrameInv
<1> SUFFICES ASSUME Init PROVE FrameInv
  OBVIOUS
<1>1. /\ source.duration \in Nat /\ source.zero \in Nat /\ source.match \in Nat
  BY MediaAssumption DEF Init
<1>2. Inputs
  BY <1>1 DEF Init, Inputs
<1>3. stage \notin Sampling /\ taken = {} /\ stage # "extract" /\ stage # "ready"
  BY DEF Init, Sampling
<1>4. Frames
  BY <1>3 DEF Frames
<1> QED  BY <1>2, <1>4 DEF FrameInv

\* Steps that take no frame and leave the video alone, or end the attempt.
LEMMA FramesStay ==
    ASSUME FrameInv, UNCHANGED <<source, out, taken>>, told' \in Nat,
           stage' = stage \/ stage' = "failed"
    PROVE  FrameInv'
<1>1. Inputs'
  BY DEF FrameInv, Inputs
<1>2. Planned' = Planned /\ Taken' = Taken /\ Times' = Times
  BY DEF Planned, TooShort, Taken, Times, End, PlanEnd, CoverageEnd, ExtractableEnd
<1>3. FirstTaken => FirstTaken'
  BY <1>2 DEF FirstTaken
<1>4. Frames'
  BY <1>2, <1>3 DEF FrameInv, Frames, Sampling
<1> QED  BY <1>1, <1>4 DEF FrameInv

\* The next frame is one more.
LEMMA FrameIsNew ==
    ASSUME FrameInv, stage \in Sampling, Left, FrameStored, UNCHANGED <<source, out, told>>
    PROVE  /\ FrameInv' /\ stage' = "frames"
           /\ Taken' = Taken + 1 /\ Times' = Times
<1>1. /\ Planned /\ FirstTaken /\ Inputs
      /\ Taken \in Nat /\ Taken + 1 \in 1..Len(Times)
  BY DEF FrameInv, Frames, FirstTaken, Left
<1>2. Planned' /\ Inputs' /\ Times' = Times
  BY <1>1 DEF Planned, Inputs, TooShort, Times, End, PlanEnd, CoverageEnd, ExtractableEnd
<1>3. End \in Nat
  BY <1>1, PlannedEnds
<1>4. Times[Taken + 1] \notin taken
  <2> SUFFICES ASSUME NEW i \in 1..Taken, Times[i] = Times[Taken + 1] PROVE FALSE
    BY <1>1 DEF FirstTaken
  <2>1. i \in 1..Len(Times) /\ i < Taken + 1
    BY <1>1
  <2>2. Times[i] < Times[Taken + 1] /\ Times[i] \in 0..End
    BY <1>1, <1>3, <2>1, PlanIsIncreasing, PlannedEnds DEF Times
  <2> QED  BY <2>2
<1>5. taken' = taken \cup {Times[Taken + 1]}
  BY DEF FrameStored
<1>6. IsFiniteSet(taken') /\ Taken' = Taken + 1
  BY <1>1, <1>4, <1>5, FS_AddElement DEF FirstTaken, Taken
<1>7. taken' = {Times[i] : i \in 1..Taken + 1}
  BY <1>1, <1>5 DEF FirstTaken
<1>8. FirstTaken'
  BY <1>1, <1>2, <1>6, <1>7 DEF FirstTaken
<1>9. stage' = "frames"
  BY DEF FrameStored, Enter
<1>10. Frames'
  BY <1>2, <1>8, <1>9 DEF Frames, Sampling
<1> QED  BY <1>2, <1>6, <1>9, <1>10 DEF FrameInv

LEMMA NextKeepsFrames == FrameInv /\ [Next]_vars => FrameInv'
<1> SUFFICES ASSUME FrameInv, [Next]_vars PROVE FrameInv'
  OBVIOUS
<1>0. told \in Nat
  BY DEF FrameInv, Inputs
<1>1. CASE UNCHANGED vars
  BY <1>0, <1>1, FramesStay DEF vars, inputVars
<1>2. CASE ProcessEnds \/ Elapse \/ ReportStep
  BY <1>0, <1>2, FramesStay
  DEF ProcessEnds, Elapse, ReportStep, SubmitSkips, SubmitStarts, SubmitEnds, inputVars
<1>3. ASSUME NEW time \in OutTimes, Line(time) PROVE FrameInv'
  BY <1>3, FramesStay, MediaAssumption DEF Line, inputVars
<1>4. CASE TimeoutFires \/ Terminated \/ KillAfterGrace \/ ProcessFailed \/ SomethingRaises
  BY <1>0, <1>4, FramesStay
  DEF TimeoutFires, Terminated, KillAfterGrace, ProcessFailed, SomethingRaises, Raise, inputVars
<1>5. CASE Probed
  <2>1. /\ taken' = {} /\ stage' \in {"failed", "verify", "transcode"}
        /\ UNCHANGED <<source, told>> /\ out' \in Nat \cup {None}
    BY <1>5, MediaAssumption
    DEF Probed, FrameInv, Inputs, Frames, Sampling, Worked, Done, Enter, Raise, inputVars
  <2> QED  BY <2>1 DEF FrameInv, Inputs, Frames, Sampling
<1>6. CASE Transcoded
  <2>1. /\ taken' = {} /\ stage' \in {"failed", "check"}
        /\ UNCHANGED <<source, told>> /\ out' \in Nat \cup {None}
    BY <1>6, MediaAssumption
    DEF Transcoded, FrameInv, Inputs, Frames, Sampling, Done, Enter, Raise, inputVars
  <2> QED  BY <2>1 DEF FrameInv, Inputs, Frames, Sampling
<1>7. CASE Checked
  <2>1. /\ taken' = {} /\ stage' \in {"failed", "verify"} /\ UNCHANGED <<source, told, out>>
    BY <1>7 DEF Checked, FrameInv, Frames, Sampling, Worked, Done, Enter, Raise, inputVars
  <2> QED  BY <2>1 DEF FrameInv, Inputs, Frames, Sampling
<1>8. CASE Verified
  <2>1. taken = {} /\ taken' = {} /\ UNCHANGED <<source, told, out>> /\ Inputs'
    BY <1>8 DEF Verified, FrameInv, Inputs, Frames, Sampling, Worked, Done, inputVars
  <2>2. CASE stage' = "failed"
    BY <2>1, <2>2 DEF FrameInv, Frames, Sampling
  <2>3. CASE stage' # "failed"
    <3>1. /\ stage' = "frames" /\ Supported(out) /\ ~TooShort(out, source.zero)
      BY <1>8, <2>3 DEF Verified, Enter, Raise
    <3>2. Planned /\ Planned'
      BY <2>1, <3>1, MediaAssumption, PlanAssumption
      DEF Planned, Supported, FrameInv, Inputs, TooShort
    <3>3. Len(Times)' \in Nat
      BY <2>1, <3>2, PlannedEnds DEF FrameInv, Times, End, PlanEnd, CoverageEnd, ExtractableEnd
    <3>4. IsFiniteSet(taken') /\ Taken' = 0
      BY <2>1, FS_EmptySet DEF Taken
    <3>5. FirstTaken'
      BY <2>1, <3>3, <3>4 DEF FirstTaken
    <3> QED  BY <2>1, <3>1, <3>2, <3>5 DEF FrameInv, Frames, Sampling
  <2> QED  BY <2>2, <2>3
<1>9. CASE FrameStarts
  <2>1. stage = "frames" /\ stage' = "extract" /\ Left /\ UNCHANGED <<source, told, out, taken>>
    BY <1>9 DEF FrameStarts, Enter, inputVars
  <2>2. Planned' = Planned /\ Taken' = Taken /\ Times' = Times
    BY <2>1 DEF Planned, TooShort, Taken, Times, End, PlanEnd, CoverageEnd, ExtractableEnd
  <2> QED  BY <2>1, <2>2 DEF FrameInv, Inputs, Frames, Sampling, FirstTaken, Left
<1>10. CASE FrameReused
  BY <1>10, FrameIsNew DEF FrameReused, Sampling, inputVars
<1>11. CASE FrameExtracted
  <2>1. stage = "extract" /\ Left
    BY <1>11 DEF FrameExtracted, Worked, Done, FrameInv, Frames, Left
  <2> QED  BY <1>11, <2>1, FrameIsNew DEF FrameExtracted, Sampling, inputVars
<1>12. CASE Finish
  <2>1. stage = "frames" /\ stage' = "ready" /\ ~Left /\ UNCHANGED <<source, told, out, taken>>
    BY <1>12 DEF Finish, Enter, inputVars
  <2>2. Planned' = Planned /\ Taken' = Taken /\ Times' = Times
    BY <2>1 DEF Planned, TooShort, Taken, Times, End, PlanEnd, CoverageEnd, ExtractableEnd
  <2>3. Taken = Len(Times)
    <3>1. Planned /\ FirstTaken /\ Inputs
      BY <2>1 DEF FrameInv, Frames, Sampling
    <3>2. Len(Times) \in Nat
      BY <3>1, PlannedEnds
    <3> QED  BY <2>1, <3>1, <3>2 DEF FirstTaken, Left
  <2> QED  BY <2>1, <2>2, <2>3 DEF FrameInv, Inputs, Frames, Sampling, FirstTaken
<1> QED
  BY <1>1, <1>2, <1>3, <1>4, <1>5, <1>6, <1>7, <1>8, <1>9, <1>10, <1>11, <1>12
  DEF Next, RunnerStep

LEMMA FramesHold == Spec => []FrameInv
BY InitFrames, NextKeepsFrames, PTL DEF Spec

\* No frame is sought closer to the end of the video than the margin.
THEOREM FramesAreSeekable == Spec => []SeekIsSafe
BY FramesHold, FramesSafe, PTL

\* The cut at the maximum number of frames never costs a moment of the match.
THEOREM ReadyIsSampled == Spec => []CoverageIsSampled
BY FramesHold, FramesSafe, PTL

-----------------------------------------------------------------------------
(* Progress: reports are queued in the order of ffmpeg's time, and what the    *)
(* pipeline writes after them is more than any of them.                        *)

LEMMA Product ==
    ASSUME NEW a \in Nat, NEW b \in Nat, NEW c \in Nat \ {0}
    PROVE  /\ a * c \in Nat /\ b * c \in Nat
           /\ a < b => (a + 1) * c <= b * c
           /\ a <= b => a * c <= b * c
BY SMTT(30)

LEMMA Division ==
    ASSUME NEW a \in Nat, NEW c \in Nat \ {0}
    PROVE  LET q == a \div c IN q \in Nat /\ q * c <= a /\ a < (q + 1) * c
BY SMTT(30)

LEMMA DivisionIsMonotone ==
    ASSUME NEW a \in Nat, NEW b \in Nat, NEW c \in Nat \ {0}, a <= b
    PROVE  a \div c <= b \div c
<1> DEFINE p == a \div c
           q == b \div c
<1>1. p \in Nat /\ p * c <= a /\ q \in Nat /\ b < (q + 1) * c
  BY Division
<1>2. p * c \in Nat /\ (q + 1) * c \in Nat
  BY <1>1, Product
<1> HIDE DEF p, q
<1>3. p <= q
  <2> SUFFICES ASSUME q < p PROVE FALSE
    BY <1>1
  <2>1. (q + 1) * c <= p * c
    BY <1>1, Product
  <2> QED  BY <1>1, <1>2, <2>1
<1> QED  BY <1>3 DEF p, q

LEMMA DivisionOfProduct ==
    ASSUME NEW n \in Nat, NEW c \in Nat \ {0}
    PROVE  (n * c) \div c = n
<1> DEFINE q == (n * c) \div c
<1>1. n * c \in Nat
  BY Product
<1>2. q \in Nat /\ q * c <= n * c /\ n * c < (q + 1) * c
  BY <1>1, Division
<1>3. q * c \in Nat /\ (q + 1) * c \in Nat
  BY <1>2, Product
<1> HIDE DEF q
<1>4. ~(n < q)
  <2> SUFFICES ASSUME n < q PROVE FALSE
    OBVIOUS
  <2>1. (n + 1) * c <= q * c /\ (n + 1) * c = n * c + c
    BY <1>2, Product
  <2> QED  BY <1>1, <1>2, <1>3, <2>1
<1>5. ~(q < n)
  <2> SUFFICES ASSUME q < n PROVE FALSE
    OBVIOUS
  <2>1. (q + 1) * c <= n * c
    BY <1>2, Product
  <2> QED  BY <1>1, <1>2, <1>3, <2>1
<1> QED  BY <1>2, <1>4, <1>5 DEF q

\* Percentages of the transcoding: 15 to 80, in the order of ffmpeg's time.
LEMMA PercentRange ==
    ASSUME NEW time \in Nat, NEW duration \in Nat
    PROVE  PercentOf(time, duration) \in 15..80
<1>1. CASE duration = 0
  BY <1>1 DEF PercentOf
<1>2. CASE duration # 0
  <2> DEFINE least == Least(time, duration)
  <2>1. least \in Nat /\ least * 65 \in Nat /\ least * 65 <= 65 * duration /\ 65 * duration \in Nat
    BY DEF Least
  <2>2. (65 * duration) \div duration = 65
    BY <1>2, DivisionOfProduct
  <2> HIDE DEF least
  <2>3. (least * 65) \div duration \in Nat /\ (least * 65) \div duration <= 65
    BY <1>2, <2>1, <2>2, Division, DivisionIsMonotone
  <2> QED  BY <1>2, <2>3 DEF PercentOf, least
<1> QED  BY <1>1, <1>2

LEMMA PercentIsMonotone ==
    ASSUME NEW early \in Nat, NEW late \in Nat, NEW duration \in Nat, early <= late
    PROVE  PercentOf(early, duration) <= PercentOf(late, duration)
<1>1. CASE duration = 0
  BY <1>1 DEF PercentOf
<1>2. CASE duration # 0
  <2> DEFINE a == Least(early, duration) * 65
             b == Least(late, duration) * 65
  <2>1. a \in Nat /\ b \in Nat /\ a <= b
    BY DEF Least
  <2> HIDE DEF a, b
  <2>2. a \div duration <= b \div duration /\ a \div duration \in Nat /\ b \div duration \in Nat
    BY <1>2, <2>1, Division, DivisionIsMonotone
  <2> QED  BY <1>2, <2>2 DEF PercentOf, a, b
<1> QED  BY <1>1, <1>2

\* What is written after so many frames.
FramePercent(count, size) == Least(95, 81 + (count * 14) \div size)

LEMMA FramePercentIsMonotone ==
    ASSUME NEW count \in Nat, NEW size \in Nat \ {0}
    PROVE  /\ FramePercent(count, size) \in 81..95
           /\ FramePercent(count + 1, size) \in 81..95
           /\ FramePercent(count, size) <= FramePercent(count + 1, size)
<1> DEFINE a == count * 14
           b == (count + 1) * 14
<1>1. a \in Nat /\ b \in Nat /\ a <= b
  OBVIOUS
<1> HIDE DEF a, b
<1>2. a \div size \in Nat /\ b \div size \in Nat /\ a \div size <= b \div size
  BY <1>1, Division, DivisionIsMonotone
<1> QED  BY <1>2 DEF FramePercent, Least, a, b

Percents == 15..80

\* A queue in order, of values of an interval.
Between(q, lo, hi) ==
    /\ \A i \in 1..Len(q) : lo <= q[i] /\ q[i] <= hi
    /\ \A i, j \in 1..Len(q) : i <= j => q[i] <= q[j]

LEMMA Appended ==
    ASSUME NEW S, NEW q \in Seq(S), NEW v \in S
    PROVE  /\ Append(q, v) \in Seq(S) /\ Append(q, v) # <<>>
           /\ q # <<>> => Head(Append(q, v)) = Head(q)
           /\ Len(Append(q, v)) = Len(q) + 1 /\ Len(q) \in Nat
           /\ Append(q, v)[Len(q) + 1] = v
           /\ \A i \in 1..Len(q) : Append(q, v)[i] = q[i] /\ q[i] \in S
OBVIOUS

LEMMA Popped ==
    ASSUME NEW S, NEW q \in Seq(S), q # <<>>
    PROVE  /\ Tail(q) \in Seq(S) /\ Head(q) = q[1] /\ Len(q) \in Nat \ {0}
           /\ Head(q) \in S
           /\ Len(Tail(q)) = Len(q) - 1
           /\ \A i \in 1..Len(q) : q[i] \in S
           /\ \A i \in 1..Len(q) - 1 : Tail(q)[i] = q[i + 1]
OBVIOUS

LEMMA AppendBetween ==
    ASSUME NEW q \in Seq(Percents), NEW v \in Percents, NEW lo \in Nat, NEW hi \in Nat,
           Between(q, lo, hi), lo <= v, hi <= v
    PROVE  Between(Append(q, v), lo, v)
<1> DEFINE r == Append(q, v)
           n == Len(q)
<1>1. n \in Nat /\ Len(r) = n + 1 /\ r[n + 1] = v
  BY Appended
<1>2. \A i \in 1..n : r[i] = q[i] /\ q[i] \in Percents
  BY Appended
<1>3. /\ \A i \in 1..n : lo <= q[i] /\ q[i] <= hi
      /\ \A i, j \in 1..n : i <= j => q[i] <= q[j]
  BY DEF Between
<1> HIDE DEF r, n
<1>4. \A i \in 1..n : r[i] \in Percents /\ lo <= r[i] /\ r[i] <= hi
  BY <1>2, <1>3
<1>5. \A i, j \in 1..n : i <= j => r[i] <= r[j]
  BY <1>2, <1>3
<1>6. v \in Nat
  BY DEF Percents
<1>7. \A i \in 1..n + 1 : lo <= r[i] /\ r[i] <= v
  <2> TAKE i \in 1..n + 1
  <2>1. CASE i = n + 1
    BY <1>1, <1>6, <2>1
  <2>2. CASE i # n + 1
    <3> DEFINE e == r[i]
    <3>1. e \in Percents /\ lo <= e /\ e <= hi
      BY <1>1, <1>4, <2>2
    <3> HIDE DEF e
    <3>2. lo <= e /\ e <= v
      BY <1>6, <3>1 DEF Percents
    <3> QED  BY <3>2 DEF e
  <2> QED  BY <2>1, <2>2
<1>8. \A i, j \in 1..n + 1 : i <= j => r[i] <= r[j]
  <2> SUFFICES ASSUME NEW i \in 1..n + 1, NEW j \in 1..n + 1, i <= j
               PROVE  r[i] <= r[j]
    OBVIOUS
  <2>1. CASE j # n + 1
    BY <1>1, <1>5, <2>1
  <2>2. CASE j = n + 1
    BY <1>1, <1>7, <2>2
  <2> QED  BY <2>1, <2>2
<1> QED  BY <1>1, <1>7, <1>8 DEF Between, r

LEMMA TailBetween ==
    ASSUME NEW q \in Seq(Percents), q # <<>>, NEW lo \in Nat, NEW hi \in Nat, Between(q, lo, hi)
    PROVE  /\ Between(Tail(q), Head(q), hi)
           /\ lo <= Head(q) /\ Head(q) <= hi
<1> DEFINE r == Tail(q)
           n == Len(q)
<1>1. n \in Nat \ {0} /\ Len(r) = n - 1 /\ Head(q) = q[1]
  BY Popped
<1>2. \A i \in 1..n - 1 : r[i] = q[i + 1]
  BY Popped
<1>3. /\ \A i \in 1..n : lo <= q[i] /\ q[i] <= hi
      /\ \A i, j \in 1..n : i <= j => q[i] <= q[j]
  BY DEF Between
<1> HIDE DEF r, n
<1>4. \A i \in 1..n - 1 : q[1] <= r[i] /\ r[i] <= hi
  BY <1>1, <1>2, <1>3
<1>5. \A i, j \in 1..n - 1 : i <= j => r[i] <= r[j]
  BY <1>1, <1>2, <1>3
<1> QED  BY <1>1, <1>3, <1>4, <1>5 DEF Between, r

Reported == PercentOf(told, source.duration)

Reports ==
    /\ queue \in Seq(Percents)
    /\ reporting # None => queue # <<>> /\ reporting = Head(queue)
    /\ stage \notin {"transcode", "failed"} => queue = <<>>

Ahead ==
    stage = "transcode" => percent <= Reported /\ Between(queue, percent, Reported)

Written ==
    /\ percent \in 0..100
    /\ stage = "probe" => percent = 10
    /\ stage \in {"check", "verify"} => percent <= 80
    /\ stage \in {"frames", "extract"} => percent <= FramePercent(Taken, Len(Times))

ProgressInv == FrameInv /\ Reports /\ Ahead /\ Written

LEMMA InitProgress == Init => ProgressInv
<1> SUFFICES ASSUME Init PROVE ProgressInv
  OBVIOUS
<1>1. queue = <<>> /\ reporting = None /\ stage = "probe" /\ percent = 10
  BY DEF Init
<1>2. Reports
  BY <1>1 DEF Reports
<1>3. Ahead /\ Written
  BY <1>1 DEF Ahead, Written
<1> QED  BY <1>2, <1>3, InitFrames DEF ProgressInv

LEMMA ReportedRange == FrameInv => Reported \in Percents
BY PercentRange DEF FrameInv, Inputs, Reported, Percents

\* What is written of the frames, where there are frames.
LEMMA FramesWritten ==
    ASSUME FrameInv, stage \in {"frames", "extract"}
    PROVE  Planned /\ Taken \in Nat /\ Len(Times) \in Nat \ {0}
<1>1. Planned /\ FirstTaken /\ Inputs
  BY DEF FrameInv, Frames, Sampling
<1>2. Len(Times) \in Nat \ {0}
  BY <1>1, PlannedEnds
<1> QED  BY <1>1, <1>2 DEF FirstTaken

\* Steps that change neither the progress nor what it is computed from.
LEMMA ProgressStays ==
    ASSUME ProgressInv,
           UNCHANGED <<source, out, taken, told, queue, reporting, percent>>,
           stage' = stage \/ stage' = "failed"
    PROVE  Reports' /\ Ahead' /\ Written' /\ percent' >= percent
<1>1. Reported' = Reported /\ Taken' = Taken /\ Times' = Times
  BY DEF Reported, Taken, Times, End, PlanEnd, CoverageEnd, ExtractableEnd
<1>2. Reports'
  BY DEF ProgressInv, Reports
<1>3. Ahead'
  BY <1>1 DEF ProgressInv, Ahead
<1>4. Written' /\ percent' >= percent
  BY <1>1 DEF ProgressInv, Written
<1> QED  BY <1>2, <1>3, <1>4

\* A line of ffmpeg queues at most one report, not behind the ones before.
LEMMA LineKeepsProgress ==
    ASSUME ProgressInv, NEW time \in OutTimes, Line(time)
    PROVE  Reports' /\ Ahead' /\ Written' /\ percent' >= percent
<1> DEFINE value == PercentOf(time, source.duration)
<1>1. /\ stage = "transcode" /\ stage' = stage /\ told' = time /\ source' = source
      /\ reporting' = reporting /\ percent' = percent
      /\ queue' = queue \/ queue' = Append(queue, value)
      /\ told < time
  BY DEF Line, inputVars
<1>2. time \in Nat /\ told \in Nat /\ source.duration \in Nat
  BY MediaAssumption DEF ProgressInv, FrameInv, Inputs
<1>3. value \in Percents /\ Reported \in Percents /\ Reported <= value
  <2>1. told <= time
    BY <1>1, <1>2
  <2>2. value \in Percents /\ Reported \in Percents
    BY <1>2, PercentRange DEF Reported, Percents
  <2>3. Reported <= value
    BY <1>2, <2>1, PercentIsMonotone DEF Reported
  <2> QED  BY <2>2, <2>3
<1>4. Reported' = value
  BY <1>1 DEF Reported
<1> HIDE DEF value
<1>5. queue \in Seq(Percents) /\ (reporting # None => queue # <<>> /\ reporting = Head(queue))
  BY DEF ProgressInv, Reports
<1>6. percent \in 0..100 /\ percent <= Reported /\ Between(queue, percent, Reported)
  BY <1>1 DEF ProgressInv, Ahead, Written
<1>7. percent \in Nat /\ percent <= value /\ value \in Nat /\ Reported \in Nat
  BY <1>3, <1>6 DEF Percents
<1>8. CASE queue' = queue
  <2>1. Between(queue, percent, value)
    <3> SUFFICES ASSUME NEW i \in 1..Len(queue) PROVE queue[i] <= value
      BY <1>6 DEF Between
    <3> DEFINE e == queue[i]
    <3>1. e \in Percents /\ e <= Reported
      BY <1>5, <1>6 DEF Between
    <3> HIDE DEF e
    <3>2. e <= value
      BY <1>3, <3>1 DEF Percents
    <3> QED  BY <3>2 DEF e
  <2> QED  BY <1>1, <1>4, <1>5, <1>6, <1>7, <1>8, <2>1 DEF ProgressInv, Reports, Ahead, Written
<1>9. CASE queue' = Append(queue, value)
  <2>1. queue' \in Seq(Percents) /\ (reporting # None => queue' # <<>> /\ reporting = Head(queue'))
    BY <1>3, <1>5, <1>9, Appended
  <2>2. Between(queue', percent, value)
    BY <1>3, <1>5, <1>6, <1>7, <1>9, AppendBetween
  <2>3. Reports'
    BY <1>1, <2>1 DEF Reports
  <2>4. Ahead'
    BY <1>1, <1>4, <1>7, <2>2 DEF Ahead
  <2> QED  BY <1>1, <1>6, <2>3, <2>4 DEF Written
<1> QED  BY <1>1, <1>8, <1>9

LEMMA SubmitKeepsProgress ==
    ASSUME ProgressInv, SubmitSkips \/ SubmitEnds
    PROVE  Reports' /\ Ahead' /\ Written' /\ percent' >= percent
<1> DEFINE first == Head(queue)
<1>1. /\ queue # <<>> /\ queue' = Tail(queue) /\ reporting' = None
      /\ stage' = stage /\ source' = source /\ out' = out /\ told' = told /\ taken' = taken
      /\ percent' = percent \/ (stage # "failed" /\ percent' = first)
  BY DEF SubmitSkips, SubmitEnds, ProgressInv, Reports, inputVars
<1>2. queue \in Seq(Percents) /\ stage \in {"transcode", "failed"}
  BY <1>1 DEF ProgressInv, Reports
<1>3. first \in Percents /\ queue' \in Seq(Percents)
  BY <1>1, <1>2, Popped
<1>4. Reported' = Reported /\ Reported \in Percents
  BY <1>1, ReportedRange DEF Reported, ProgressInv
<1>5. Reports'
  BY <1>1, <1>2, <1>3 DEF Reports
<1>6. percent \in 0..100
  BY DEF ProgressInv, Written
<1>7. CASE stage = "transcode"
  <2>1. percent <= Reported /\ Between(queue, percent, Reported)
    BY <1>7 DEF ProgressInv, Ahead
  <2>2. percent \in Nat /\ Reported \in Nat
    BY <1>4, <1>6 DEF Percents
  <2>3. Between(queue', first, Reported) /\ percent <= first /\ first <= Reported
    BY <1>1, <1>2, <2>1, <2>2, TailBetween
  <2> HIDE DEF first
  <2>4. Between(queue', percent, Reported)
    <3> SUFFICES ASSUME NEW i \in 1..Len(queue') PROVE percent <= (queue')[i]
      BY <2>3 DEF Between
    <3> DEFINE e == (queue')[i]
    <3>1. e \in Percents /\ first <= e
      BY <1>3, <2>3 DEF Between
    <3> HIDE DEF e
    <3>2. percent <= e
      BY <1>3, <1>6, <2>3, <3>1 DEF Percents
    <3> QED  BY <3>2 DEF e
  <2>5. /\ percent' \in 0..100 /\ percent' >= percent /\ percent' <= Reported
    <3>1. percent' = percent \/ percent' = first
      BY <1>1
    <3>2. /\ percent \in 0..100 /\ percent <= Reported
          /\ first \in 15..80 /\ percent <= first /\ first <= Reported
      BY <1>3, <1>6, <2>1, <2>3 DEF Percents
    <3> QED  BY <3>1, <3>2
  <2>6. Between(queue', percent', Reported)
    BY <1>1, <2>3, <2>4
  <2>7. Ahead'
    BY <1>4, <2>5, <2>6 DEF Ahead
  <2> QED  BY <1>1, <1>5, <1>7, <2>5, <2>7 DEF Written
<1>8. CASE stage = "failed"
  BY <1>1, <1>5, <1>6, <1>8 DEF Ahead, Written
<1> QED  BY <1>2, <1>7, <1>8

LEMMA TranscodedKeepsProgress ==
    ASSUME ProgressInv, Transcoded
    PROVE  Reports' /\ Ahead' /\ Written' /\ percent' >= percent
<1>1. /\ stage = "transcode"
      /\ queue' = queue /\ reporting' = reporting
      /\ \/ stage' = "failed" /\ percent' = percent
         \/ queue = <<>> /\ stage' = "check" /\ percent' = 80
  BY DEF Transcoded, Done, Gathered, Raise, Enter
<1>2. percent \in 0..100 /\ percent <= Reported /\ Reported \in Percents
  BY <1>1, ReportedRange DEF ProgressInv, Ahead, Written
<1>3. percent <= 80
  BY <1>2 DEF Percents
<1>4. Reports'
  BY <1>1 DEF ProgressInv, Reports
<1>5. percent' \in 0..100 /\ percent' >= percent /\ (stage' = "check" => percent' <= 80)
  <2>1. percent' = percent \/ percent' = 80
    BY <1>1
  <2> QED  BY <1>2, <1>3, <2>1
<1>6. Ahead'
  BY <1>1 DEF Ahead
<1>7. Written'
  BY <1>1, <1>5 DEF Written
<1> QED  BY <1>4, <1>5, <1>6, <1>7

LEMMA FrameKeepsProgress ==
    ASSUME ProgressInv, FrameReused \/ FrameExtracted
    PROVE  Reports' /\ Ahead' /\ Written' /\ percent' >= percent
<1>1. stage \in {"frames", "extract"} /\ Left /\ FrameStored
      /\ UNCHANGED <<source, out, told, queue, reporting>>
  BY DEF FrameReused, FrameExtracted, Worked, Done, ProgressInv, FrameInv, Frames, Left,
         inputVars, gateVars
<1>2. /\ stage' = "frames" /\ Taken' = Taken + 1 /\ Times' = Times
  BY <1>1, FrameIsNew DEF ProgressInv, Sampling
<1>3. Taken \in Nat /\ Len(Times) \in Nat \ {0}
  BY <1>1, FramesWritten DEF ProgressInv
<1>4. percent' = FramePercent(Taken + 1, Len(Times))
  BY <1>1 DEF FrameStored, FramePercent
<1>5. percent \in 0..100 /\ percent <= FramePercent(Taken, Len(Times))
  BY <1>1 DEF ProgressInv, Written
<1> DEFINE count == Taken
           size == Len(Times)
<1>6. percent' \in 0..100 /\ percent' >= percent
  <2> HIDE DEF count, size
  <2>1. count \in Nat /\ size \in Nat \ {0}
    BY <1>3 DEF count, size
  <2> DEFINE before == FramePercent(count, size)
             after == FramePercent(count + 1, size)
  <2>2. before \in 81..95 /\ after \in 81..95 /\ before <= after
    BY <2>1, FramePercentIsMonotone
  <2>3. percent <= before /\ percent' = after
    BY <1>4, <1>5 DEF count, size
  <2> HIDE DEF before, after
  <2> QED  BY <1>5, <2>2, <2>3
<1>7. percent' <= FramePercent(Taken', Len(Times'))
  BY <1>2, <1>4, <1>6
<1>8. Reports' /\ Ahead'
  BY <1>1, <1>2 DEF ProgressInv, Reports, Ahead
<1>9. Written'
  BY <1>2, <1>6, <1>7 DEF Written
<1> QED  BY <1>6, <1>8, <1>9

LEMMA VerifiedKeepsProgress ==
    ASSUME ProgressInv, Verified, FrameInv'
    PROVE  Reports' /\ Ahead' /\ Written' /\ percent' >= percent
<1>1. /\ stage = "verify" /\ taken' = taken
      /\ UNCHANGED <<queue, reporting>>
      /\ stage' \in {"failed", "frames"} /\ percent' \in {80, 81}
  BY DEF Verified, Worked, Done, Enter, Raise, gateVars
<1>2. percent \in 0..100 /\ percent <= 80 /\ taken = {}
  BY <1>1 DEF ProgressInv, Written, FrameInv, Frames, Sampling
<1>3. Reports' /\ Ahead'
  BY <1>1 DEF ProgressInv, Reports, Ahead
<1>4. stage' = "frames" => percent' <= FramePercent(Taken', Len(Times'))
  <2> SUFFICES ASSUME stage' = "frames" PROVE percent' <= FramePercent(Taken', Len(Times'))
    OBVIOUS
  <2>1. Taken' = 0
    BY <1>1, <1>2, FS_EmptySet DEF Taken
  <2>2. Len(Times') \in Nat \ {0}
    <3>1. Inputs' /\ Planned'
      BY DEF FrameInv, Frames, Sampling
    <3>2. /\ End' \in Nat
      BY <3>1, PlanAssumption
      DEF Inputs, Planned, TooShort, End, PlanEnd, CoverageEnd, ExtractableEnd, Least
    <3> QED  BY <3>2, PlanTimes, PlanAssumption DEF Times, Least
  <2>3. FramePercent(0, Len(Times')) \in 81..95
    BY <2>2, FramePercentIsMonotone
  <2> QED  BY <1>1, <2>1, <2>3
<1>5. Written' /\ percent' >= percent
  BY <1>1, <1>2, <1>4 DEF Written
<1> QED  BY <1>3, <1>5

LEMMA NextKeepsProgress == ProgressInv /\ [Next]_vars => ProgressInv' /\ percent' >= percent
<1> SUFFICES ASSUME ProgressInv, [Next]_vars
             PROVE  Reports' /\ Ahead' /\ Written' /\ percent' >= percent
  BY NextKeepsFrames DEF ProgressInv
<1>0. FrameInv'
  BY NextKeepsFrames DEF ProgressInv
<1>1. CASE UNCHANGED vars
  BY <1>1, ProgressStays DEF vars, inputVars, gateVars
<1>2. CASE ProcessEnds \/ Elapse
  BY <1>2, ProgressStays DEF ProcessEnds, Elapse, inputVars, gateVars
<1>3. ASSUME NEW time \in OutTimes, Line(time)
      PROVE  Reports' /\ Ahead' /\ Written' /\ percent' >= percent
  BY <1>3, LineKeepsProgress
<1>4. CASE TimeoutFires \/ Terminated \/ KillAfterGrace \/ ProcessFailed \/ SomethingRaises
  BY <1>4, ProgressStays
  DEF TimeoutFires, Terminated, KillAfterGrace, ProcessFailed, SomethingRaises, Raise,
      inputVars, gateVars
<1>5. CASE SubmitSkips \/ SubmitEnds
  BY <1>5, SubmitKeepsProgress
<1>6. CASE SubmitStarts
  <2>1. /\ UNCHANGED <<source, out, taken, told, queue, percent, stage>>
        /\ queue # <<>> /\ reporting' = Head(queue)
    BY <1>6 DEF SubmitStarts, inputVars, childVars
  <2>2. Reported' = Reported /\ Taken' = Taken /\ Times' = Times
    BY <2>1 DEF Reported, Taken, Times, End, PlanEnd, CoverageEnd, ExtractableEnd
  <2> QED  BY <2>1, <2>2 DEF ProgressInv, Reports, Ahead, Written
<1>7. CASE Probed
  <2>1. /\ stage = "probe" /\ stage' \in {"failed", "verify", "transcode"}
        /\ UNCHANGED <<source, told, queue, reporting, percent>>
    BY <1>7 DEF Probed, Worked, Done, Enter, Raise, inputVars, gateVars
  <2>2. queue = <<>> /\ reporting = None /\ percent = 10
    BY <2>1 DEF ProgressInv, Reports, Written
  <2>3. Reported' = Reported /\ Reported \in 15..80
    BY <2>1, ReportedRange DEF Reported, ProgressInv, Percents
  <2> QED  BY <2>1, <2>2, <2>3 DEF Reports, Ahead, Written, Between
<1>8. CASE Transcoded
  BY <1>8, TranscodedKeepsProgress
<1>9. CASE Checked
  <2>1. /\ stage = "check" /\ stage' \in {"failed", "verify"}
        /\ UNCHANGED <<queue, reporting, percent>>
    BY <1>9 DEF Checked, Worked, Done, Enter, Raise, gateVars
  <2> QED  BY <2>1 DEF ProgressInv, Reports, Ahead, Written
<1>10. CASE Verified
  BY <1>0, <1>10, VerifiedKeepsProgress
<1>11. CASE FrameStarts
  <2>1. /\ stage = "frames" /\ stage' = "extract"
        /\ UNCHANGED <<source, out, taken, queue, reporting, percent>>
    BY <1>11 DEF FrameStarts, Enter, inputVars, gateVars
  <2>2. Taken' = Taken /\ Times' = Times
    BY <2>1 DEF Taken, Times, End, PlanEnd, CoverageEnd, ExtractableEnd
  <2> QED  BY <2>1, <2>2 DEF ProgressInv, Reports, Ahead, Written
<1>12. CASE FrameReused \/ FrameExtracted
  BY <1>12, FrameKeepsProgress
<1>13. CASE Finish
  <2>1. /\ stage = "frames" /\ stage' = "ready" /\ percent' = 100
        /\ UNCHANGED <<queue, reporting>>
    BY <1>13 DEF Finish, Enter, gateVars
  <2> QED  BY <2>1 DEF ProgressInv, Reports, Ahead, Written
<1> QED
  BY <1>1, <1>2, <1>3, <1>4, <1>5, <1>6, <1>7, <1>8, <1>9, <1>10, <1>11, <1>12, <1>13
  DEF Next, RunnerStep, ReportStep

\* Progress never goes back during an attempt, however late a report is, and
\* whatever the durations, the interval and the number of frames.
THEOREM ProgressOnlyGrows == Spec => ProgressForward
<1>1. Init => ProgressInv
  BY InitProgress
<1>2. ProgressInv /\ [Next]_vars => ProgressInv'
  BY NextKeepsProgress
<1>3. ProgressInv /\ [Next]_vars => [percent' >= percent]_vars
  BY NextKeepsProgress
<1> QED  BY <1>1, <1>2, <1>3, PTL DEF Spec, ProgressForward
=============================================================================
