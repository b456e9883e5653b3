------------------------------ MODULE FramePlan ------------------------------
(* Which moments of a video become frames: calculate_coverage and              *)
(* game_to_video_time of services/replays/domain.py, extractable_frame_end_ms  *)
(* and plan_frame_game_times of services/replays/processor.py.  A video and a  *)
(* match last a number of milliseconds; game time starts at `zero` in the      *)
(* video.                                                                      *)
EXTENDS Integers, Sequences

CONSTANTS
    Interval,       \* _FRAME_INTERVAL_MS
    Margin,         \* _FRAME_SEEK_SAFE_MARGIN_MS
    MaxFrames,      \* _MAX_FRAMES
    MaxDuration     \* replay_max_duration_seconds

\* 181 frames, 30 s apart, of at most 5400 s.
ASSUME PlanAssumption ==
    /\ Interval \in Nat \ {0} /\ Margin \in Nat
    /\ MaxFrames \in Nat \ {0} /\ MaxDuration \in Nat
    /\ MaxDuration <= (MaxFrames - 1) * Interval

Least(a, b) == IF a <= b THEN a ELSE b

VideoTime(game, zero) == zero + game

\* Game time the video covers of the match.
CoverageEnd(video, zero, match) == Least(video - zero, match)

\* ExtractableEnd without the margin, and the last game time that can be sought.
MediaEnd(video, zero) == video - zero
ExtractableEnd(video, zero) == video - zero - Margin

TooShort(video, zero) == video - zero < Margin

PlanEnd(video, zero, match) ==
    Least(CoverageEnd(video, zero, match), ExtractableEnd(video, zero))

\* FrameTimes without the frame at the end.
IntervalTimes(end) == [i \in 1..(end \div Interval) + 1 |-> (i - 1) * Interval]

\* Every interval from 0, and the end unless it is one of them.
FrameTimes(end) ==
    LET full == end \div Interval
        count == full + (IF full * Interval = end THEN 1 ELSE 2) IN
    [i \in 1..count |-> IF i <= full + 1 THEN (i - 1) * Interval ELSE end]

Plan(end) ==
    LET times == FrameTimes(end) IN
    [i \in 1..Least(Len(times), MaxFrames) |-> times[i]]
=============================================================================
