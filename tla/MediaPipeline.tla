---------------------------- MODULE MediaPipeline ----------------------------
(* One attempt of the pipeline with its media: the stages of ReplayProcessor.  *)
(* _process_in_scratch from the probe on, ReplayMediaRunner and                *)
(* AsyncSubprocessRunner of services/replays/media.py, and the progress        *)
(* reports that run beside ffmpeg.  The database and the store, which          *)
(* ReplayProcessor models step by step, are here calls that work or fail.      *)
EXTENDS FramePlan, FiniteSets

CONSTANTS
    MinDuration,    \* replay_min_duration_seconds
    Tolerance,      \* by how much the normalized duration may differ
    Durations, Zeros, Matches,   \* of the videos and matches of an instance
    OutTimes,       \* times ffmpeg reports in its progress
    MinGap,         \* _PROGRESS_MIN_INTERVAL_SECONDS
    None

ASSUME MediaAssumption ==
    /\ MinDuration \in Nat /\ Tolerance \in Nat /\ MinGap \in Nat
    /\ Durations \subseteq Nat /\ Zeros \subseteq Nat /\ Matches \subseteq Nat
    /\ OutTimes \subseteq Nat /\ None \notin Nat

VARIABLES
    source,      \* duration, game_time_zero and match duration
    kept,        \* an earlier attempt left a normalized video and frames
    out,         \* duration of the normalized video
    stage,       \* where the pipeline is
    child,       \* what the runner does about its process
    exit,        \* the process
    told,        \* last time ffmpeg reported
    queue,       \* progress tasks, first come first
    reporting,   \* value the callback of the first one writes
    failed,      \* what a progress task raised
    last,        \* _last_emitted_value
    gap,         \* time since _last_emitted_at
    began,       \* time since the callback began
    percent,     \* progress_percent of the row
    taken        \* game times of the frames stored

inputVars == <<source, kept>>
childVars == <<child, exit>>
gateVars == <<queue, reporting, failed, last, gap, began>>
vars == <<inputVars, out, stage, childVars, told, gateVars, percent, taken>>

WithChild == {"probe", "transcode", "check", "verify", "extract"}
Ended == {"failed", "ready"}

Enter(s) ==
    /\ stage' = s
    /\ child' = IF s \in WithChild THEN "waiting" ELSE "none"
    /\ exit' = IF s \in WithChild THEN "running" ELSE "none"

\* An exception leaves the pipeline; the process stays what it is.
Raise == stage' = "failed" /\ child' = "none" /\ UNCHANGED exit

Init ==
    /\ source \in [duration : Durations, zero : Zeros, match : Matches]
    /\ kept \in BOOLEAN
    /\ out = None
    /\ stage = "probe" /\ child = "waiting" /\ exit = "running"
    /\ told = 0
    /\ queue = <<>> /\ reporting = None /\ failed = FALSE
    /\ last = None /\ gap = MinGap /\ began = 0
    /\ percent = 10
    /\ taken = {}

-----------------------------------------------------------------------------
(* AsyncSubprocessRunner: one child process with its time limit *)

ProcessEnds ==
    /\ exit = "running"
    /\ exit' \in {"ok", "bad"}
    /\ UNCHANGED <<inputVars, out, stage, child, told, gateVars, percent, taken>>

\* TimeoutFires as if only output that has ended were waited for.
TimeoutAfterExit ==
    /\ child = "waiting" /\ exit # "running"
    /\ Raise
    /\ UNCHANGED <<inputVars, out, told, gateVars, percent, taken>>

\* wait_for ends: a process that runs is asked to terminate.
TimeoutFires ==
    /\ child = "waiting"
    /\ IF exit = "running"
       THEN child' = "terminating" /\ UNCHANGED <<stage, exit>>
       ELSE Raise
    /\ UNCHANGED <<inputVars, out, told, gateVars, percent, taken>>

Terminated ==
    /\ child = "terminating" /\ exit # "running"
    /\ Raise
    /\ UNCHANGED <<inputVars, out, told, gateVars, percent, taken>>

\* KillAfterGrace as if SIGTERM were enough.
GraceEnds ==
    /\ child = "terminating" /\ exit = "running"
    /\ Raise
    /\ UNCHANGED <<inputVars, out, told, gateVars, percent, taken>>

\* Two seconds after SIGTERM a process that still runs is killed.
KillAfterGrace ==
    /\ child = "terminating" /\ exit = "running"
    /\ stage' = "failed" /\ child' = "none" /\ exit' = "bad"
    /\ UNCHANGED <<inputVars, out, told, gateVars, percent, taken>>

Done(s) == stage = s /\ child = "waiting" /\ exit # "running"
Worked(s) == Done(s) /\ exit = "ok"

\* A non-zero return code ends the attempt, for the transcoding after the
\* progress tasks.
ProcessFailed ==
    /\ \E s \in WithChild \ {"transcode"} : Done(s)
    /\ exit = "bad"
    /\ Raise
    /\ UNCHANGED <<inputVars, out, told, gateVars, percent, taken>>

-----------------------------------------------------------------------------
(* Probe and validation *)

\* validate_probe; a stream, a size or a frame rate that is not supported, or a
\* duration that is not a number, is a probe that raises.
Supported(duration) == duration \in MinDuration..MaxDuration

\* An earlier attempt kept a video that passed _assert_normalized_output.
Close(a, b) == a - b \in -Tolerance..Tolerance

Probed ==
    /\ Worked("probe")
    /\ IF Supported(source.duration) /\ source.zero < source.duration
       THEN /\ Enter(IF kept THEN "verify" ELSE "transcode")
            /\ IF kept THEN out' \in {d \in Durations : Close(d, source.duration)}
                       ELSE UNCHANGED out
       ELSE Raise /\ UNCHANGED out
    /\ UNCHANGED <<inputVars, told, gateVars, percent, taken>>

\* A wrong stream or size, a store or a database that does not answer.
SomethingRaises ==
    /\ stage \notin Ended /\ child # "terminating" /\ exit # "running"
    /\ Raise
    /\ UNCHANGED <<inputVars, out, told, gateVars, percent, taken>>

-----------------------------------------------------------------------------
(* Transcoding and its progress *)

\* progress_percent_from_out_time.
PercentOf(time, duration) ==
    IF duration <= 0 THEN 15 ELSE 15 + (Least(time, duration) * 65) \div duration

\* _on_line: a value other than the last one gets a task; ffmpeg's time only
\* goes forward.
Line(time) ==
    LET value == PercentOf(time, source.duration) IN
    /\ stage = "transcode" /\ child = "waiting" /\ exit = "running"
    /\ time > told
    /\ told' = time
    /\ queue' = IF told # 0 /\ value = PercentOf(told, source.duration)
                THEN queue ELSE Append(queue, value)
    /\ UNCHANGED <<inputVars, out, stage, childVars, reporting, failed, last, gap, began, percent, taken>>

\* submit, when its turn at the lock has come.
Skipped == Head(queue) = last \/ gap < MinGap

SubmitSkips ==
    /\ queue # <<>> /\ reporting = None /\ Skipped
    /\ queue' = Tail(queue)
    /\ UNCHANGED <<inputVars, out, stage, childVars, told, reporting, failed, last, gap, began, percent, taken>>

SubmitStarts ==
    /\ queue # <<>> /\ reporting = None /\ ~Skipped
    /\ reporting' = Head(queue) /\ began' = 0
    /\ UNCHANGED <<inputVars, out, stage, childVars, told, queue, failed, last, gap, percent, taken>>

\* _on_progress writes the row, or raises; a row that has left the processing
\* statuses, as that of a failed attempt has, is not written.
SubmitEnds ==
    /\ reporting # None
    /\ reporting' = None /\ queue' = Tail(queue)
    /\ \/ /\ percent' = IF stage = "failed" THEN percent ELSE reporting
          /\ last' = reporting /\ gap' = began
          /\ UNCHANGED failed
       \/ failed' = TRUE /\ UNCHANGED <<percent, last, gap>>
    /\ UNCHANGED <<inputVars, out, stage, childVars, told, began, taken>>

Elapse ==
    /\ gap < MinGap \/ (reporting # None /\ began < MinGap)
    /\ gap' = Least(gap + 1, MinGap)
    /\ began' = IF reporting # None THEN Least(began + 1, MinGap) ELSE began
    /\ UNCHANGED <<inputVars, out, stage, childVars, told, queue, reporting, failed, last, percent, taken>>

\* Gathered as if the reports were not waited for, then as it is: any report
\* that raised ends the attempt and leaves the others to run.
GatheredEarly == ~failed
Gathered == ~failed /\ queue = <<>>

Transcoded ==
    /\ Done("transcode")
    /\ \/ failed /\ Raise /\ UNCHANGED <<percent, out, last>>
       \/ Gathered /\ exit = "bad" /\ Raise /\ UNCHANGED <<percent, out, last>>
       \/ /\ Gathered /\ exit = "ok"
          /\ Enter("check")
          /\ percent' = 80 /\ last' = 80
          /\ out' \in Durations
    /\ UNCHANGED <<inputVars, told, queue, reporting, failed, gap, began, taken>>

\* _assert_normalized_output, then the partial file is renamed.
Checked ==
    /\ Worked("check")
    /\ IF Close(out, source.duration) THEN Enter("verify") ELSE Raise
    /\ UNCHANGED <<inputVars, out, told, gateVars, percent, taken>>

-----------------------------------------------------------------------------
(* Frames *)

End == PlanEnd(out, source.zero, source.match)
Times == Plan(End)

\* The normalized video, new or kept, is probed and validated; its coverage is
\* written and the frames are planned.
Verified ==
    /\ Worked("verify")
    /\ IF Supported(out) /\ source.zero < out
       THEN /\ percent' = 81
            /\ IF TooShort(out, source.zero) THEN Raise ELSE Enter("frames")
       ELSE Raise /\ percent' = 80
    /\ UNCHANGED <<inputVars, out, told, gateVars, taken>>

Taken == Cardinality(taken)
Left == Taken < Len(Times)

FrameStarts ==
    /\ stage = "frames" /\ Left
    /\ Enter("extract")
    /\ UNCHANGED <<inputVars, out, told, gateVars, percent, taken>>

\* The next frame is stored and the progress written.
FrameStored ==
    /\ taken' = taken \cup {Times[Taken + 1]}
    /\ percent' = Least(95, 81 + ((Taken + 1) * 14) \div Len(Times))
    /\ Enter("frames")

FrameReused ==
    /\ stage = "frames" /\ Left /\ kept
    /\ FrameStored
    /\ UNCHANGED <<inputVars, out, told, gateVars>>

FrameExtracted ==
    /\ Worked("extract")
    /\ FrameStored
    /\ UNCHANGED <<inputVars, out, told, gateVars>>

Finish ==
    /\ stage = "frames" /\ ~Left
    /\ Enter("ready")
    /\ percent' = 100
    /\ UNCHANGED <<inputVars, out, told, gateVars, taken>>

-----------------------------------------------------------------------------
(* Specification.  The event loop runs what is ready and the time limit of a   *)
(* process ends; the process itself owes nothing.                              *)

RunnerStep ==
    \/ TimeoutFires \/ Terminated \/ KillAfterGrace \/ ProcessFailed
    \/ Probed \/ Transcoded \/ Checked \/ Verified
    \/ FrameStarts \/ FrameReused \/ FrameExtracted \/ Finish
    \/ SomethingRaises

ReportStep == SubmitSkips \/ SubmitStarts \/ SubmitEnds

Next ==
    \/ ProcessEnds \/ Elapse
    \/ \E time \in OutTimes : Line(time)
    \/ RunnerStep \/ ReportStep

Spec == Init /\ [][Next]_vars /\ WF_vars(RunnerStep) /\ WF_vars(ReportStep)

-----------------------------------------------------------------------------
(* Properties *)

\* Progress as the user sees it only goes forward during an attempt, although
\* reports run beside ffmpeg and may be late (media.py:130-170, 615-651;
\* processor.py:284-331, 410-440).
ProgressForward == [][percent' >= percent]_vars

\* An attempt never leaves its process running, whatever it ignores
\* (media.py:468-491, 538-547).
NoOrphan == stage \in Ended => exit # "running"

\* Frames are sought before the end of the video by the margin that decoding
\* needs (processor.py:665-696, 456, 478).
SeekIsSafe ==
    stage = "extract" =>
      LET time == VideoTime(Times[Taken + 1], source.zero) IN
      source.zero <= time /\ time + Margin <= out

\* A ready replay has a frame at every moment of its coverage that can be
\* sought, not older than the interval, and one at the very end: the cut at the
\* maximum number of frames loses nothing of a supported video
\* (processor.py:678-696, 394-420).
CoverageIsSampled ==
    stage = "ready" =>
      /\ End \in taken
      /\ \A moment \in 0..End : \E time \in taken : moment - time \in 0..Interval - 1

\* Every attempt ends, also when ffmpeg hangs (media.py:468-491).
AttemptEnds == <>(stage \in Ended)
=============================================================================
