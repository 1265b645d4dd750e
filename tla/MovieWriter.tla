---------------------------- MODULE MovieWriter ----------------------------
(***************************************************************************)
(* The movie writer (native/writer.py, AVWriter) and its callers.          *)
(*                                                                         *)
(* One thread builds the writer, appends frames and finishes it, as the    *)
(* file sink does; a second one may finish it at the same time; a host may *)
(* cancel it at any time.  The audio pump runs as a callback on a queue of *)
(* its own, a coordinator thread cleans up after a cancel, and the native  *)
(* writer completes, fails and refuses as it likes.  Every block under     *)
(* _state_lock is one step; a native mutation lasts from its admission to  *)
(* the step that retires it.                                               *)
(***************************************************************************)
EXTENDS Integers, FiniteSets

CONSTANTS
  Frames,     \* frames the first thread appends
  Chunks,     \* chunks of the audio track; the openers give no empty track
  Cancels     \* calls of cancel() by the host

ASSUME WriterConstants == Frames \in Nat /\ Chunks \in Nat \ {0} /\ Cancels \in Nat

Finisher == {"app", "other"}
Thread   == Finisher \cup {"host", "pump", "worker"}
Free     == "free"

VARIABLES
  state,      \* _state
  failed,     \* _failure is set
  pc,         \* where a thread stands
  early,      \* finish(early) of a finisher
  owner,      \* the finisher that claimed the writer
  inside,     \* the threads inside a native mutation (_native_mutations)
  videoLock,  \* who holds _video_append_lock
  pumpLock,   \* who holds _audio_pump_lock
  frames,     \* frame_count
  end,        \* frames the session was ended with, or -1
  inflight,   \* _audio_callbacks_inflight, at most one on a serial queue
  progress,   \* chunks appended
  complete,   \* _audio_complete
  stop,       \* _audio_stop
  track,      \* the audio track: "none", "open", "closed" (_audio_track_closed)
  closes,     \* how often the track was closed
  audioDone,  \* _audio_done
  finishDone, \* _finish_done
  nativeDone, \* _native_finish_done: "none", "unset" or "set"
  nativeEnd,  \* {"finished"} _native_finished, {"cancelled"} _native_cancelled
  writer,     \* status of the native writer
  marked,     \* the inputs marked as finished
  kept,       \* the file is at its path
  second,     \* its names beside the path, <stem>.cancelling...
  link,       \* the last _link_before_cancel(): "none", "given" or "refused"
  attempt,    \* _cancel_attempt: "none", "running", "spoiled", "done", "failed"
  cancels     \* calls of cancel() made by the host

life   == <<state, failed>>
locks  == <<inside, videoLock, pumpLock>>
video  == <<frames, end>>
audio  == <<inflight, progress, complete, stop, track, closes>>
events == <<audioDone, finishDone, nativeDone>>
file   == <<kept, second, link>>
native == <<nativeEnd, writer, marked, file>>
ctl    == <<early, owner, attempt, cancels>>
vars   == <<life, pc, locks, video, audio, events, native, ctl>>

Goto(t, p) == pc' = [pc EXCEPT ![t] = p]

\* Where a thread goes once cancel() returned.
AfterCancel(t) ==
  IF t = "host" THEN "ready" ELSE IF owner = t THEN "finallyRaised" ELSE "raised"

Pumping == {"constructing", "writing", "finishing"}

-----------------------------------------------------------------------------
(* Failures and native mutations *)

\* Faulty variant: a failure overrides the end of the writer.
RecordAnyway == failed' = TRUE /\ state' = "failed"

\* _record_failure()
Record ==
  /\ failed' = TRUE
  /\ state' = IF state \in {"finished", "cancelled"} THEN state ELSE "failed"

\* _record_cleanup_failure()
RecordCleanup ==
  /\ failed' = TRUE
  /\ state' = IF failed \/ state \in {"finished", "cancelled"} THEN state ELSE "failed"

\* _run_native_mutation(): admitted under the lock ...
Admit(t, states) == state \in states /\ inside' = inside \cup {t}
\* ... and retired whatever the operation did.
Retire(t) == inside' = inside \ {t}

\* What _check_native_status() raises on.
Unhealthy == failed \/ state = "cancelled" \/ writer \in {"failed", "cancelled"}

-----------------------------------------------------------------------------
(* Construction *)

\* The track is forked and the native writer set up; the pump is requested last.
Construct ==
  /\ pc["app"] = "construct"
  /\ pc' = [pc EXCEPT !["app"] = "constructed",
                      !["pump"] = IF track = "none" THEN "absent" ELSE "idle"]
  /\ UNCHANGED <<life, locks, video, audio, events, native, ctl>>

ConstructFails ==
  /\ pc["app"] = "construct" /\ Goto("app", "raises")
  /\ UNCHANGED <<life, locks, video, audio, events, native, ctl>>

Constructed ==
  /\ pc["app"] = "constructed"
  /\ IF failed THEN Goto("app", "raises") /\ UNCHANGED state
     ELSE /\ state' = "writing"
          /\ pc' = [pc EXCEPT !["app"] = "ready", !["other"] = "ready", !["host"] = "ready"]
  /\ UNCHANGED <<failed, locks, video, audio, events, native, ctl>>

-----------------------------------------------------------------------------
(* Appending a frame *)

AppendTop ==
  /\ pc["app"] = "ready" /\ frames < Frames /\ videoLock = Free
  /\ IF state = "writing" THEN videoLock' = "app" /\ Goto("app", "append")
     ELSE UNCHANGED videoLock /\ Goto("app", "appendRaises")
  /\ UNCHANGED <<life, inside, pumpLock, video, audio, events, native, ctl>>

AppendGivesUp == videoLock' = Free /\ Goto("app", "appendRaises")

\* _wait_for_ready() and the admission; either may find the writer gone, and the
\* wait has a deadline.
AppendAdmitted ==
  /\ pc["app"] = "append" /\ ~Unhealthy
  /\ Admit("app", {"writing", "finishing"}) /\ Goto("app", "appending")
  /\ UNCHANGED <<life, videoLock, pumpLock, video, audio, events, native, ctl>>

AppendRefused ==
  /\ pc["app"] = "append"
  /\ AppendGivesUp
  /\ UNCHANGED <<life, inside, pumpLock, video, audio, events, native, ctl>>

\* The native append, then the count of a frame the writer took.
Appended ==
  /\ pc["app"] = "appending" /\ Retire("app") /\ videoLock' = Free
  /\ IF state \in {"writing", "finishing"} THEN frames' = frames + 1 /\ Goto("app", "ready")
     ELSE UNCHANGED frames /\ Goto("app", "appendRaises")
  /\ UNCHANGED <<life, pumpLock, end, audio, events, native, ctl>>

AppendFails ==
  /\ pc["app"] = "appending" /\ Retire("app") /\ AppendGivesUp
  /\ UNCHANGED <<life, pumpLock, video, audio, events, native, ctl>>

AppendRaises ==
  /\ pc["app"] = "appendRaises" /\ Record /\ Goto("app", "discard")
  /\ UNCHANGED <<locks, video, audio, events, native, ctl>>

\* FileSink.discard(): a file with frames is finished early, one without is
\* cancelled.
Discard ==
  /\ pc["app"] \in {"ready", "discard"}
  /\ IF frames > 0 THEN early' = [early EXCEPT !["app"] = TRUE] /\ Goto("app", "finish")
     ELSE UNCHANGED early /\ Goto("app", "cancel")
  /\ UNCHANGED <<life, locks, video, audio, events, native, owner, attempt, cancels>>

\* FileSink.finalize()
Finalize ==
  /\ pc["app"] = "ready" /\ frames = Frames /\ Goto("app", "finish")
  /\ UNCHANGED <<life, locks, video, audio, events, native, ctl>>

OtherFinishes ==
  /\ pc["other"] = "ready" /\ Goto("other", "finish")
  /\ \E e \in BOOLEAN : early' = [early EXCEPT !["other"] = e]
  /\ UNCHANGED <<life, locks, video, audio, events, native, owner, attempt, cancels>>

-----------------------------------------------------------------------------
(* finish() *)

FinishEnter(f) ==
  /\ pc[f] = "finish"
  /\ IF state = "finished" THEN Goto(f, "ok") /\ UNCHANGED <<state, owner>>
     ELSE IF failed THEN Goto(f, "raises") /\ UNCHANGED <<state, owner>>
     ELSE IF state \in {"finishing", "closing"} THEN Goto(f, "wait") /\ UNCHANGED <<state, owner>>
     ELSE IF state = "cancelled" THEN Goto(f, "raised") /\ UNCHANGED <<state, owner>>
     ELSE state' = "finishing" /\ owner' = f /\ Goto(f, "markVideo")
  /\ UNCHANGED <<failed, locks, video, audio, events, native, early, attempt, cancels>>

\* A finisher that came second waits for the first, with a deadline.
FinishWaited(f) ==
  /\ pc[f] = "wait" /\ finishDone
  /\ Goto(f, IF ~Unhealthy /\ state = "finished" THEN "ok" ELSE "raises")
  /\ UNCHANGED <<life, locks, video, audio, events, native, ctl>>

\* Every wait of finish() ends at its deadline, or when it sees the writer gone.
Waits == {"wait", "drain", "await", "track"}
FinishGivesUp(f) ==
  /\ pc[f] \in Waits /\ Goto(f, "raises")
  /\ UNCHANGED <<life, locks, video, audio, events, native, ctl>>

\* Not admitted: the writer failed or was cancelled.
FinishRefused(f) ==
  /\ pc[f] \in {"markVideo", "claim"} /\ state # "finishing"
  /\ pc[f] = "markVideo" => videoLock = Free
  /\ Goto(f, "raises")
  /\ UNCHANGED <<life, locks, video, audio, events, native, ctl>>

\* Faulty variant: does not wait for the append under way.
LockVideoAnyway(f) == TRUE

\* The appends admitted before come first.
LockVideo(f) == videoLock = Free

MarkVideo(f) ==
  /\ pc[f] = "markVideo" /\ LockVideo(f) /\ Admit(f, {"finishing"})
  /\ videoLock' = f /\ Goto(f, "markingVideo")
  /\ UNCHANGED <<life, pumpLock, video, audio, events, native, ctl>>

\* Once the video is marked the status is checked.
VideoMarked(f) ==
  /\ pc[f] = "markingVideo" /\ Retire(f) /\ videoLock' = Free
  /\ marked' = marked \cup {"video"}
  /\ Goto(f, CASE Unhealthy -> "raises"
               [] ~Unhealthy /\ track = "none" -> "claim"
               [] ~Unhealthy /\ track # "none" /\ early[f] -> "stopAudio"
               [] OTHER -> "drain")
  /\ UNCHANGED <<life, pumpLock, video, audio, events, nativeEnd, writer, file, ctl>>

\* _finish_audio_now()
StopAudio(f) ==
  /\ pc[f] = "stopAudio" /\ stop' = TRUE /\ Goto(f, "lockPump")
  /\ UNCHANGED <<life, locks, video, inflight, progress, complete, track, closes, events, native, ctl>>

LockPump(f) ==
  /\ pc[f] = "lockPump" /\ pumpLock = Free
  /\ \/ /\ complete /\ Goto(f, "drain") /\ UNCHANGED <<inside, pumpLock, audioDone>>
     \/ /\ ~complete /\ Admit(f, {"finishing"}) /\ pumpLock' = f
        /\ Goto(f, "markingAudio") /\ UNCHANGED audioDone
     \/ /\ ~complete /\ state # "finishing" /\ audioDone' = TRUE
        /\ Goto(f, "drain") /\ UNCHANGED <<inside, pumpLock>>
  /\ UNCHANGED <<life, videoLock, video, audio, finishDone, nativeDone, native, ctl>>

AudioMarked(f) ==
  /\ pc[f] = "markingAudio" /\ Retire(f) /\ pumpLock' = Free
  /\ marked' = marked \cup {"audio"}
  /\ complete' = (complete \/ state = "finishing")
  /\ audioDone' = TRUE /\ Goto(f, "drain")
  /\ UNCHANGED <<life, videoLock, video, inflight, progress, stop, track, closes, finishDone,
                 nativeDone, nativeEnd, writer, file, ctl>>

Drained(f) ==
  /\ pc[f] = "drain" /\ audioDone /\ ~Unhealthy /\ Goto(f, "claim")
  /\ UNCHANGED <<life, locks, video, audio, events, native, ctl>>

\* The end of the session is the end of the last frame.
EndSession(f) ==
  /\ pc[f] = "claim" /\ Admit(f, {"finishing"})
  /\ nativeDone' = "unset" /\ end' = frames
  /\ Goto(f, "claimed")
  /\ UNCHANGED <<life, videoLock, pumpLock, frames, audio, audioDone, finishDone, native, ctl>>

\* endSession retires, and finishWriting is admitted.
FinishNative(f) ==
  /\ pc[f] = "claimed"
  /\ IF state = "finishing" THEN Goto(f, "finishWriting") /\ UNCHANGED inside
     ELSE Retire(f) /\ Goto(f, "raises")
  /\ UNCHANGED <<life, videoLock, pumpLock, video, audio, events, native, ctl>>

NativeCalled(f) ==
  /\ pc[f] = "finishWriting" /\ Retire(f) /\ Goto(f, "await")
  /\ writer' = IF writer = "writing" THEN "finishing" ELSE writer
  /\ UNCHANGED <<life, videoLock, pumpLock, video, audio, events, nativeEnd, marked, file, ctl>>

\* Faulty variant: any completion callback will do.
AnyCompletion(f) == nativeDone = "set"

\* The completion callback came, and the status is that of a complete file.
Completion(f) == nativeDone = "set" /\ ~Unhealthy /\ writer = "complete"

NativeFinished(f) ==
  /\ pc[f] = "await" /\ Completion(f) /\ state = "finishing"
  /\ state' = "closing" /\ nativeEnd' = nativeEnd \cup {"finished"} /\ Goto(f, "track")
  /\ UNCHANGED <<failed, locks, video, audio, events, writer, marked, file, ctl>>

\* Faulty variant: a callback may still read the track.
AnyCallbacks == TRUE

\* _audio_callbacks_done
CallbacksRetired == ~inflight

\* _close_audio_track_if_pending(): claims the track under the lock.
ClaimsTrack == CallbacksRetired /\ track = "open"

CloseTrack(t, next) ==
  /\ IF ClaimsTrack THEN track' = "closed" /\ closes' = closes + 1 ELSE UNCHANGED <<track, closes>>
  /\ Goto(t, next)

FinishClosesTrack(f) ==
  /\ pc[f] = "track" /\ CallbacksRetired /\ CloseTrack(f, "settle")
  /\ UNCHANGED life \/ (track' # track /\ RecordCleanup)
  /\ UNCHANGED <<locks, video, inflight, progress, complete, stop, events, native, ctl>>

Settle(f) ==
  /\ pc[f] = "settle"
  /\ IF ~failed /\ state = "closing" THEN state' = "finished" /\ Goto(f, "finally")
     ELSE UNCHANGED state /\ Goto(f, "raises")
  /\ UNCHANGED <<failed, locks, video, audio, events, native, ctl>>

Finally(f) ==
  /\ pc[f] \in {"finally", "finallyRaised"}
  /\ nativeDone' = "none" /\ finishDone' = TRUE
  /\ Goto(f, IF pc[f] = "finally" THEN "ok" ELSE "raised")
  /\ UNCHANGED <<life, locks, video, audio, audioDone, native, ctl>>

\* _raise_after_cancel(): the failure is recorded, and cancel() called.
Raises(f) ==
  /\ pc[f] = "raises" /\ failed' = TRUE
  /\ IF state = "finished" THEN UNCHANGED state /\ Goto(f, AfterCancel(f))
     ELSE state' = "cancelled" /\ Goto(f, "wake")
  /\ UNCHANGED <<locks, video, audio, events, native, ctl>>

FinishStep(f) ==
  \/ FinishEnter(f) \/ FinishWaited(f) \/ FinishGivesUp(f) \/ FinishRefused(f)
  \/ MarkVideo(f) \/ VideoMarked(f) \/ StopAudio(f) \/ LockPump(f)
  \/ AudioMarked(f) \/ Drained(f) \/ EndSession(f) \/ FinishNative(f)
  \/ NativeCalled(f) \/ NativeFinished(f)
  \/ FinishClosesTrack(f) \/ Settle(f) \/ Finally(f) \/ Raises(f)

-----------------------------------------------------------------------------
(* cancel() *)

RequestCancel(t) ==
  /\ \/ t = "app" /\ pc[t] = "cancel" /\ UNCHANGED cancels
     \/ t = "host" /\ pc[t] = "ready" /\ cancels < Cancels /\ cancels' = cancels + 1
  /\ IF state = "finished" THEN UNCHANGED state /\ Goto(t, AfterCancel(t))
     ELSE state' = "cancelled" /\ Goto(t, "wake")
  /\ UNCHANGED <<failed, locks, video, audio, events, native, early, owner, attempt>>

CleanedUp == nativeEnd # {} /\ track # "open"

\* The waiters are woken, and a coordinator is started unless one is at work.
Wake(t) ==
  /\ pc[t] = "wake"
  /\ audioDone' = TRUE /\ finishDone' = TRUE
  /\ nativeDone' = IF nativeDone = "unset" THEN "set" ELSE nativeDone
  /\ IF attempt \in {"running", "spoiled"} THEN UNCHANGED attempt /\ Goto(t, AfterCancel(t))
     ELSE IF CleanedUp THEN attempt' = "none" /\ Goto(t, AfterCancel(t))
     ELSE /\ attempt' = "running"
          /\ pc' = [pc EXCEPT ![t] = AfterCancel(t), !["worker"] = "callbacks"]
  /\ UNCHANGED <<life, locks, video, audio, native, early, owner, cancels>>

\* The coordinator: the decoder first, once no callback reads it ...
WorkerClosesTrack ==
  /\ pc["worker"] = "callbacks" /\ CallbacksRetired
  /\ CloseTrack("worker", "mutations")
  /\ \/ UNCHANGED <<life, attempt>>
     \/ track' # track /\ RecordCleanup /\ attempt' = "spoiled"
  /\ UNCHANGED <<locks, video, inflight, progress, complete, stop, events, native, early, owner,
                 cancels>>

\* Faulty variant: the mutations admitted before are not waited for.
AnyMutations == TRUE

\* ... then the mutations that were admitted ...
MutationsRetired == inside = {}

\* ... then the native writer, with the file under a second name.
StartCancelWriting ==
  /\ pc["worker"] = "mutations" /\ MutationsRetired
  /\ Goto("worker", IF nativeEnd = {} THEN "link" ELSE "publish")
  /\ UNCHANGED <<life, locks, video, audio, events, native, ctl>>

\* Faulty variant: the second name is not given.
NeverLinks == FALSE

\* A file with frames in it is worth keeping.
Links == frames > 0

\* _link_before_cancel(): os.link may fail, or find every name taken.
LinkBeforeCancel ==
  /\ pc["worker"] = "link" /\ Goto("worker", "cancelWriting")
  /\ \/ ~Links /\ link' = "none" /\ UNCHANGED second
     \/ Links /\ link' = "given" /\ second' = second + 1
     \/ Links /\ link' = "refused" /\ UNCHANGED second
  /\ UNCHANGED <<life, locks, video, audio, events, nativeEnd, writer, marked, kept, ctl>>

\* cancelWriting deletes the file of a writer that is under way.
CancelWriting ==
  /\ pc["worker"] = "cancelWriting" /\ Goto("worker", "restore")
  /\ nativeEnd' = nativeEnd \cup {"cancelled"}
  /\ IF writer \in {"writing", "finishing"}
     THEN writer' = "cancelled" /\ kept' = FALSE
     ELSE UNCHANGED <<writer, kept>>
  /\ UNCHANGED <<life, locks, video, audio, events, marked, second, link, ctl>>

CancelWritingFails ==
  /\ pc["worker"] = "cancelWriting" /\ Goto("worker", "restore")
  /\ RecordCleanup /\ attempt' = "spoiled"
  /\ UNCHANGED <<locks, video, audio, events, native, early, owner, cancels>>

\* _restore_after_cancel(): the second name becomes the path again, or goes when
\* the path was left; an OSError leaves everything as it is.
RestoreAfterCancel ==
  /\ pc["worker"] = "restore" /\ Goto("worker", "publish")
  /\ \/ link = "given" /\ kept' = TRUE /\ second' = second - 1
     \/ UNCHANGED <<kept, second>>
  /\ UNCHANGED <<life, locks, video, audio, events, nativeEnd, writer, marked, link, ctl>>

Publish ==
  /\ pc["worker"] = "publish" /\ Goto("worker", "idle")
  /\ attempt' = IF attempt = "running" THEN "done" ELSE "failed"
  /\ UNCHANGED <<life, locks, video, audio, events, native, early, owner, cancels>>

WorkerStep ==
  \/ WorkerClosesTrack \/ StartCancelWriting \/ LinkBeforeCancel
  \/ CancelWriting \/ CancelWritingFails \/ RestoreAfterCancel \/ Publish

-----------------------------------------------------------------------------
(* The audio pump: a callback on a serial queue, called while its input wants *)
(* data, until the input is marked as finished.                               *)

\* _end_audio_callback()
PumpSignals ==
  /\ inflight' = FALSE /\ Goto("pump", "idle")
  /\ audioDone' = (audioDone \/ complete \/ progress >= Chunks \/ state \notin Pumping \/ failed')

PumpCalled ==
  /\ pc["pump"] = "idle" /\ "audio" \notin marked
  /\ IF state \in Pumping THEN inflight' = TRUE /\ Goto("pump", "top") /\ UNCHANGED audioDone
     ELSE audioDone' = TRUE /\ UNCHANGED <<inflight, pc>>
  /\ UNCHANGED <<life, locks, video, progress, complete, stop, track, closes, finishDone,
                 nativeDone, native, ctl>>

\* The writer is gone, the audio complete or stopped early.
MustReturn == state \notin Pumping \/ complete \/ stop

\* The top of the loop, with the lock: the input may not be ready, and is not
\* once it is marked.
PumpTop ==
  /\ pc["pump"] = "top" /\ pumpLock \in {Free, "pump"}
  /\ \/ pumpLock' = Free /\ UNCHANGED life /\ PumpSignals
     \/ /\ ~MustReturn /\ "audio" \notin marked
        /\ pumpLock' = "pump" /\ Goto("pump", "read") /\ UNCHANGED <<life, inflight, audioDone>>
  /\ UNCHANGED <<inside, videoLock, video, progress, complete, stop, track, closes, finishDone,
                 nativeDone, native, ctl>>

\* Faulty variant: a callback that raises keeps the lock.
RaiseLocked == Goto("pump", "raises") /\ UNCHANGED pumpLock

\* An exception leaves the lock before it is recorded.
Raise == Goto("pump", "raises") /\ pumpLock' = Free

\* The decoder gives a chunk, or its end, or raises; a mutation may be refused.
PumpReads ==
  /\ pc["pump"] = "read"
  /\ \/ \E next \in {"appending", "marking"} : Admit("pump", Pumping) /\ Goto("pump", next)
        /\ UNCHANGED pumpLock
     \/ state \notin Pumping /\ Goto("pump", "end") /\ UNCHANGED <<inside, pumpLock>>
     \/ Raise /\ UNCHANGED inside
  /\ UNCHANGED <<life, videoLock, video, audio, events, native, ctl>>

\* The native append, which may refuse the samples, then the progress.
PumpAppended ==
  /\ pc["pump"] = "appending" /\ Retire("pump")
  /\ \/ Raise /\ UNCHANGED progress
     \/ state \notin Pumping /\ Goto("pump", "end") /\ UNCHANGED <<progress, pumpLock>>
     \/ /\ state \in Pumping /\ ~failed /\ UNCHANGED pumpLock
        /\ progress' = progress + 1
        /\ Goto("pump", IF progress + 1 = Chunks THEN "last" ELSE "top")
  /\ UNCHANGED <<life, videoLock, video, inflight, complete, stop, track, closes, events, native, ctl>>

PumpMarks ==
  /\ pc["pump"] = "last"
  /\ \/ Admit("pump", Pumping) /\ Goto("pump", "marking")
     \/ state \notin Pumping /\ Goto("pump", "end") /\ UNCHANGED inside
  /\ UNCHANGED <<life, videoLock, pumpLock, video, audio, events, native, ctl>>

PumpMarked ==
  /\ pc["pump"] = "marking" /\ Retire("pump") /\ marked' = marked \cup {"audio"}
  /\ complete' = (complete \/ state \in Pumping)
  /\ Goto("pump", "end")
  /\ UNCHANGED <<life, videoLock, pumpLock, video, inflight, progress, stop, track, closes,
                 events, nativeEnd, writer, file, ctl>>

\* A failure of the callback is kept for the synchronous caller.
PumpRaises ==
  /\ pc["pump"] = "raises" /\ Record /\ PumpSignals
  /\ UNCHANGED <<locks, video, progress, complete, stop, track, closes, finishDone, nativeDone,
                 native, ctl>>

PumpEnds ==
  /\ pc["pump"] = "end" /\ pumpLock' = Free /\ UNCHANGED life /\ PumpSignals
  /\ UNCHANGED <<inside, videoLock, video, progress, complete, stop, track, closes, finishDone,
                 nativeDone, native, ctl>>

PumpStep ==
  \/ PumpCalled \/ PumpTop \/ PumpReads \/ PumpAppended \/ PumpMarks \/ PumpMarked
  \/ PumpRaises \/ PumpEnds

-----------------------------------------------------------------------------
(* The native writer *)

NativeCompletes ==
  /\ writer = "finishing" /\ writer' = "complete"
  /\ nativeDone' = IF nativeDone = "unset" THEN "set" ELSE nativeDone
  /\ UNCHANGED <<life, pc, locks, video, audio, audioDone, finishDone, nativeEnd, marked, file, ctl>>

NativeFails ==
  /\ writer \in {"writing", "finishing"} /\ writer' = "failed"
  /\ nativeDone' = IF nativeDone = "unset" /\ writer = "finishing" THEN "set" ELSE nativeDone
  /\ UNCHANGED <<life, pc, locks, video, audio, audioDone, finishDone, nativeEnd, marked, file, ctl>>

\* The first thread has come to its end.
Rests ==
  /\ pc["app"] \in {"ok", "raised"} /\ UNCHANGED vars

-----------------------------------------------------------------------------
Init ==
  /\ state = "constructing" /\ failed = FALSE
  /\ pc = [t \in Thread |-> IF t = "app" THEN "construct"
                           ELSE IF t = "worker" THEN "idle" ELSE "absent"]
  /\ early = [f \in Finisher |-> FALSE] /\ owner = Free
  /\ inside = {} /\ videoLock = Free /\ pumpLock = Free
  /\ frames = 0 /\ end = -1
  /\ inflight = FALSE /\ progress = 0 /\ complete = FALSE /\ stop = FALSE
  /\ track \in {"none", "open"} /\ closes = 0
  /\ audioDone = (track = "none") /\ finishDone = FALSE /\ nativeDone = "none"
  /\ nativeEnd = {} /\ writer = "writing" /\ marked = {}
  /\ kept = TRUE /\ second = 0 /\ link = "none"
  /\ attempt = "none" /\ cancels = 0

AppStep ==
  \/ Construct \/ ConstructFails \/ Constructed \/ AppendTop \/ AppendAdmitted \/ AppendRefused
  \/ Appended \/ AppendFails \/ AppendRaises \/ Discard \/ Finalize

Next ==
  \/ AppStep \/ OtherFinishes
  \/ \E f \in Finisher : FinishStep(f)
  \/ \E t \in Thread : RequestCancel(t) \/ Wake(t)
  \/ WorkerStep \/ PumpStep \/ NativeCompletes \/ NativeFails \/ Rests

Spec == Init /\ [][Next]_vars

\* Every thread goes on with what it began, and the deadlines pass.
FairSpec ==
  /\ Spec /\ WF_vars(AppStep) /\ WF_vars(WorkerStep) /\ WF_vars(PumpStep)
  /\ \A f \in Finisher : WF_vars(FinishStep(f))
  /\ WF_vars(RequestCancel("app")) /\ \A t \in Thread : WF_vars(Wake(t))

-----------------------------------------------------------------------------
\* AVFoundation forbids cancelWriting beside an append or a mark: while the
\* coordinator is inside it no thread is inside a native mutation, however late
\* a mutation admitted before the cancel begins, and the file of a writer that
\* came to its end is never cancelled.
CancelAlone ==
  /\ pc["worker"] = "cancelWriting" => inside = {} /\ nativeEnd = {}
  /\ nativeEnd # {"finished", "cancelled"}

\* No frame and no samples are appended to an input that is already marked as
\* finished, and no input is marked by two threads at once.
MarkedInputsAreQuiet ==
  /\ "video" \in marked => pc["app"] # "appending"
  /\ "audio" \in marked => pc["pump"] \notin {"appending", "marking"}
  /\ \A f \in Finisher : pc[f] = "markingAudio" => pc["pump"] \notin {"appending", "marking"}

\* The decoder is not read once its track is closed, and the track is closed
\* once, though a finisher and the coordinator both see to it.
TrackOutlivesReads ==
  /\ pc["pump"] = "read" => closes = 0
  /\ closes <= 1

\* A finish that returns has a complete file: the session ends with the last
\* frame counted, the track is closed, no second thread or cancel can undo it.
FinishedIsComplete ==
  \A f \in Finisher : pc[f] = "ok" =>
    /\ state = "finished" /\ writer = "complete" /\ kept /\ end = frames
    /\ "video" \in marked /\ (track # "none" => "audio" \in marked)
    /\ track # "open" /\ inside = {} /\ ~inflight

\* cancelWriting deletes the file, and the frames in it are the run's work: they
\* are under the path or under the second name at every moment, whatever fails
\* before or after the native call.  The only way to lose them is a second name
\* that the file system refused.
FramesSurvive == frames > 0 /\ link # "refused" => kept \/ second > 0

\* "finished" and "cancelled" are final, whoever fails after.
EndsAreFinal == [][(state \in {"finished", "cancelled"}) => state' = state]_vars

\* finish() returns or raises, whatever the pump, the host and the native writer
\* do, and a cancelled writer is cleaned up or an attempt publishes its failure.
Settled ==
  /\ \A f \in Finisher : pc[f] \in {"absent", "ready", "ok", "raised"}
  /\ state = "cancelled" => CleanedUp \/ attempt = "failed"
WriterSettles == []<>Settled
=============================================================================
