------------------------- MODULE MovieWriterProofs -------------------------
(***************************************************************************)
(* Theorems about the movie writer, for any number of frames, chunks and   *)
(* calls of cancel().                                                      *)
(***************************************************************************)
EXTENDS MovieWriter, TLAPS

Values ==
  /\ state \in {"constructing", "writing", "finishing", "closing", "finished", "cancelled", "failed"}
  /\ failed \in BOOLEAN
  /\ state = "failed" => failed
  /\ owner \in Finisher \cup {Free}
  /\ frames \in Nat /\ progress \in Nat
  /\ track \in {"none", "open", "closed"}
  /\ nativeEnd \subseteq {"finished", "cancelled"}
  /\ closes \in Nat /\ second \in Nat /\ link \in {"none", "given", "refused"}

Places ==
  /\ DOMAIN pc = Thread
  /\ pc["app"] # "marking" /\ pc["other"] \notin {"append", "appending", "marking"}
  /\ pc["host"] \in {"absent", "ready", "wake"}
  /\ pc["pump"] \in {"absent", "idle", "top", "read", "appending", "last", "marking", "end", "raises"}
  /\ pc["worker"] \in {"idle", "callbacks", "mutations", "link", "cancelWriting", "restore",
                       "publish"}

\* The places of a finisher that owns the writer.
BeforeClose == {"markVideo", "markingVideo", "stopAudio", "lockPump", "markingAudio", "drain",
                "claim", "claimed", "finishWriting", "await"}
Owning == BeforeClose \cup {"track", "settle", "finally"}
VideoOver == {"stopAudio", "lockPump", "markingAudio", "drain", "claim", "claimed",
              "finishWriting", "await", "track", "settle", "finally"}
AudioOver == {"claim", "claimed", "finishWriting", "await"}
SessionOver == {"claimed", "finishWriting", "await", "track", "settle"}
AudioEnded == track = "none" \/ "audio" \in marked \/ state \notin Pumping \/ failed

\* A mutation is registered as long as its thread is inside it, and the locks
\* are with the threads that stand between their acquisition and release.
Mutating == {"appending", "markingVideo", "markingAudio", "claimed", "finishWriting", "marking"}
MutationsMatch == inside = {t \in Thread : pc[t] \in Mutating}

Reading == {"read", "appending", "last", "marking", "end"}
LocksMatch ==
  /\ \A f \in Finisher : videoLock = f <=> pc[f] \in {"append", "appending", "markingVideo"}
  /\ \A f \in Finisher : pumpLock = f <=> pc[f] = "markingAudio"
  /\ pc["pump"] \in Reading => pumpLock = "pump"
  /\ pumpLock = "pump" => pc["pump"] \in Reading \cup {"top"}

\* The writer is built before it is used, and claimed by one finisher.
Ownership ==
  /\ pc["app"] \in {"construct", "constructed"} =>
       /\ state \in {"constructing", "failed"}
       /\ pc["host"] = "absent" /\ pc["other"] = "absent"
  /\ pc["app"] = "construct" => pc["pump"] = "absent"
  /\ \A f \in Finisher : pc[f] \in Owning => owner = f
  /\ owner # Free => state \notin {"constructing", "writing"}
  /\ \A f \in Finisher :
       /\ pc[f] \in BeforeClose => state \notin {"closing", "finished"}
       /\ pc[f] \in {"track", "settle"} => state \notin Pumping \cup {"finished"}
       /\ pc[f] \in {"finally", "ok"} => state = "finished"

\* Nothing is appended to an input that is marked, and the audio is over when
\* its event says so.
PumpMatches ==
  /\ inflight <=> pc["pump"] \notin {"absent", "idle"}
  /\ track = "none" => pc["pump"] = "absent"
  /\ "audio" \in marked => pc["pump"] \notin {"read", "appending", "last", "marking"}
  /\ complete => "audio" \in marked
  /\ progress >= Chunks =>
       "audio" \in marked \/ pc["pump"] \in {"last", "marking"} \/ state \notin Pumping
  /\ audioDone => AudioEnded
  /\ \A f \in Finisher : pc[f] \in AudioOver => AudioEnded

VideoMatches ==
  /\ "video" \in marked =>
       pc["app"] \notin {"append", "appending"} /\ state \notin {"constructing", "writing"}
  /\ \A f \in Finisher : pc[f] \in VideoOver => "video" \in marked
  /\ \A f \in Finisher : pc[f] \in SessionOver => end = frames

\* The track is closed once, by whoever sees the callbacks retired.
TrackMatches ==
  /\ track # "closed" => closes = 0
  /\ track = "closed" => closes = 1
  /\ track = "closed" => ~inflight /\ state \notin Pumping
  /\ \A f \in Finisher : pc[f] = "settle" => ~inflight /\ track # "open"

\* What a writer on its way to "finished" has behind it.
ClosingMatches ==
  /\ state \in {"closing", "finished"} =>
       /\ writer = "complete" /\ end = frames
       /\ "video" \in marked /\ (track = "none" \/ "audio" \in marked)
  /\ state = "finished" => ~inflight /\ track # "open"

\* The coordinator works for a cancelled writer only.
CancelMatches ==
  /\ \A t \in Thread : pc[t] = "wake" => state = "cancelled"
  /\ pc["worker"] # "idle" => state = "cancelled"
  /\ "cancelled" \in nativeEnd => state = "cancelled"
  /\ nativeEnd # {"finished", "cancelled"}
  /\ pc["worker"] \in {"link", "cancelWriting"} => inside = {} /\ nativeEnd = {}

\* Where the file is: under its path until cancelWriting came to its end, and
\* under the second name from the link to the restore.
FileMatches ==
  /\ ~kept => state = "cancelled" /\ nativeEnd # {}
  /\ pc["worker"] \in {"cancelWriting", "restore"} /\ link = "given" => second > 0
  /\ pc["worker"] = "cancelWriting" /\ link = "none" => frames = 0
  /\ frames > 0 /\ link # "refused" => kept \/ second > 0

WriterInv ==
  /\ Values /\ Places /\ MutationsMatch /\ LocksMatch /\ Ownership
  /\ PumpMatches /\ VideoMatches /\ TrackMatches /\ ClosingMatches /\ CancelMatches
  /\ FileMatches

USE WriterConstants DEF life, locks, video, audio, events, file, native, ctl, Finisher, Thread, Free, Goto

-----------------------------------------------------------------------------
(* Steps *)

\* The thread that builds the writer and appends to it.
LEMMA AppKeeps == ASSUME WriterInv, AppStep \/ OtherFinishes PROVE WriterInv'
<1> USE DEF WriterInv, Values, Places, MutationsMatch, LocksMatch, Ownership,
       PumpMatches, VideoMatches, TrackMatches, ClosingMatches, CancelMatches, FileMatches, BeforeClose,
       Owning, VideoOver, AudioOver, SessionOver, AudioEnded, Mutating, Reading, Pumping
<1>1. ASSUME Construct PROVE WriterInv'
  BY <1>1 DEF Construct
<1>2. ASSUME ConstructFails PROVE WriterInv'
  BY <1>2 DEF ConstructFails
<1>3. ASSUME Constructed PROVE WriterInv'
  BY <1>3 DEF Constructed
<1>4. ASSUME AppendTop PROVE WriterInv'
  BY <1>4 DEF AppendTop
<1>5. ASSUME AppendAdmitted PROVE WriterInv'
  BY <1>5 DEF AppendAdmitted, Unhealthy, Admit
<1>6. ASSUME AppendRefused PROVE WriterInv'
  BY <1>6 DEF AppendRefused, AppendGivesUp
<1>7. ASSUME Appended PROVE WriterInv'
  BY <1>7 DEF Appended, Retire
<1>8. ASSUME AppendFails PROVE WriterInv'
  BY <1>8 DEF AppendFails, Retire, AppendGivesUp
<1>9. ASSUME AppendRaises PROVE WriterInv'
  BY <1>9 DEF AppendRaises, Record
<1>10. ASSUME Discard PROVE WriterInv'
  BY <1>10 DEF Discard
<1>11. ASSUME Finalize PROVE WriterInv'
  BY <1>11 DEF Finalize
<1>12. ASSUME OtherFinishes PROVE WriterInv'
  BY <1>12 DEF OtherFinishes
<1> QED
  BY <1>1, <1>2, <1>3, <1>4, <1>5, <1>6, <1>7, <1>8, <1>9, <1>10, <1>11, <1>12 DEF AppStep

\* A finisher.
LEMMA FinishKeeps == ASSUME WriterInv, NEW f \in Finisher, FinishStep(f) PROVE WriterInv'
<1> USE DEF WriterInv, Values, Places, MutationsMatch, LocksMatch, Ownership,
       PumpMatches, VideoMatches, TrackMatches, ClosingMatches, CancelMatches, FileMatches, BeforeClose,
       Owning, VideoOver, AudioOver, SessionOver, AudioEnded, Mutating, Reading, Pumping
<1>1. ASSUME FinishEnter(f) PROVE WriterInv'
  BY <1>1 DEF FinishEnter
<1>2. ASSUME FinishWaited(f) PROVE WriterInv'
  BY <1>2 DEF FinishWaited, Unhealthy
<1>3. ASSUME FinishGivesUp(f) PROVE WriterInv'
  BY <1>3 DEF FinishGivesUp, Waits
<1>4. ASSUME FinishRefused(f) PROVE WriterInv'
  BY <1>4 DEF FinishRefused
<1>5. ASSUME MarkVideo(f) PROVE WriterInv'
  BY <1>5 DEF MarkVideo, LockVideo, Admit
<1>6. ASSUME VideoMarked(f) PROVE WriterInv'
  BY <1>6 DEF VideoMarked, Retire, Unhealthy
<1>7. ASSUME StopAudio(f) PROVE WriterInv'
  BY <1>7 DEF StopAudio
<1>8. ASSUME LockPump(f) PROVE WriterInv'
  <2>1. CASE complete
    BY <1>8, <2>1 DEF LockPump, Admit
  <2>2. CASE pc'[f] = "markingAudio"
    BY <1>8, <2>2 DEF LockPump, Admit
  <2>3. CASE ~complete /\ pc'[f] = "drain"
    BY <1>8, <2>3 DEF LockPump, Admit
  <2> QED
    BY <1>8, <2>1, <2>2, <2>3 DEF LockPump
<1>9. ASSUME AudioMarked(f) PROVE WriterInv'
  BY <1>9 DEF AudioMarked, Retire
<1>10. ASSUME Drained(f) PROVE WriterInv'
  BY <1>10 DEF Drained, Unhealthy
<1>11. ASSUME EndSession(f) PROVE WriterInv'
  BY <1>11 DEF EndSession, Admit
<1>12. ASSUME FinishNative(f) PROVE WriterInv'
  <2>1. CASE state = "finishing"
    BY <1>12, <2>1 DEF FinishNative, Retire
  <2>2. CASE state # "finishing"
    BY <1>12, <2>2 DEF FinishNative, Retire
  <2> QED
    BY <1>12, <2>1, <2>2 DEF FinishNative
<1>13. ASSUME NativeCalled(f) PROVE WriterInv'
  BY <1>13 DEF NativeCalled, Retire
<1>14. ASSUME NativeFinished(f) PROVE WriterInv'
  BY <1>14 DEF NativeFinished, Completion, Unhealthy
<1>15. ASSUME FinishClosesTrack(f) PROVE WriterInv'
  <2>1. CASE UNCHANGED life
    BY <1>15, <2>1 DEF FinishClosesTrack, CallbacksRetired, CloseTrack, ClaimsTrack,
       RecordCleanup
  <2>2. CASE RecordCleanup
    BY <1>15, <2>2 DEF FinishClosesTrack, CallbacksRetired, CloseTrack, ClaimsTrack,
       RecordCleanup
  <2> QED
    BY <1>15, <2>1, <2>2 DEF FinishClosesTrack
<1>16. ASSUME Settle(f) PROVE WriterInv'
  BY <1>16 DEF Settle
<1>17. ASSUME Finally(f) PROVE WriterInv'
  BY <1>17 DEF Finally
<1>18. ASSUME Raises(f) PROVE WriterInv'
  BY <1>18 DEF Raises, AfterCancel
<1> QED
  BY <1>1, <1>2, <1>3, <1>4, <1>5, <1>6, <1>7, <1>8, <1>9, <1>10, <1>11, <1>12, <1>13, <1>14,
     <1>15, <1>16, <1>17, <1>18 DEF FinishStep

\* A call of cancel().
LEMMA CancelKeeps == ASSUME WriterInv, NEW t \in Thread, RequestCancel(t) \/ Wake(t) PROVE WriterInv'
<1> USE DEF WriterInv, Values, Places, MutationsMatch, LocksMatch, Ownership,
       PumpMatches, VideoMatches, TrackMatches, ClosingMatches, CancelMatches, FileMatches, BeforeClose,
       Owning, VideoOver, AudioOver, SessionOver, AudioEnded, Mutating, Reading, Pumping
<1>1. ASSUME RequestCancel(t) PROVE WriterInv'
  BY <1>1 DEF RequestCancel, AfterCancel
<1>2. ASSUME Wake(t) PROVE WriterInv'
  BY <1>2 DEF Wake, AfterCancel, CleanedUp
<1> QED
  BY <1>1, <1>2

\* The coordinator.
LEMMA WorkerKeeps == ASSUME WriterInv, WorkerStep PROVE WriterInv'
<1> USE DEF WriterInv, Values, Places, MutationsMatch, LocksMatch, Ownership,
       PumpMatches, VideoMatches, TrackMatches, ClosingMatches, CancelMatches, FileMatches, BeforeClose,
       Owning, VideoOver, AudioOver, SessionOver, AudioEnded, Mutating, Reading, Pumping
<1>1. ASSUME WorkerClosesTrack PROVE WriterInv'
  <2>1. CASE UNCHANGED <<life, attempt>>
    BY <1>1, <2>1 DEF WorkerClosesTrack, CallbacksRetired, CloseTrack, ClaimsTrack,
       RecordCleanup
  <2>2. CASE RecordCleanup
    BY <1>1, <2>2 DEF WorkerClosesTrack, CallbacksRetired, CloseTrack, ClaimsTrack,
       RecordCleanup
  <2> QED
    BY <1>1, <2>1, <2>2 DEF WorkerClosesTrack
<1>2. ASSUME StartCancelWriting PROVE WriterInv'
  BY <1>2 DEF StartCancelWriting, MutationsRetired
<1>3. ASSUME LinkBeforeCancel PROVE WriterInv'
  BY <1>3 DEF LinkBeforeCancel, Links
<1>4. ASSUME CancelWriting PROVE WriterInv'
  BY <1>4 DEF CancelWriting
<1>5. ASSUME CancelWritingFails PROVE WriterInv'
  BY <1>5 DEF CancelWritingFails, RecordCleanup
<1>6. ASSUME RestoreAfterCancel PROVE WriterInv'
  BY <1>6 DEF RestoreAfterCancel
<1>7. ASSUME Publish PROVE WriterInv'
  BY <1>7 DEF Publish
<1> QED
  BY <1>1, <1>2, <1>3, <1>4, <1>5, <1>6, <1>7 DEF WorkerStep

\* The audio pump.
LEMMA PumpKeeps == ASSUME WriterInv, PumpStep PROVE WriterInv'
<1> USE DEF WriterInv, Values, Places, MutationsMatch, LocksMatch, Ownership,
       PumpMatches, VideoMatches, TrackMatches, ClosingMatches, CancelMatches, FileMatches, BeforeClose,
       Owning, VideoOver, AudioOver, SessionOver, AudioEnded, Mutating, Reading, Pumping
<1>1. ASSUME PumpCalled PROVE WriterInv'
  BY <1>1 DEF PumpCalled
<1>2. ASSUME PumpTop PROVE WriterInv'
  <2>1. CASE pumpLock' = "pump"
    BY <1>2, <2>1 DEF PumpTop, PumpSignals, MustReturn
  <2>2. CASE pumpLock' = Free
    <3>1. /\ pc' = [pc EXCEPT !["pump"] = "idle"] /\ inflight' = FALSE
          /\ audioDone' => audioDone \/ complete \/ progress >= Chunks \/ state \notin Pumping \/ failed
      BY <1>2, <2>2 DEF PumpTop, PumpSignals
    <3>2. UNCHANGED <<life, inside, videoLock, video, progress, complete, track, closes, native>>
      BY <1>2, <2>2 DEF PumpTop
    <3> QED
      BY <1>2, <2>2, <3>1, <3>2 DEF PumpTop
  <2> QED
    BY <1>2, <2>1, <2>2 DEF PumpTop
<1>3. ASSUME PumpReads PROVE WriterInv'
  <2>1. CASE \E next \in {"appending", "marking"} : Admit("pump", Pumping) /\ Goto("pump", next)
    BY <1>3, <2>1 DEF PumpReads, Admit, Raise
  <2>2. CASE inside' = inside
    BY <1>3, <2>2 DEF PumpReads, Admit, Raise
  <2> QED
    BY <1>3, <2>1, <2>2 DEF PumpReads, Raise
<1>4. ASSUME PumpAppended PROVE WriterInv'
  BY <1>4 DEF PumpAppended, Retire, Raise
<1>5. ASSUME PumpMarks PROVE WriterInv'
  <2>1. CASE Admit("pump", Pumping)
    BY <1>5, <2>1 DEF PumpMarks, Admit
  <2>2. CASE inside' = inside
    BY <1>5, <2>2 DEF PumpMarks, Admit
  <2> QED
    BY <1>5, <2>1, <2>2 DEF PumpMarks
<1>6. ASSUME PumpMarked PROVE WriterInv'
  BY <1>6 DEF PumpMarked, Retire
<1>7. ASSUME PumpRaises PROVE WriterInv'
  BY <1>7 DEF PumpRaises, Record, PumpSignals
<1>8. ASSUME PumpEnds PROVE WriterInv'
  BY <1>8 DEF PumpEnds, PumpSignals
<1> QED
  BY <1>1, <1>2, <1>3, <1>4, <1>5, <1>6, <1>7, <1>8 DEF PumpStep

\* The native writer.
LEMMA NativeKeeps == ASSUME WriterInv, NativeCompletes \/ NativeFails PROVE WriterInv'
<1> USE DEF WriterInv, Values, Places, MutationsMatch, LocksMatch, Ownership,
       PumpMatches, VideoMatches, TrackMatches, ClosingMatches, CancelMatches, FileMatches, BeforeClose,
       Owning, VideoOver, AudioOver, SessionOver, AudioEnded, Mutating, Reading, Pumping
<1>1. ASSUME NativeCompletes PROVE WriterInv'
  BY <1>1 DEF NativeCompletes
<1>2. ASSUME NativeFails PROVE WriterInv'
  BY <1>2 DEF NativeFails
<1> QED
  BY <1>1, <1>2

LEMMA StutterKeeps == ASSUME WriterInv, UNCHANGED vars PROVE WriterInv'
<1> USE DEF WriterInv, vars
<1> QED
  BY DEF Values, Places, MutationsMatch, LocksMatch, Ownership, PumpMatches, VideoMatches,
     TrackMatches, ClosingMatches, CancelMatches, FileMatches, BeforeClose, Owning, VideoOver, AudioOver,
     SessionOver, AudioEnded, Mutating, Reading, Pumping

LEMMA WriterInvariant == Spec => []WriterInv
<1>1. Init => WriterInv
  <2> SUFFICES ASSUME Init PROVE WriterInv
    OBVIOUS
  <2>1. /\ pc["app"] = "construct" /\ pc["other"] = "absent" /\ pc["host"] = "absent"
        /\ pc["pump"] = "absent" /\ pc["worker"] = "idle" /\ DOMAIN pc = Thread
    BY DEF Init
  <2>2. audioDone => track = "none"
    BY DEF Init
  <2>3. Values /\ Places /\ MutationsMatch /\ LocksMatch /\ Ownership
    BY <2>1 DEF Init, Values, Places, MutationsMatch, Mutating, LocksMatch, Reading, Ownership,
       BeforeClose, Owning
  <2>4. PumpMatches
    BY <2>1, <2>2 DEF Init, PumpMatches, AudioEnded, AudioOver
  <2>5. VideoMatches /\ TrackMatches /\ ClosingMatches /\ CancelMatches
       /\ FileMatches
    BY <2>1 DEF Init, VideoMatches, TrackMatches, ClosingMatches, CancelMatches,
       FileMatches, VideoOver, SessionOver
  <2> QED
    BY <2>3, <2>4, <2>5 DEF WriterInv
<1>2. WriterInv /\ [Next]_vars => WriterInv'
  BY AppKeeps, FinishKeeps, CancelKeeps, WorkerKeeps, PumpKeeps, NativeKeeps, StutterKeeps
     DEF Next, Rests
<1> QED
  BY <1>1, <1>2, PTL DEF Spec

-----------------------------------------------------------------------------

\* The native cancelWriting runs beside no append and no mark, and never on a
\* writer that came to its end.
THEOREM CancelIsAlone == Spec => []CancelAlone
<1>1. WriterInv => CancelAlone
  BY DEF CancelAlone, WriterInv, CancelMatches
<1> QED
  BY <1>1, WriterInvariant, PTL

\* Nothing is appended to an input that is marked as finished, and no input is
\* marked twice at once.
THEOREM NothingAfterMark == Spec => []MarkedInputsAreQuiet
<1>1. WriterInv => MarkedInputsAreQuiet
  BY DEF MarkedInputsAreQuiet, WriterInv, LocksMatch, Reading, PumpMatches,
     VideoMatches
<1> QED
  BY <1>1, WriterInvariant, PTL

\* The decoder is not read once its track is closed, and closed at most once.
THEOREM ReadsBeforeClose == Spec => []TrackOutlivesReads
<1>1. WriterInv => TrackOutlivesReads
  BY DEF TrackOutlivesReads, WriterInv, PumpMatches, TrackMatches
<1> QED
  BY <1>1, WriterInvariant, PTL

\* A finish() that returns has a complete file.
THEOREM FinishReturnsComplete == Spec => []FinishedIsComplete
<1>1. WriterInv => FinishedIsComplete
  <2> SUFFICES ASSUME WriterInv, NEW f \in Finisher, pc[f] = "ok"
               PROVE  /\ state = "finished" /\ writer = "complete" /\ kept /\ end = frames
                      /\ "video" \in marked /\ (track # "none" => "audio" \in marked)
                      /\ track # "open" /\ inside = {} /\ ~inflight
    BY DEF FinishedIsComplete
  <2>1. state = "finished"
    BY DEF WriterInv, Ownership
  <2>2. /\ writer = "complete" /\ kept /\ end = frames /\ "video" \in marked
        /\ track = "none" \/ "audio" \in marked
        /\ track # "open" /\ ~inflight
    BY <2>1 DEF WriterInv, ClosingMatches, CancelMatches, FileMatches
  <2>3. ASSUME NEW t \in Thread, t \in inside PROVE FALSE
    <3>1. pc[t] \in Mutating
      BY <2>3 DEF WriterInv, MutationsMatch
    <3>2. t \notin {"host", "worker", "pump"}
      BY <3>1, <2>2 DEF WriterInv, Places, PumpMatches, Mutating
    <3> QED
      BY <3>1, <3>2, <2>1, <2>2
         DEF WriterInv, Places, Ownership, BeforeClose, VideoMatches, Mutating
  <2>4. inside = {}
    BY <2>3 DEF WriterInv, MutationsMatch
  <2> QED
    BY <2>1, <2>2, <2>4
<1> QED
  BY <1>1, WriterInvariant, PTL

\* A cancellation loses no frame unless the file system refused the second name
\* of the file, wherever cancelWriting or the restore fails.
THEOREM FramesKept == Spec => []FramesSurvive
<1>1. WriterInv => FramesSurvive
  BY DEF FramesSurvive, WriterInv, FileMatches
<1> QED
  BY <1>1, WriterInvariant, PTL

\* No step takes a writer out of "finished" or "cancelled".
THEOREM EndsStay == Spec => EndsAreFinal
<1>1. WriterInv /\ [Next]_vars => [(state \in {"finished", "cancelled"}) => state' = state]_vars
  <2> SUFFICES ASSUME WriterInv, Next PROVE (state \in {"finished", "cancelled"}) => state' = state
    BY DEF vars
  <2>1. CASE AppStep \/ OtherFinishes
    BY <2>1 DEF AppStep, Construct, ConstructFails, Constructed, AppendTop, AppendAdmitted,
       AppendRefused, Appended, AppendFails, AppendRaises, Discard, Finalize, OtherFinishes,
       Record, RecordCleanup, AppendGivesUp, WriterInv, Ownership
  <2>2. CASE \E f \in Finisher : FinishStep(f)
    BY <2>2 DEF FinishStep, FinishEnter, FinishWaited, FinishGivesUp, FinishRefused,
       MarkVideo, VideoMarked, StopAudio, LockPump, AudioMarked, Drained, EndSession,
       FinishNative, NativeCalled, NativeFinished, FinishClosesTrack, Settle, Finally, Raises,
       Record, RecordCleanup, WriterInv, Ownership, BeforeClose, Owning
  <2>3. CASE \E t \in Thread : RequestCancel(t) \/ Wake(t)
    BY <2>3 DEF RequestCancel, Wake, Record, RecordCleanup
  <2>4. CASE WorkerStep
    BY <2>4 DEF WorkerStep, WorkerClosesTrack, StartCancelWriting, LinkBeforeCancel,
       CancelWriting, CancelWritingFails, RestoreAfterCancel, Publish, Record, RecordCleanup
  <2>5. CASE PumpStep
    BY <2>5 DEF PumpStep, PumpCalled, PumpTop, PumpReads, PumpAppended, PumpMarks, PumpMarked,
       PumpRaises, PumpEnds, Record, RecordCleanup, PumpSignals
  <2>6. CASE NativeCompletes \/ NativeFails \/ Rests
    BY <2>6 DEF Rests, vars, NativeCompletes, NativeFails, Record, RecordCleanup
  <2> QED
    BY <2>1, <2>2, <2>3, <2>4, <2>5, <2>6 DEF Next
<1> QED
  BY <1>1, WriterInvariant, PTL DEF Spec, EndsAreFinal
=============================================================================
