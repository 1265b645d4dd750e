---------------------------- MODULE FileEndpoint ----------------------------
(***************************************************************************)
(* The end of a file run: a conform stage puts the frames of the source on *)
(* a constant grid (processors/conform), its worker flushes it at a cut,   *)
(* and the terminal consumer holds one frame back, to end it where the     *)
(* source ends, and counts the frames up to a limit (pipeline/run.py).     *)
(* Time stamps are ticks from the start of the run.  The length of a slot  *)
(* is in half ticks, and instants are compared in quarter ticks.           *)
(***************************************************************************)
EXTENDS Integers, Sequences, FiniteSets

CONSTANTS
  Films,      \* sequences of frames: [pts, dur, cut], the frames before 0 are context
  Grids,      \* lengths of a slot
  Limits,     \* limits on the frames written
  Preserving, \* whether the chain declares that it preserves the duration; a chain
              \* of the catalogue does, a processor of a host may not
  MaxFanout   \* slots that one frame may fill

SourceFrame == [pts : Int, dur : Nat \ {0}, cut : BOOLEAN]

\* Frames do not overlap; the first one wanted is at 0, and nothing comes before the
\* first frame that could be cut off from it.
ASSUME EndpointConstants ==
  /\ \A f \in Films :
       /\ f \in Seq(SourceFrame) /\ f # <<>>
       /\ \A n, m \in DOMAIN f : n < m => f[n].pts + f[n].dur <= f[m].pts
       /\ f[1].pts <= 0 /\ f[Len(f)].pts >= 0 /\ ~f[1].cut
  /\ Grids \subseteq Nat \ {0} /\ Limits \subseteq Nat \ {0} /\ MaxFanout \in Nat \ {0}
  /\ Preserving \subseteq BOOLEAN

VARIABLES
  film, grid, limit,  \* the run
  preserve,   \* _preserve_duration
  fed,        \* frames the conform stage took
  held,       \* _prev: the frame it holds, or 0
  nextSlot,   \* _slot
  ledger,     \* [emitted, dups, drops]
  marks,      \* cuts that wait for the next output of the stage
  queue,      \* what is on its way to the consumer
  pending,    \* _pending: the frame the consumer holds back, in a sequence
  written,    \* what was appended to the movie
  cutLog,     \* the cut log
  run         \* "open", "flushed", "stopped", "failed", "finished"

stage == <<fed, held, nextSlot, ledger, marks>>
sink  == <<pending, written, cutLog>>
nvars == <<film, grid, limit, preserve, stage, queue, sink, run>>

NoSlot == -1000

EndpointStart(frames, slotLength, most, keeps) ==
  /\ film = frames /\ grid = slotLength /\ limit = most /\ preserve = keeps
  /\ fed = 0 /\ held = 0 /\ nextSlot = NoSlot
  /\ ledger = [emitted |-> 0, dups |-> 0, drops |-> 0]
  /\ marks = <<>> /\ queue = <<>> /\ pending = <<>> /\ written = <<>> /\ cutLog = <<>>
  /\ run = "open"

EndpointInit ==
  \E frames \in Films, slotLength \in Grids, most \in Limits, keeps \in Preserving :
    EndpointStart(frames, slotLength, most, keeps)

-----------------------------------------------------------------------------
\* grid_ticks(): the start of slot m, rounded half to even.
GridTicks(m) ==
  LET floor == (m * grid) \div 2
  IN  IF (m * grid) % 2 = 1 /\ floor % 2 = 1 THEN floor + 1 ELSE floor

\* In quarter ticks: the start of a slot, of a frame, the end of a frame.
SlotTime(m)  == 2 * m * grid
FrameTime(n) == 4 * film[n].pts
FrameEnd(n)  == 4 * (film[n].pts + film[n].dur)

Output(m, bounds) ==
  [frame |-> held, slot |-> m, pts |-> GridTicks(m), dur |-> GridTicks(m + 1) - GridTicks(m),
   cuts |-> bounds]

\* The slots that begin up to an instant and are not filled yet.
Fill(instant) ==
  IF instant < SlotTime(nextSlot) THEN 0 ELSE (instant \div SlotTime(1)) - nextSlot + 1

\* _emit_through(): the held frame fills the slots up to an instant; the first
\* output carries the boundaries that came since the one before it.
EmitThrough(instant) ==
  LET count == Fill(instant)
  IN  /\ queue' = queue \o [k \in 1..count |->
                              Output(nextSlot + k - 1, IF k = 1 THEN marks ELSE <<>>)]
      /\ nextSlot' = nextSlot + count
      /\ ledger' = [emitted |-> ledger.emitted + count,
                    dups    |-> ledger.dups + (IF count > 1 THEN count - 1 ELSE 0),
                    drops   |-> ledger.drops + (IF count = 0 THEN 1 ELSE 0)]

\* The boundaries that still wait after some outputs.
Waiting(count) == IF count = 0 THEN marks ELSE <<>>

AtCut == fed < Len(film) /\ film[fed + 1].cut

\* Faulty variant: a frame is shown until the next one comes.
UntilTheNext == FrameTime(fed + 1)

\* Slots up to the midpoint are nearest to the held frame, the tie is its own.
Midpoint == (FrameTime(held) + FrameTime(fed + 1)) \div 2

\* flush(): the last frame of a shot covers the slots whose midpoint lies inside
\* the footage; a shorter one still owns its own slot.
Footage == IF FrameEnd(held) - grid > FrameTime(held) THEN FrameEnd(held) - grid
           ELSE FrameTime(held)

\* The instant up to which the held frame is shown.
Until == IF fed = Len(film) \/ AtCut THEN Footage ELSE Midpoint

\* process() of the first frame: the grid starts at or after it.
StageStarts ==
  /\ run = "open" /\ fed = 0
  /\ nextSlot' = -((-FrameTime(1)) \div SlotTime(1))
  /\ held' = 1 /\ fed' = 1
  /\ UNCHANGED <<film, grid, limit, preserve, ledger, marks, queue, sink, run>>

\* A frame: at a cut the worker flushes the shot before it and resets the
\* processor, whose grid goes on counting; otherwise process() fills the slots
\* of the frame before it.
StageTakes ==
  /\ run = "open" /\ held # 0 /\ fed < Len(film) /\ Fill(Until) <= MaxFanout
  /\ EmitThrough(Until)
  /\ marks' = Waiting(Fill(Until)) \o (IF AtCut THEN <<fed + 1>> ELSE <<>>)
  /\ held' = fed + 1 /\ fed' = fed + 1
  /\ UNCHANGED <<film, grid, limit, preserve, sink, run>>

\* The end of the stream: the last shot is flushed, and EOS follows it.
StageEnds ==
  /\ run = "open" /\ held # 0 /\ fed = Len(film) /\ Fill(Until) <= MaxFanout
  /\ EmitThrough(Until)
  /\ marks' = Waiting(Fill(Until)) /\ held' = 0 /\ run' = "flushed"
  /\ UNCHANGED <<film, grid, limit, preserve, fed, sink>>

\* One frame would fill too many slots: a jump of the clock.  The run fails.
StageRefuses ==
  /\ run = "open" /\ held # 0 /\ Fill(Until) > MaxFanout
  /\ run' = "failed"
  /\ UNCHANGED <<film, grid, limit, preserve, stage, queue, sink>>

-----------------------------------------------------------------------------
\* consume(): the cuts of a frame are logged, a frame of the context is dropped,
\* another one is held back and the one before it is written.  At the limit the
\* graph is stopped.
Consume ==
  /\ run \in {"open", "flushed"} /\ queue # <<>>
  /\ queue' = Tail(queue)
  /\ cutLog' = cutLog \o Head(queue).cuts
  /\ IF Head(queue).pts < 0
     THEN UNCHANGED <<pending, written, run>>
     ELSE /\ written' = written \o pending /\ pending' = <<Head(queue)>>
          /\ run' = IF Len(written') + 1 = limit THEN "stopped" ELSE run
  /\ UNCHANGED <<film, grid, limit, preserve, stage>>

SourceEnd == film[Len(film)].pts + film[Len(film)].dur

\* The last frame ends where the source ends, and lasts one tick at least, if the
\* chain preserves the duration.
Clamped(unit) ==
  LET last == SourceEnd - unit.pts
  IN  IF preserve
      THEN [unit EXCEPT !.dur = IF last < 1 THEN 1 ELSE IF last < @ THEN last ELSE @]
      ELSE unit

\* finish(), after EOS or after a stop.
EndpointFinish ==
  /\ run = "stopped" \/ (run = "flushed" /\ queue = <<>>)
  /\ written' = written \o [k \in DOMAIN pending |-> Clamped(pending[k])]
  /\ pending' = <<>> /\ run' = "finished"
  /\ UNCHANGED <<film, grid, limit, preserve, stage, queue, cutLog>>

EndpointNext ==
  \/ StageStarts \/ StageTakes \/ StageEnds \/ StageRefuses \/ Consume \/ EndpointFinish

EndpointSpec == EndpointInit /\ [][EndpointNext]_nvars

-----------------------------------------------------------------------------
\* The shot of a frame, by its first frame.
Shot(n) ==
  LET cuts == {1} \cup {k \in 2..n : film[k].cut}
  IN  CHOOSE k \in cuts : \A j \in cuts : j <= k

Away(w, n) == LET d == SlotTime(w.slot) - FrameTime(n) IN IF d < 0 THEN -d ELSE d

\* A slot shows the frame of its shot that is nearest to it, of two the earlier.
ShowsNearest(w) ==
  \A n \in 1..fed : Shot(n) = Shot(w.frame) /\ n # w.frame =>
    IF n < w.frame THEN Away(w, n) > Away(w, w.frame) ELSE Away(w, n) >= Away(w, w.frame)

\* No slot at or after the beginning of a shot shows an earlier one, and none
\* inside the footage of a shot, but for half a slot, shows a later one.
CutIsSharp(w) ==
  \A n \in 1..fed :
    /\ Shot(n) > Shot(w.frame) => SlotTime(w.slot) < FrameTime(n)
    /\ Shot(n) < Shot(w.frame) => SlotTime(w.slot) > FrameEnd(n) - grid

Sent == written \o pending \o queue

\* What is written is what a player sees: without holes or overlaps from the
\* start, each slot with the frame that the conform stage promises, as many as
\* the limit allows, up to the end of the source but for half a slot; the cut
\* log holds the cuts in order, and the ledger adds up.
MovieFollowsSource ==
  /\ \A k \in DOMAIN Sent : ShowsNearest(Sent[k]) /\ CutIsSharp(Sent[k])
  /\ \A k \in 2..Len(written) : written[k].pts = written[k - 1].pts + written[k - 1].dur
  /\ written # <<>> => written[1].pts = 0
  /\ Len(written) <= limit
  /\ \A k \in DOMAIN cutLog : film[cutLog[k]].cut /\ (k > 1 => cutLog[k - 1] < cutLog[k])
  /\ run = "finished" =>
       /\ \A n \in DOMAIN film : film[n].cut /\ (\E k \in DOMAIN written : written[k].frame >= n)
            => \E k \in DOMAIN cutLog : cutLog[k] = n
       /\ LET w   == written[Len(written)]
              end == w.pts + w.dur
          IN  /\ end <= SourceEnd \/ w.dur = 1 \/ ~preserve
              /\ Len(written) < limit => 4 * (SourceEnd - end) < grid + 2
  /\ held = 0 /\ fed > 0 => ledger.emitted = fed + ledger.dups - ledger.drops

\* The module's own words, "this stage maps each target grid slot to the NEAREST
\* source frame" (processors/conform/__init__.py:7), without regard to cuts.  It is
\* false (ConformNearest.cfg): a slot in a gap before a cut and past the footage
\* of the shot goes to the first frame of the next shot, however far that is.
NearestFrame ==
  \A k \in DOMAIN written, n \in DOMAIN film :
    Away(written[k], n) >= Away(written[k], written[k].frame)
=============================================================================
