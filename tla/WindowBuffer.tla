---------------------------- MODULE WindowBuffer ----------------------------
(***************************************************************************)
(* The recurrent window buffer (modeling/window_buffer.py): frames are     *)
(* collected, windows of them are run, and the results of the middle of a  *)
(* window are emitted; the ends are context.  Fixed mode slides a window   *)
(* of constant length; GOP mode closes windows at the sync frames of the   *)
(* source.  A frame is its position; each window is one step.              *)
(***************************************************************************)
EXTENDS Integers, FiniteSetsExt

CONSTANTS
  Buffers,    \* the buffers: [gop, window, trim, minimum]
  Frames      \* frames of the stream

GopSplitTrim == 2

ASSUME WindowConstants ==
  \A b \in Buffers :
    /\ {b.window, b.trim, b.minimum} \subseteq Nat
    /\ IF b.gop THEN b.trim = GopSplitTrim /\ 1 <= b.minimum /\ b.minimum <= b.window
       ELSE b.window > 2 * b.trim

VARIABLES
  buffer,     \* which buffer it is
  wpc,        \* "idle", "feeding", "flushing", "over"
  eligible,   \* the frame that is fed may close a group
  base,       \* _base, the first frame kept
  total,      \* _total, the frames fed
  emit,       \* _emit, the first frame not emitted
  anchor,     \* _anchor
  last        \* the last window: [start, end, from, to, cut]

wvars == <<buffer, wpc, eligible, base, total, emit, anchor, last>>

NoWindow == [start |-> 0, end |-> 0, from |-> 0, to |-> 0, cut |-> FALSE]

\* Where a group that is too long is split.
Forced == emit + buffer.window

\* _gop_start()
GopStart == IF emit = anchor THEN emit ELSE Max({anchor, emit - buffer.trim})

\* Where a fixed window starts.
FixedStart == Max({0, emit - buffer.trim})

\* What a fixed buffer keeps for the windows to come.
FixedKeep == Max({0, Min({emit - buffer.trim, total - buffer.window})})

Discarded(keep) == base' = Max({base, keep})

\* _run(): the results of start..end - 1, of which emit..to - 1 are final; cut
\* when the window may end there without context.
RunWindow(start, end, to, anchored, cut) ==
  /\ last' = [start |-> start, end |-> end, from |-> emit, to |-> to, cut |-> cut]
  /\ emit' = to
  /\ anchor' = IF anchored THEN to ELSE anchor
  /\ IF buffer.gop
     THEN Discarded(IF to = anchor' THEN to ELSE Max({anchor', to - buffer.trim}))
     ELSE UNCHANGED base
  /\ UNCHANGED <<buffer, total, eligible>>

\* feed() up to its loop.  A frame is eligible when it is the first of a sync
\* frame of the source and its group is long enough.
Feeds ==
  /\ wpc = "idle" /\ total < Frames
  /\ total' = total + 1 /\ wpc' = "feeding"
  /\ \E sync \in BOOLEAN :
       eligible' = (buffer.gop /\ sync /\ total - anchor >= buffer.minimum)
  /\ UNCHANGED <<buffer, base, emit, anchor, last>>

Position == total - 1

\* The window closes at the sync frame, which is its context and starts the next.
ClosesGroup ==
  /\ wpc = "feeding" /\ buffer.gop /\ emit < total /\ eligible /\ Position <= Forced
  /\ RunWindow(GopStart, Position + 1, Position, TRUE, TRUE)
  /\ wpc' = "idle"

\* The group is too long: it is split, before the sync frame or with context.
SplitsBeforeSync ==
  /\ wpc = "feeding" /\ buffer.gop /\ emit < total /\ eligible /\ Position > Forced
  /\ RunWindow(GopStart, Position, Forced, FALSE, TRUE)
  /\ UNCHANGED wpc

\* Faulty variant: splits as soon as the group is too long.
ContextAtOnce == total > Forced

\* The frames after the split that its results need.
ContextCame == total >= Forced + buffer.trim

SplitsWithContext ==
  /\ wpc = "feeding" /\ buffer.gop /\ emit < total /\ ~eligible /\ total > Forced
  /\ ContextCame
  /\ RunWindow(GopStart, Min({total, Forced + buffer.trim}), Forced, FALSE, FALSE)
  /\ UNCHANGED wpc

GopFed ==
  /\ wpc = "feeding" /\ buffer.gop
  /\ \/ emit >= total
     \/ ~eligible /\ (total <= Forced \/ ~ContextCame)
  /\ wpc' = "idle"
  /\ UNCHANGED <<buffer, eligible, base, total, emit, anchor, last>>

Slides ==
  /\ wpc = "feeding" /\ ~buffer.gop /\ total >= FixedStart + buffer.window
  /\ RunWindow(FixedStart, FixedStart + buffer.window, FixedStart + buffer.window - buffer.trim,
               FALSE, FALSE)
  /\ UNCHANGED wpc

FixedFed ==
  /\ wpc = "feeding" /\ ~buffer.gop /\ total < FixedStart + buffer.window
  /\ Discarded(FixedKeep) /\ wpc' = "idle"
  /\ UNCHANGED <<buffer, eligible, total, emit, anchor, last>>

\* flush()
Flushes ==
  /\ wpc = "idle" /\ wpc' = "flushing"
  /\ UNCHANGED <<buffer, eligible, base, total, emit, anchor, last>>

FlushSplits ==
  /\ wpc = "flushing" /\ buffer.gop /\ total - emit > buffer.window
  /\ RunWindow(GopStart, Min({total, Forced + buffer.trim}), Forced, FALSE, FALSE)
  /\ UNCHANGED wpc

\* Faulty variant: the last window ends where the last full one would.
LastFull == Min({total, Forced - 1})

\* The last window goes to the end of the stream.
LastEnd == total

FlushEndsStream ==
  /\ wpc = "flushing" /\ emit < total /\ (buffer.gop => total - emit <= buffer.window)
  /\ RunWindow(IF buffer.gop THEN GopStart ELSE FixedKeep, total, LastEnd, FALSE, FALSE)
  /\ wpc' = "over"

FlushesNothing ==
  /\ wpc = "flushing" /\ emit >= total /\ wpc' = "over"
  /\ UNCHANGED <<buffer, eligible, base, total, emit, anchor, last>>

\* reset() after a flush, or at a boundary of the stream.
Resets ==
  /\ wpc = "over" /\ wpc' = "idle"
  /\ eligible' = FALSE /\ base' = 0 /\ total' = 0 /\ emit' = 0 /\ anchor' = 0 /\ last' = NoWindow
  /\ UNCHANGED buffer

\* A buffer is made.
Opens ==
  /\ wpc = "new" /\ wpc' = "idle" /\ buffer' \in Buffers
  /\ UNCHANGED <<eligible, base, total, emit, anchor, last>>

WindowInit ==
  /\ buffer = [gop |-> FALSE, window |-> 1, trim |-> 0, minimum |-> 0]
  /\ wpc = "new" /\ eligible = FALSE /\ base = 0 /\ total = 0 /\ emit = 0 /\ anchor = 0
  /\ last = NoWindow

WindowNext ==
  \/ Opens \/ Feeds \/ ClosesGroup \/ SplitsBeforeSync \/ SplitsWithContext \/ GopFed
  \/ Slides \/ FixedFed \/ Flushes \/ FlushSplits \/ FlushEndsStream \/ FlushesNothing \/ Resets

WindowSpec == WindowInit /\ [][WindowNext]_wvars

-----------------------------------------------------------------------------
\* Every frame is emitted once: no window is run for nothing, at the end of a flush
\* no frame is left, and between two calls the buffer keeps a window and what its
\* context needs, however long the stream is.
EmitsAll ==
  /\ last # NoWindow => last.from < last.to
  /\ wpc = "over" => emit = total
  /\ wpc = "idle" =>
       total - base <= buffer.window + (IF buffer.gop THEN 2 * buffer.trim - 1 ELSE 0)

\* A window is a slice of the frames that are still kept and holds what it emits;
\* what it emits has its context on both sides, unless the group (or the stream)
\* begins or ends there.
WindowsHaveContext ==
  [][(wpc \in {"feeding", "flushing"} /\ last' # last) =>
       /\ base <= last'.start /\ last'.start <= last'.from
       /\ last'.to <= last'.end /\ last'.end <= total
       /\ last'.from - last'.start >= buffer.trim \/ last'.start \in {0, anchor}
       /\ \/ last'.end - last'.to >= buffer.trim \/ last'.cut
          \/ wpc = "flushing" /\ last'.end = total]_wvars
=============================================================================
