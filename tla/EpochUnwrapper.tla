--------------------------- MODULE EpochUnwrapper ---------------------------
(***************************************************************************)
(* The unwrapping of timestamp resets in joined files (media/timing.py,    *)
(* EpochUnwrapper).  The table of samples and the decoding of pictures     *)
(* each run an unwrapper of their own over the same stamps: the table in   *)
(* the order of the packets (video_reader.py and ffmpeg_reader.py,         *)
(* read_sample_table), the decoder in the order of display, where a        *)
(* picture finds its sample by its unwrapped stamp.  Times are ticks.      *)
(***************************************************************************)
EXTENDS Integers, SequencesExt, FiniteSetsExt

CONSTANTS
  Second,     \* ticks of a second
  Recent,     \* bound: length of _deltas
  Sources     \* the files: [start, step, head, count, bframes, pause, gap, damaged, dip]

VARIABLES
  source,     \* the file
  pushed,     \* samples pushed into each unwrapper
  walk,       \* the unwrapper of the table
  trim,       \* the unwrapper of the decoder
  keys,       \* unwrapped stamp of each sample in the table
  shown       \* unwrapped stamp of each picture when it is decoded

evars == <<source, pushed, walk, trim, keys, shown>>

EpochResetSeconds == 10

\* _delta_median(), the lower one.
DeltaMedian(deltas) ==
  LET half == (Len(deltas) - 1) \div 2
  IN  CHOOSE d \in ToSet(deltas) :
        /\ Cardinality({i \in DOMAIN deltas : deltas[i] < d}) <= half
        /\ Cardinality({i \in DOMAIN deltas : deltas[i] <= d}) > half

Stitch(deltas) == IF deltas = <<>> THEN Second \div 25 ELSE DeltaMedian(deltas)

\* An interval far above the typical one is a gap of the recording.
Typical(deltas, delta) ==
  deltas = <<>> \/ delta <= Max({Second, 4 * DeltaMedian(deltas)})

JumpsBack(from, pts) == from - pts > EpochResetSeconds * Second

\* Faulty variant: one stamp is enough.
StaysAtOnce(u, pts) == u.pending # <<>>

\* The stamp after a jump does not return to the clock before it.
StaysBack(u, pts) == u.pending # <<>> /\ JumpsBack(u.prev, pts)

\* A jump is confirmed, or absorbed as one damaged stamp.
Confirm(u, pts) ==
  IF StaysBack(u, pts)
  THEN [u EXCEPT !.pending = <<>>, !.prev = u.pending[1], !.offset = u.pending[2],
                 !.resets = @ + 1]
  ELSE [u EXCEPT !.pending = <<>>]

Unused == [fed |-> FALSE, offset |-> 0, prev |-> 0, top |-> 0, deltas |-> <<>>,
           pending |-> <<>>, resets |-> 0, adjusted |-> 0]

\* _max_adjusted never falls.
Adjusts(u, adjusted) ==
  [u EXCEPT !.fed = TRUE, !.adjusted = adjusted,
            !.top = IF u.fed THEN Max({@, adjusted}) ELSE adjusted]

\* The last Recent intervals between two stamps, without the gaps.
Intervals(u, pts) ==
  IF u.fed /\ pts > u.prev /\ Typical(u.deltas, pts - u.prev)
  THEN LET all == Append(u.deltas, pts - u.prev)
       IN  SubSeq(all, Max({1, Len(all) - Recent + 1}), Len(all))
  ELSE u.deltas

\* push()
Push(u, pts) ==
  LET c == Confirm(u, pts)
      candidate == c.top + Stitch(c.deltas) - pts
  IN  IF c.fed /\ JumpsBack(c.prev, pts)
      THEN [Adjusts(c, pts + candidate) EXCEPT !.pending = <<pts, candidate>>]
      ELSE [Adjusts(c, pts + c.offset) EXCEPT !.prev = pts, !.deltas = Intervals(c, pts)]

-----------------------------------------------------------------------------
\* The raw stamp of the n-th picture shown: two recordings, joined after the
\* first "head" pictures; the first may pause, and one stamp may be damaged.
Raw(s, n) ==
  IF n = s.damaged THEN s.dip
  ELSE IF n > s.head THEN s.step * (n - s.head - 1)
  ELSE s.start + s.step * (n - 1) + (IF n > s.pause THEN s.gap ELSE 0)

\* A file of which the unwrapper can know: the first two pictures tell its pace, a
\* pause is longer than any pace, what is joined, with two pictures, begins before,
\* and one stamp is damaged at most, which is followed by another of its recording
\* and jumps BACK far enough for a suspected reset.  One that jumps forward as far
\* is taken for the clock: the next two true stamps seem to stay in a dip, and a
\* reset is committed that the file does not have (push(), against the comment at
\* timing.py:188-190 that one damaged stamp must not shift the clock for good).
Recording(s) ==
  /\ s.step \in Nat \ {0} /\ {s.start, s.pause, s.gap, s.damaged, s.dip} \subseteq Int
  /\ s.count \in Nat /\ s.head \in 2..s.count
  /\ s.gap # 0 => s.pause > 1 /\ s.gap > 0 /\ s.step + s.gap > Max({Second, 4 * s.step})
  /\ s.damaged # 0 =>
       s.damaged \in 3..(s.head - 1) /\ JumpsBack(Raw(s, s.damaged - 1), s.dip)
  /\ s.head < s.count =>
       s.head + 2 <= s.count /\ \A n \in 1..2 : JumpsBack(Raw(s, s.head), Raw(s, s.head + n))

ASSUME EpochConstants ==
  /\ Second \in Nat \ {0} /\ Second % 25 = 0 /\ Recent \in Nat \ {0, 1}
  /\ \A s \in Sources : Recording(s)

\* The pictures of n consecutive ones that are coded before those between them.
Anchors(s, n) == {i \in 1..n : (i - 1) % (s.bframes + 1) = 0 \/ i = n}
Before(s, n, i) == Max({0} \cup {a \in Anchors(s, n) : a < i})
Rank(s, n, i) == 2 * Before(s, n, i) + (IF i \in Anchors(s, n) THEN 0 ELSE 1)
Coded(s, n) ==
  LET earlier(i) == {j \in 1..n : \/ Rank(s, n, j) < Rank(s, n, i)
                                  \/ Rank(s, n, j) = Rank(s, n, i) /\ j < i}
  IN  [k \in 1..n |-> CHOOSE i \in 1..n : Cardinality(earlier(i)) = k - 1]

\* The pictures of the file in the order of their packets.
Packets(s) ==
  Coded(s, s.head) \o [i \in 1..(s.count - s.head) |-> s.head + Coded(s, s.count - s.head)[i]]

\* The table is read before anything is decoded; the walks do not depend on one
\* another, and a step takes both one sample further.
Sample ==
  /\ pushed < source.count /\ pushed' = pushed + 1
  /\ LET p == Packets(source)[pushed + 1]
     IN  /\ walk' = Push(walk, Raw(source, p))
         /\ keys' = [keys EXCEPT ![p] = walk'.adjusted]
  /\ trim' = Push(trim, Raw(source, pushed + 1))
  /\ shown' = [shown EXCEPT ![pushed + 1] = trim'.adjusted]
  /\ UNCHANGED source

\* bisect_right(keys, adjusted) - 1 in the sorted table, counted from 1.
SampleOf(n) == Cardinality({i \in 1..source.count : keys[i] <= shown[n]})

EpochStart(s) ==
  /\ source = s /\ pushed = 0 /\ walk = Unused /\ trim = Unused
  /\ keys = [n \in 1..s.count |-> 0] /\ shown = [n \in 1..s.count |-> 0]

EpochInit == \E s \in Sources : EpochStart(s)
EpochNext == Sample
EpochSpec == EpochInit /\ [][EpochNext]_evars

-----------------------------------------------------------------------------
\* The decoded pictures are shown on one clock that rises, across a join and
\* around a damaged stamp.  The second recording goes on at the pace of the first
\* (a pause or a damaged stamp never becomes the interval at the join), and only
\* a join moves the clock.
JoinsAreSeamless ==
  /\ \A n \in 2..pushed :
       /\ shown[n - 1] < shown[n]
       /\ n = source.head + 1 => shown[n] = shown[n - 1] + source.step
  /\ pushed = source.count => trim.resets = (IF source.head < source.count THEN 1 ELSE 0)

\* "Compute identical mappings, so window bisects stay aligned": every decoded
\* picture finds its own sample in the table.
PicturesFindTheirSample ==
  pushed = source.count => \A n \in 1..source.count : SampleOf(n) = n
=============================================================================
