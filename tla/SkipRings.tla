----------------------------- MODULE SkipRings -----------------------------
(***************************************************************************)
(* The BSVD denoiser on the accelerator (processors/bsvd/mps.py): a static *)
(* graph that always computes, one dispatch in flight, with sixteen        *)
(* recurrent units and six delay lines of reusable bindings.  A boolean    *)
(* mirror of the network (schedule.py) says which inputs are none, and     *)
(* from it come the gates, the pushes and pops, and whether a result is    *)
(* read.  A tensor is the frame it is the right value for, as the          *)
(* reference network (net.py) computes it; zeros; or anything else.        *)
(***************************************************************************)
EXTENDS Integers, Sequences

CONSTANTS
  Depths,     \* of the delay lines
  Streams     \* what is denoised: [length, upto]; the frames up to upto are wanted

Unit == 0..15
Line == 0..5

ASSUME RingConstants ==
  /\ Depths \in [Line -> Nat \ {0}]
  /\ \A s \in Streams : s.length \in Nat /\ s.upto \in 1..s.length

Shift == 17   \* SHIFT_NUM
Zero  == 0
Junk  == -1
None  == -2

VARIABLES
  client,     \* the stream, its first frame, the steps done, what the last one returned
  streams,    \* streams begun
  host,       \* "idle", "begun", "joined", "raised": inside step()
  primed,     \* the mirror: units whose center is real
  items,      \* the mirror: real items of each delay line
  record,     \* what the mirror said of this step, and the bindings popped
  inflight,   \* the dispatch in flight: its record, bindings and buffer
  job,        \* "none", "queued", "done"
  feeds,      \* the two buffers of fixed feeds: frame and gates
  parity,     \* the buffer of the next dispatch
  left, center,   \* the states of the units
  store,      \* the contents of the bindings of each line
  rings, free,    \* the bindings in use and those free
  result      \* the buffer of the result

mirror == <<primed, items>>
memory == <<left, center, store, result>>
svars == <<client, streams, host, mirror, record, inflight, job, feeds, parity, memory, rings, free>>

LastOf(stream, first) == first + stream.length - 1
Steps(stream) == IF stream.upto + Shift > stream.length THEN stream.upto + Shift ELSE stream.length

-----------------------------------------------------------------------------
(* The mirror: what the network does when x tells whether its input is real.  A
   unit gives what it holds and takes its input: it is a delay of one step. *)

Block(u) == u \div 8

\* NoneSkip.pop() comes after push().
LineHolds(line, pushed) == items[line] > 0 \/ pushed

BlockOut(b, x) == 8 * b + 7 \in primed /\ LineHolds(3 * b + 1, x) /\ LineHolds(3 * b, x)
RingEntry(b, x)    == IF b = 0 THEN x ELSE BlockOut(0, x)

RingPush(line, x) ==
  LET b == line \div 3 IN IF line % 3 = 2 THEN 8 * b + 1 \in primed ELSE RingEntry(b, x)

Pop(line, x) ==
  LET b == line \div 3
  IN  /\ (IF line % 3 = 2 THEN 8 * b + 5 ELSE 8 * b + 7) \in primed
      /\ line % 3 = 0 => LineHolds(3 * b + 1, RingEntry(b, x))
      /\ LineHolds(line, RingPush(line, x))

UnitIn(u, x) ==
  CASE u % 8 = 0 -> RingEntry(Block(u), x)
    [] u % 8 = 6 -> Pop(3 * Block(u) + 2, x)
    [] OTHER     -> u - 1 \in primed

Mirror(x) ==
  [pushes   |-> {line \in Line : RingPush(line, x)}, pops |-> {line \in Line : Pop(line, x)},
   drained  |-> {u \in Unit : ~UnitIn(u, x)},    unprimed |-> Unit \ primed,
   real     |-> BlockOut(1, RingEntry(1, x))]

MirrorSteps(said) ==
  /\ primed' = Unit \ said.drained
  /\ items' = [line \in Line |-> items[line] + (IF line \in said.pushes THEN 1 ELSE 0)
                                             - (IF line \in said.pops THEN 1 ELSE 0)]

-----------------------------------------------------------------------------
(* The graph *)

\* A unit is right about its center if it sees the frame before it, or zeros, on
\* the left, and the frame after it, or zeros at the end, on the right.
Conv(r, l, c) ==
  IF /\ c \in inflight.first..inflight.last
     /\ l = (IF c = inflight.first THEN Zero ELSE c - 1)
     /\ r = c + 1 \/ (r = Zero /\ c = inflight.last)
  THEN c ELSE Junk

\* Sums and differences are of tensors of one frame.
Join(a, b) == IF a = b THEN a ELSE Junk

\* A convolution of zeros is not zero.
Through(x) == IF x = Zero THEN Junk ELSE x

\* runWithMTLCommandQueue: the values at the inputs of the units, and the rest.
Execute ==
  /\ job = "queued" /\ job' = "done"
  /\ LET feed == feeds[inflight.parity]
         popped(line) == IF inflight.popped[line] = None THEN Zero
                         ELSE store[line][inflight.popped[line]]
         unit(u, x) == Conv(IF u \in feed.drained THEN Zero ELSE x, left[u], center[u])
         output(y, b) == Join(Join(y, popped(3 * b + 1)), popped(3 * b))
         in[u \in Unit] ==
           IF u = 0 THEN Through(feed.frame)
           ELSE LET y == unit(u - 1, in[u - 1])
                IN  CASE u = 8     -> Through(output(y, 0))
                      [] u % 8 = 6 -> Join(y, popped(3 * Block(u) + 2))
                      [] OTHER     -> y
         pushed == [line \in Line \ {0} |->
                      CASE line % 3 = 2 -> in[8 * (line \div 3) + 2]
                        [] line = 3     -> output(unit(7, in[7]), 0)
                        [] OTHER        -> in[8 * (line \div 3)]]
     IN  /\ left' = [u \in Unit |-> IF u \in feed.unprimed THEN Zero ELSE center[u]]
         /\ center' = in
         /\ result' = output(unit(15, in[15]), 1)
         /\ store' = [line \in Line |->
              IF line = 0 \/ inflight.pushed[line] = None THEN store[line]
              ELSE [store[line] EXCEPT ![inflight.pushed[line]] = pushed[line]]]
  /\ UNCHANGED <<client, streams, host, mirror, record, inflight, feeds, parity, rings, free>>

-----------------------------------------------------------------------------
(* The host *)

LineInOrder(line) == [n \in 1..(Depths[line] + 1) |-> n - 1]
NoBindings    == [line \in Line |-> None]
Idle          == [real |-> FALSE, popped |-> NoBindings, pushed |-> NoBindings, parity |-> 0,
                  first |-> 1, last |-> 0]

\* A stream begins; its frames have numbers of their own.
Begins(stream) ==
  client' = [stream |-> stream, first |-> 100 * streams + 1, steps |-> 0, value |-> None]

RingsStart(stream) ==
  /\ client = [stream |-> stream, first |-> 1, steps |-> 0, value |-> None]
  /\ streams = 1 /\ host = "idle"
  /\ primed = {} /\ items = [line \in Line |-> 0]
  /\ record = None /\ inflight = Idle /\ job = "none"
  /\ feeds = [p \in 0..1 |-> None] /\ parity = 0
  /\ left = [u \in Unit |-> Zero] /\ center = [u \in Unit |-> Zero]
  /\ store = [line \in Line |-> [slot \in 0..Depths[line] |-> Junk]]
  /\ rings = [line \in Line |-> <<>>] /\ free = [line \in Line |-> LineInOrder(line)]
  /\ result = Junk

RingsInit == \E stream \in Streams : RingsStart(stream)

\* Faulty variant: every dispatch has the same feeds.
NeverFlips == parity

\* begin_dispatch() turns to the other buffer.
Flips == 1 - parity

\* step() until it collects: the mirror, the feeds, the bindings to pop.  The
\* dispatch before it may still run.
StepBegins ==
  /\ host = "idle" /\ client.steps < Steps(client.stream)
  /\ LET x     == client.steps < client.stream.length
         frame == IF x THEN client.first + client.steps ELSE Zero
         said  == Mirror(x)
         short == {line \in said.pops : rings[line] = <<>>}
     IN  /\ MirrorSteps(said)
         /\ feeds' = [feeds EXCEPT ![parity] =
              [frame |-> frame, drained |-> said.drained, unprimed |-> said.unprimed]]
         /\ record' = [said |-> said, frame |-> frame,
                       popped |-> [line \in Line |-> IF line \in said.pops \ short
                                                     THEN Head(rings[line]) ELSE None]]
         /\ rings' = [line \in Line |-> IF line \in said.pops \ short THEN Tail(rings[line])
                                        ELSE rings[line]]
         /\ host' = IF short = {} THEN "begun" ELSE "raised"
  /\ UNCHANGED <<client, streams, inflight, job, parity, memory, free>>

\* _collect(): joins the dispatch in flight; its bindings change places.
Collects ==
  /\ host = "begun" /\ job # "queued"
  /\ client' = [client EXCEPT !.steps = @ + 1,
                              !.value = IF inflight.real THEN result ELSE None]
  /\ free' = [line \in Line |-> IF inflight.popped[line] = None THEN free[line]
                                ELSE Append(free[line], inflight.popped[line])]
  /\ rings' = [line \in Line |-> IF inflight.pushed[line] = None THEN rings[line]
                                 ELSE Append(rings[line], inflight.pushed[line])]
  /\ inflight' = Idle /\ job' = "none" /\ host' = "joined"
  /\ UNCHANGED <<streams, mirror, record, feeds, parity, memory>>

\* The bindings to push, the frame itself into that of line 0, and the dispatch.
Submits ==
  /\ host = "joined"
  /\ LET said  == record.said
         short == {line \in said.pushes : free[line] = <<>>}
         slot(line) == IF line \in said.pushes \ short THEN Head(free[line]) ELSE None
     IN  /\ inflight' = [real |-> said.real, popped |-> record.popped,
                        pushed |-> [line \in Line |-> slot(line)], parity |-> parity,
                        first |-> client.first, last |-> LastOf(client.stream, client.first)]
         /\ free' = [line \in Line |-> IF slot(line) = None THEN free[line] ELSE Tail(free[line])]
         /\ store' = IF slot(0) = None THEN store ELSE [store EXCEPT ![0][slot(0)] = record.frame]
         /\ job' = IF short = {} THEN "queued" ELSE "none"
         /\ host' = IF short = {} THEN "idle" ELSE "raised"
  /\ parity' = Flips /\ record' = None
  /\ UNCHANGED <<client, streams, mirror, feeds, left, center, result, rings>>

\* reset() when the frames wanted are out, with the last dispatch in flight; what
\* is in the bindings stays there.  Another stream follows.
RingResets ==
  /\ host = "idle" /\ client.steps = Steps(client.stream) /\ job # "queued" /\ streams < 2
  /\ streams' = streams + 1
  /\ \E stream \in Streams : Begins(stream)
  /\ primed' = {} /\ items' = [line \in Line |-> 0]
  /\ inflight' = Idle /\ job' = "none" /\ parity' = 0
  /\ left' = [u \in Unit |-> Zero] /\ center' = [u \in Unit |-> Zero]
  /\ rings' = [line \in Line |-> <<>>] /\ free' = [line \in Line |-> LineInOrder(line)]
  /\ UNCHANGED <<host, record, feeds, store, result>>

RingsNext == StepBegins \/ Collects \/ Submits \/ Execute \/ RingResets

RingsSpec == RingsInit /\ [][RingsNext]_svars

-----------------------------------------------------------------------------
\* The accelerator gives what the reference network gives: no ring underruns or
\* is exhausted, and step n returns frame n - 17, computed from the frames around
\* it and no others, whatever was denoised before; during the fill, nothing.
ResultsInOrder ==
  /\ host # "raised"
  /\ client.steps > 0 =>
       client.value = IF client.steps <= Shift THEN None
                      ELSE client.first + client.steps - Shift - 1
=============================================================================
