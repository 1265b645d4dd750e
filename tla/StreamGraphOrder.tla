-------------------------- MODULE StreamGraphOrder --------------------------
(***************************************************************************)
(* The line of units through the actor graph.                              *)
(*                                                                         *)
(* The units between the source and the consumer stand in one line: at     *)
(* every channel, hand and processor there is a last unit that went past   *)
(* it, and what waits there lists what comes between two such marks.  A    *)
(* boundary rides on the first unit at or after it that is left, and a     *)
(* processor is reset for it before it sees that unit.                     *)
(***************************************************************************)
EXTENDS StreamGraphLeases

-----------------------------------------------------------------------------
(* The line of units *)

\* The units that carry a boundary: the first one and the cuts.
Boundary == {1} \cup Cuts

\* The units that the first i processors swallow.
DroppedBy(i) == UNION {Drops[j] : j \in 1..i}

\* s lists the boundaries in (a, b] in increasing order.
Lists(s, a, b) ==
  /\ {s[k] : k \in DOMAIN s} = {c \in Boundary : a < c /\ c <= b}
  /\ \A j, k \in DOMAIN s : j < k => s[j] < s[k]

\* Envelope e comes next after unit a behind i processors: every unit between
\* was swallowed, and it brings the boundaries since a.
Follows(e, a, i) ==
  /\ a < e.unit /\ e.unit \notin DroppedBy(i)
  /\ \A u \in Unit : a < u /\ u < e.unit => u \in DroppedBy(i)
  /\ Lists(e.bnds, a, e.unit)

\* All units after a were swallowed.
Over(a, i) == \A u \in Unit : a < u => u \in DroppedBy(i)

\* The last unit of the messages q, or a.
LastOf(q, a) ==
  IF q = <<>> THEN a
  ELSE IF q[Len(q)] # EOS THEN q[Len(q)].unit
  ELSE IF Len(q) = 1 THEN a ELSE q[Len(q) - 1].unit

\* Messages that lead from a to b, with the end of the stream in the last place only.
Chain(q, a, b, i) ==
  /\ \A k \in DOMAIN q : q[k] = EOS => k = Len(q)
  /\ \A k \in DOMAIN q : q[k] # EOS => Follows(q[k], IF k = 1 THEN a ELSE q[k - 1].unit, i)
  /\ b = LastOf(q, a)

\* A channel whose messages follow each other; once the end of the stream is in
\* it and nothing was cancelled, nothing is missing.
Flows(c, a, b, i) ==
  /\ Chain(chan[c], a, b, i)
  /\ EosIn(c) /\ ~cancelled => Over(b, i)

\* The boundary at or before a unit; 0 before the first one.
IsEpoch(b, u) ==
  (b \in Boundary \/ b = 0) /\ b <= u /\ \A c \in Boundary : c <= u => c <= b

\* Thread t is not past its last callback.
Alive(t) == pc[t] \notin {"closing", "finally", "done"}

\* The hand of an actor that puts into edge i: from m, the last unit it took, to
\* s, the last one it put.
Hand(t, m, s, i) ==
  Alive(t) =>
    IF pc[t] = "put"
    THEN IF cur[t] = EOS THEN m = s /\ (~cancelled => Over(m, i))
         ELSE m = cur[t].unit /\ Follows(cur[t], s, i)
    ELSE m = s

\* What a processor holds and its iterator still yields.
UnitsOf(s) == {s[k] : k \in DOMAIN s}
Held(i) == UnitsOf(iter[i]) \cup UnitsOf(window[i])

\* The stage has a unit that is not processed yet, or not even reset for.
Flushing(i) == pc[Worker(i)] \in {"publish", "emit", "put"} /\ kind[i] = "boundary"
Turning(i) == pc[Worker(i)] \in {"settle", "reset"} \/ Flushing(i)
Unseen(i)  == pc[Worker(i)] = "process" \/ Turning(i)
Ending(i)  == pc[Worker(i)] = "eos" \/ (pc[Worker(i)] \in {"publish", "emit", "put"} /\ kind[i] = "eos")

\* The units of a processor are in source order.
Increasing(q) == \A j, k \in DOMAIN q : j < k => q[j] < q[k]

\* The units inside stage i lie between g, the last one it got, and m, the last
\* one it emitted.
InOrder(i, g, m) ==
  /\ m <= g
  /\ Increasing(iter[i]) /\ Increasing(window[i])
  /\ \A j \in DOMAIN iter[i], k \in DOMAIN window[i] : iter[i][j] < window[i][k]
  /\ \A u \in Held(i) : m < u /\ u <= g /\ u \notin DroppedBy(i) /\ IsEpoch(epoch[i], u)
  /\ Unseen(i) => /\ cur[Worker(i)].unit = g /\ m < g /\ g \notin Held(i)
                  /\ g \notin DroppedBy(i - 1)
  /\ ~cancelled \/ pc[Worker(i)] = "emit" => \A u \in Unit : m < u /\ u <= g =>
       u \in Held(i) \cup DroppedBy(i) \/ (Unseen(i) /\ u = g)
  /\ ~cancelled /\ Ending(i) => Over(g, i - 1)

\* It is reset for the shot of the unit that it got last, once it has turned, and
\* keeps the boundaries since the last unit it emitted.
InShot(i, g, m) ==
  /\ Lists(marks[i], m, epoch[i])
  /\ \A c \in Boundary : c <= m => c <= epoch[i]
  /\ IF Turning(i) THEN Lists(cur[Worker(i)].bnds, epoch[i], g) ELSE IsEpoch(epoch[i], g)

\* Where it holds nothing.
Emptied(i) ==
  /\ pc[Worker(i)] \notin {"publish", "emit", "put"} => iter[i] = <<>>
  /\ Turning(i) \/ Ending(i) \/ i \notin started => window[i] = <<>>

\* Stage i, with the last unit p that it put into its pending channel.
Inside(i, g, m, p) ==
  Alive(Worker(i)) =>
    /\ InOrder(i, g, m) /\ InShot(i, g, m) /\ Emptied(i)
    /\ IF pc[Worker(i)] = "put"
       THEN m = out[i].unit /\ Follows(out[i], p, i) /\ IsEpoch(epoch[i], m)
       ELSE m = p

\* What the consumer has seen.
LastSeen == IF delivered = <<>> THEN 0 ELSE delivered[Len(delivered)].unit

\* The consumer, the sink actor or a host that pulls, has got the units up to g.
AtTerminal(g) ==
  /\ pc[Sink] \in {"new", "top", "get", "stop"} \/ pc[Main] \in {"idle", "get"} => g = LastSeen
  /\ pc[Sink] = "consume" => g = cur[Sink].unit /\ Follows(cur[Sink], LastSeen, N)
  /\ pc[Main] = "wait" /\ pc[Sink] \in {"finally", "done"} /\ ~cancelled => Over(LastSeen, N)
  /\ pc[Main] = "raise" => \E e \in Envelope : g = e.unit /\ Follows(e, LastSeen, N)

\* The source gives the units one by one.
AtSource(m, s) == next = m + 1 /\ Hand(Source, m, s, 0)

\* No lease is made before its unit.
Fresh(made) == \A i \in 0..N, u \in Unit : refs[<<i, u>>] > 0 => u <= made[i]

\* made, pend, took, sent, got: the last unit that each stage emitted (or the
\* source gave), put into its pending channel, that its courier took, put into
\* its edge, and that the next stage, or the consumer, got.
Mark == 0..NumUnits
InLine(made, pend, took, sent, got) ==
  /\ made \in [0..N -> Mark] /\ sent \in [0..N -> Mark] /\ got \in [1..(N + 1) -> Mark]
  /\ pend \in [Stage -> Mark] /\ took \in [Stage -> Mark]
  /\ AtSource(made[0], sent[0])
  /\ \A c \in Edge : Flows(c, got[c + 1], sent[c], c)
  /\ \A i \in Stage : /\ Inside(i, got[i], made[i], pend[i])
                      /\ Flows(PendingOf(i), took[i], pend[i], i)
                      /\ Hand(Courier(i), took[i], sent[i], i)
  /\ AtTerminal(got[N + 1])
  /\ Fresh(made)

\* The graph is not drained yet.
Running == pc[Main] \notin {"drain", "closed"}

OrderInv ==
  Running => \E made \in [0..N -> Mark], sent \in [0..N -> Mark], got \in [1..(N + 1) -> Mark],
                pend \in [Stage -> Mark], took \in [Stage -> Mark] :
               InLine(made, pend, took, sent, got)

\* A courier that has passed the end of the stream on is through; in "drain" all
\* threads are; a graph whose host pulls was cancelled by a failure only.
QuietInv ==
  /\ \A i \in Stage : EosIn(i) => pc[Courier(i)] \in {"finally", "done"}
  /\ ~Running => \A t \in Thread \ {Main} : pc[t] \in {"new", "done"}
  /\ pc[Main] \in {"idle", "get"} /\ cancelled => failed

-----------------------------------------------------------------------------
(* Chains of messages *)

\* Marks are numbers, and a function of marks can be built and changed.
LEMMA MarksOK ==
  0 \in Mark /\ (\A u \in Unit : u \in Mark /\ u \in Int) /\ \A m \in Mark : m \in Int /\ m >= 0
BY GraphConstants DEF Unit, Mark

\* A message, from the front: its unit and what it follows.
LEMMA ChainHead ==
  ASSUME NEW q \in Seq(Message), q # <<>>, NEW a, NEW b, NEW i, Chain(q, a, b, i)
  PROVE  /\ Head(q) \in Message /\ Tail(q) \in Seq(Message)
         /\ Head(q) # EOS => Follows(Head(q), a, i)
<1>1. 1 \in DOMAIN q /\ Head(q) = q[1] /\ Head(q) \in Message /\ Tail(q) \in Seq(Message)
  OBVIOUS
<1>2. q[1] # EOS => Follows(q[1], a, i)
  BY <1>1 DEF Chain
<1> QED
  BY <1>1, <1>2

\* A unit is taken.
LEMMA ChainTail ==
  ASSUME NEW q \in Seq(Message), q # <<>>, Head(q) # EOS,
         NEW a, NEW b, NEW i, Chain(q, a, b, i)
  PROVE  Chain(Tail(q), Head(q).unit, b, i)
<1> DEFINE r == Tail(q)
<1>1. /\ Len(q) \in Nat /\ Len(q) >= 1 /\ DOMAIN q = 1..Len(q) /\ Head(q) = q[1]
      /\ DOMAIN r = 1..(Len(q) - 1) /\ Len(r) = Len(q) - 1
      /\ \A k \in 1..(Len(q) - 1) : r[k] = q[k + 1]
      /\ r \in Seq(Message)
  OBVIOUS
<1> HIDE DEF r
<1>0. r = <<>> <=> Len(q) = 1
  BY <1>1
<1>2. \A k \in DOMAIN r : r[k] = EOS => k = Len(r)
  BY <1>1 DEF Chain
<1>3. \A k \in DOMAIN r :
        r[k] # EOS => Follows(r[k], IF k = 1 THEN Head(q).unit ELSE r[k - 1].unit, i)
  <2> SUFFICES ASSUME NEW k \in DOMAIN r, r[k] # EOS
               PROVE Follows(r[k], IF k = 1 THEN Head(q).unit ELSE r[k - 1].unit, i)
    OBVIOUS
  <2>1. k + 1 \in DOMAIN q /\ q[k + 1] = r[k] /\ k + 1 # 1 /\ (k + 1) - 1 = k
    BY <1>1
  <2>2. Follows(r[k], q[k].unit, i)
    BY <2>1 DEF Chain
  <2>3. q[k].unit = IF k = 1 THEN Head(q).unit ELSE r[k - 1].unit
    BY <1>1
  <2> QED
    BY <2>2, <2>3
<1>4. b = LastOf(r, Head(q).unit)
  <2>1. b = LastOf(q, a)
    BY DEF Chain
  <2>2. CASE Len(q) = 1
    BY <1>0, <1>1, <2>1, <2>2 DEF LastOf
  <2>3. CASE Len(q) = 2
    BY <1>0, <1>1, <2>1, <2>3 DEF LastOf
  <2>4. CASE Len(q) > 2
    BY <1>0, <1>1, <2>1, <2>4 DEF LastOf
  <2> QED
    BY <1>1, <2>2, <2>3, <2>4
<1> QED
  BY <1>2, <1>3, <1>4 DEF Chain, r

\* The end of the stream is taken.
LEMMA ChainTailEos ==
  ASSUME NEW q \in Seq(Message), q # <<>>, Head(q) = EOS,
         NEW a, NEW b, NEW i, Chain(q, a, b, i)
  PROVE  a = b /\ Tail(q) = <<>> /\ Chain(<<>>, b, b, i)
<1>1. Len(q) \in Nat /\ Len(q) >= 1 /\ 1 \in DOMAIN q /\ q[1] = EOS
  OBVIOUS
<1>2. Len(q) = 1
  BY <1>1 DEF Chain
<1>3. a = b
  BY <1>1, <1>2 DEF Chain, LastOf
<1>4. q = <<q[1]>>
  BY <1>2
<1>5. \A x : Tail(<<x>>) = <<>>
  OBVIOUS
<1>6. Tail(q) = <<>>
  BY <1>4, <1>5
<1>7. Chain(<<>>, b, b, i)
  BY DEF Chain, LastOf
<1> QED
  BY <1>3, <1>6, <1>7

\* A unit that follows is put.
LEMMA ChainPut ==
  ASSUME NEW q \in Seq(Message), \A k \in DOMAIN q : q[k] # EOS, NEW e \in Envelope,
         NEW a, NEW b, NEW i, Chain(q, a, b, i), Follows(e, b, i)
  PROVE  Chain(Append(q, e), a, e.unit, i)
<1> DEFINE r == Append(q, e)
<1>1. /\ Len(q) \in Nat /\ DOMAIN q = 1..Len(q) /\ (q = <<>> <=> Len(q) = 0)
      /\ DOMAIN r = 1..(Len(q) + 1) /\ Len(r) = Len(q) + 1 /\ r[Len(q) + 1] = e /\ r # <<>>
      /\ \A k \in 1..Len(q) : r[k] = q[k]
  OBVIOUS
<1>2. e # EOS
  BY GraphConstants
<1> HIDE DEF r
<1>3. \A k \in DOMAIN r : r[k] # EOS
  BY <1>1, <1>2
<1>4. \A k \in DOMAIN r : Follows(r[k], IF k = 1 THEN a ELSE r[k - 1].unit, i)
  <2> SUFFICES ASSUME NEW k \in DOMAIN r
               PROVE Follows(r[k], IF k = 1 THEN a ELSE r[k - 1].unit, i)
    OBVIOUS
  <2>1. CASE k <= Len(q)
    <3>1. k \in DOMAIN q
      BY <1>1, <2>1
    <3>3. Follows(q[k], IF k = 1 THEN a ELSE q[k - 1].unit, i)
      BY <3>1 DEF Chain
    <3>2. k # 1 => r[k - 1] = q[k - 1]
      BY <1>1, <2>1
    <3> QED
      BY <1>1, <3>1, <3>2, <3>3
  <2>2. CASE k = Len(q) + 1
    <3>1. b = IF k = 1 THEN a ELSE r[k - 1].unit
      BY <1>1, <2>2 DEF Chain, LastOf
    <3> QED
      BY <1>1, <2>2, <3>1
  <2> QED
    BY <1>1, <2>1, <2>2
<1>5. e.unit = LastOf(r, a)
  BY <1>1, <1>2 DEF LastOf
<1> QED
  BY <1>3, <1>4, <1>5 DEF Chain, r

\* The end of the stream is put.
LEMMA ChainEos ==
  ASSUME NEW q \in Seq(Message), \A k \in DOMAIN q : q[k] # EOS,
         NEW a, NEW b, NEW i, Chain(q, a, b, i)
  PROVE  Chain(Append(q, EOS), a, b, i)
<1> DEFINE r == Append(q, EOS)
<1>1. /\ Len(q) \in Nat /\ DOMAIN q = 1..Len(q) /\ (q = <<>> <=> Len(q) = 0)
      /\ DOMAIN r = 1..(Len(q) + 1) /\ Len(r) = Len(q) + 1 /\ r[Len(q) + 1] = EOS /\ r # <<>>
      /\ \A k \in 1..Len(q) : r[k] = q[k]
  OBVIOUS
<1> HIDE DEF r
<1>2. \A k \in DOMAIN r : r[k] = EOS => k = Len(r)
  BY <1>1
<1>3. \A k \in DOMAIN r : r[k] # EOS => Follows(r[k], IF k = 1 THEN a ELSE r[k - 1].unit, i)
  <2> SUFFICES ASSUME NEW k \in DOMAIN r, r[k] # EOS
               PROVE Follows(r[k], IF k = 1 THEN a ELSE r[k - 1].unit, i)
    OBVIOUS
  <2>1. k \in 1..Len(q)
    BY <1>1
  <2>2. Follows(q[k], IF k = 1 THEN a ELSE q[k - 1].unit, i)
    BY <1>1, <2>1 DEF Chain
  <2>3. k # 1 => r[k - 1] = q[k - 1]
    BY <1>1, <2>1
  <2> QED
    BY <1>1, <2>1, <2>2, <2>3
<1>4. b = LastOf(r, a)
  <2>1. CASE Len(q) = 0
    BY <1>1, <2>1 DEF LastOf, Chain
  <2>2. CASE Len(q) > 0
    <3>1. q[Len(q)] # EOS /\ r[Len(r) - 1] = q[Len(q)]
      BY <1>1, <2>2
    <3> QED
      BY <1>1, <2>2, <3>1 DEF LastOf, Chain
  <2> QED
    BY <1>1, <2>1, <2>2
<1> QED
  BY <1>2, <1>3, <1>4 DEF Chain, r

-----------------------------------------------------------------------------
(* What a step leaves alone *)

\* A cancelled run stays cancelled.
Onward == cancelled => cancelled'

\* Nothing happens at the source, inside stage i, at its publisher, at the consumer.
SourceRests == next' = next /\ pc'[Source] = pc[Source] /\ cur'[Source] = cur[Source]

StageRests(i) ==
  /\ pc'[Worker(i)] = pc[Worker(i)] /\ cur'[Worker(i)] = cur[Worker(i)]
  /\ iter'[i] = iter[i] /\ window'[i] = window[i] /\ kind'[i] = kind[i]
  /\ epoch'[i] = epoch[i] /\ marks'[i] = marks[i] /\ out'[i] = out[i]
  /\ i \in started' <=> i \in started

CourierRests(i) == pc'[Courier(i)] = pc[Courier(i)] /\ cur'[Courier(i)] = cur[Courier(i)]

TerminalRests ==
  /\ pc'[Sink] = pc[Sink] /\ pc'[Main] = pc[Main] /\ cur'[Sink] = cur[Sink]
  /\ delivered' = delivered

\* No lease comes to life.
LeasesRest == \A l \in Lease : refs'[l] > 0 => refs[l] > 0

\* A channel, a hand, a stage and the terminal that rest.
LEMMA FlowRests ==
  ASSUME Onward, NEW c \in Chan, chan'[c] = chan[c], NEW a, NEW b, NEW i, Flows(c, a, b, i)
  PROVE  Flows(c, a, b, i)'
BY DEF Onward, Flows, EosIn, Chain

\* An actor that rests keeps its hand.
LEMMA HandRests ==
  ASSUME Onward, NEW t \in Thread, pc'[t] = pc[t], cur'[t] = cur[t],
         NEW m, NEW s, NEW i, Hand(t, m, s, i)
  PROVE  Hand(t, m, s, i)'
BY DEF Onward, Hand, Alive, Follows, Over

\* A hand that was put is empty: what was taken last was put last.
LEMMA HandEmpties ==
  ASSUME NEW t \in Thread, ~Alive(t)', NEW m, NEW s, NEW i
  PROVE  Hand(t, m, s, i)'
BY DEF Hand

\* A stage that rests stays as it is inside.
LEMMA StageRestsInside ==
  ASSUME Onward, NEW i \in Stage, StageRests(i), NEW g, NEW m, NEW p, Inside(i, g, m, p)
  PROVE  Inside(i, g, m, p)'
<1> USE DEF Onward, StageRests
<1>1. /\ Alive(Worker(i))' <=> Alive(Worker(i))
      /\ Turning(i)' <=> Turning(i)
      /\ Unseen(i)' <=> Unseen(i)
      /\ Ending(i)' <=> Ending(i)
      /\ Held(i)' = Held(i)
  BY DEF Alive, Turning, Unseen, Ending, Flushing, Held
<1>2. InOrder(i, g, m) => InOrder(i, g, m)'
  BY <1>1 DEF InOrder, Increasing, IsEpoch, Over
<1>3. InShot(i, g, m) => InShot(i, g, m)'
  BY <1>1 DEF InShot, Lists, IsEpoch
<1>4. Emptied(i) => Emptied(i)'
  BY <1>1 DEF Emptied
<1> QED
  BY <1>1, <1>2, <1>3, <1>4 DEF Inside, Follows, Lists, IsEpoch

\* A consumer that rests has got what it had got.
LEMMA TerminalRestsThere ==
  ASSUME Onward, TerminalRests, NEW g, AtTerminal(g)
  PROVE  AtTerminal(g)'
BY DEF Onward, TerminalRests, AtTerminal, LastSeen, Follows, Lists, Over

\* Where no lease is made, none is early.
LEMMA FreshRests ==
  ASSUME LeasesRest, NEW made, Fresh(made)
  PROVE  Fresh(made)'
BY DEF LeasesRest, Fresh, Lease

-----------------------------------------------------------------------------
(* A message comes or goes *)

\* A unit that follows is put.
LEMMA UnitPut ==
  ASSUME ChannelsOK, Onward, NEW c \in Chan, ~EosIn(c), NEW e \in Envelope, Enqueue(c, e),
         NEW a, NEW b, NEW i, Flows(c, a, b, i), Follows(e, b, i)
  PROVE  Flows(c, a, e.unit, i)'
<1>1. chan[c] \in Seq(Message) /\ chan'[c] = Append(chan[c], e)
  BY DEF ChannelsOK, Enqueue
<1>2. \A k \in DOMAIN chan[c] : chan[c][k] # EOS
  BY DEF EosIn
<1>3. Chain(chan'[c], a, e.unit, i)
  BY <1>1, <1>2, ChainPut DEF Flows
<1>4. e # EOS
  BY GraphConstants
<1>5. ~EosIn(c)'
  BY <1>4, EosEnqueue
<1> QED
  BY <1>3, <1>5 DEF Flows, Chain

\* The end of the stream is put.
LEMMA EosPut ==
  ASSUME ChannelsOK, Onward, NEW c \in Chan, ~EosIn(c), Enqueue(c, EOS),
         NEW a, NEW b, NEW i, Flows(c, a, b, i), ~cancelled => Over(b, i)
  PROVE  Flows(c, a, b, i)'
<1>1. chan[c] \in Seq(Message) /\ chan'[c] = Append(chan[c], EOS)
  BY DEF ChannelsOK, Enqueue
<1>2. \A k \in DOMAIN chan[c] : chan[c][k] # EOS
  BY DEF EosIn
<1>3. Chain(chan'[c], a, b, i)
  BY <1>1, <1>2, ChainEos DEF Flows
<1> QED
  BY <1>3 DEF Onward, Flows, Chain, Over

\* A unit is taken: it follows.
LEMMA UnitTaken ==
  ASSUME ChannelsOK, Onward, NEW c \in Chan, HasItem(c), Dequeue(c),
         NEW e, e = Head(chan[c]), e # EOS, NEW a, NEW b, NEW i, Flows(c, a, b, i)
  PROVE  e \in Envelope /\ Follows(e, a, i) /\ Flows(c, e.unit, b, i)'
<1>1. chan[c] \in Seq(Message) /\ chan[c] # <<>> /\ chan'[c] = Tail(chan[c])
  BY DEF ChannelsOK, HasItem, Dequeue
<1>2. e \in Message /\ Follows(e, a, i)
  BY <1>1, ChainHead DEF Flows
<1>3. Chain(chan'[c], e.unit, b, i)
  BY <1>1, ChainTail DEF Flows
<1>4. EosIn(c)' => EosIn(c)
  BY EosDequeue
<1> QED
  BY <1>2, <1>3, <1>4 DEF Onward, Message, Flows, Chain, Over

\* The end of the stream is taken: nothing is missing before it.
LEMMA EosTaken ==
  ASSUME ChannelsOK, Onward, NEW c \in Chan, HasItem(c), Head(chan[c]) = EOS, Dequeue(c),
         NEW a, NEW b, NEW i, Flows(c, a, b, i)
  PROVE  /\ a = b /\ (~cancelled => Over(b, i)) /\ chan'[c] = <<>>
         /\ Flows(c, a, b, i)'
<1>1. chan[c] \in Seq(Message) /\ chan[c] # <<>> /\ chan'[c] = Tail(chan[c])
  BY DEF ChannelsOK, HasItem, Dequeue
<1>2. a = b /\ chan'[c] = <<>> /\ Chain(chan'[c], b, b, i)
  <2>1. Chain(chan[c], a, b, i)
    BY DEF Flows
  <2>2. a = b /\ Tail(chan[c]) = <<>> /\ Chain(<<>>, b, b, i)
    BY <1>1, <2>1, ChainTailEos
  <2> QED
    BY <1>1, <2>2
<1>3. EosIn(c)
  BY EosHead
<1>4. ~EosIn(c)'
  BY <1>2 DEF EosIn
<1> QED
  BY <1>2, <1>3, <1>4 DEF Flows, Chain

-----------------------------------------------------------------------------
(* The line after a step of one actor *)

\* The source moves: its mark, its hand, and its edge; the rest of the line rests.
LEMMA AfterSource ==
  ASSUME NEW made, NEW pend, NEW took, NEW sent, NEW got, InLine(made, pend, took, sent, got),
         Onward, \A i \in Stage : StageRests(i) /\ CourierRests(i), TerminalRests,
         \A c \in Chan \ {0} : chan'[c] = chan[c],
         NEW m \in Mark, NEW s \in Mark,
         AtSource(m, s)', Flows(0, got[1], s, 0)', Fresh([made EXCEPT ![0] = m])'
  PROVE  InLine([made EXCEPT ![0] = m], pend, took, [sent EXCEPT ![0] = s], got)'
<1> DEFINE mm == [made EXCEPT ![0] = m]
           ss == [sent EXCEPT ![0] = s]
<1>0. 0 \in 0..N /\ Stage \subseteq 0..N /\ \A i \in Stage : i # 0
  BY GraphConstants DEF Stage
<1>1. /\ mm \in [0..N -> Mark] /\ ss \in [0..N -> Mark] /\ got \in [1..(N + 1) -> Mark]
      /\ pend \in [Stage -> Mark] /\ took \in [Stage -> Mark]
      /\ mm[0] = m /\ ss[0] = s /\ \A i \in 0..N : i # 0 => mm[i] = made[i] /\ ss[i] = sent[i]
  BY <1>0 DEF InLine
<1>2. \A c \in Edge : Flows(c, got[c + 1], ss[c], c)'
  <2> SUFFICES ASSUME NEW c \in Edge PROVE Flows(c, got[c + 1], ss[c], c)'
    OBVIOUS
  <2>1. CASE c = 0
    BY <1>1, <2>1
  <2>2. CASE c # 0
    <3>1. c \in Chan /\ chan'[c] = chan[c] /\ ss[c] = sent[c]
      BY <1>1, <2>2, ChannelPlaces DEF Edge
    <3>2. Flows(c, got[c + 1], sent[c], c)
      BY DEF InLine
    <3> QED
      BY <3>1, <3>2, FlowRests
  <2> QED
    BY <2>1, <2>2
<1>3. \A i \in Stage : /\ Inside(i, got[i], mm[i], pend[i])'
                       /\ Flows(PendingOf(i), took[i], pend[i], i)'
                       /\ Hand(Courier(i), took[i], ss[i], i)'
  <2> SUFFICES ASSUME NEW i \in Stage
               PROVE /\ Inside(i, got[i], made[i], pend[i])'
                     /\ Flows(PendingOf(i), took[i], pend[i], i)'
                     /\ Hand(Courier(i), took[i], sent[i], i)'
    BY <1>0, <1>1
  <2>1. /\ Inside(i, got[i], made[i], pend[i]) /\ Flows(PendingOf(i), took[i], pend[i], i)
        /\ Hand(Courier(i), took[i], sent[i], i)
    BY DEF InLine
  <2>2. PendingOf(i) \in Chan /\ PendingOf(i) # 0 /\ Courier(i) \in Thread
    BY ChannelPlaces, Threads
  <2>3. Inside(i, got[i], made[i], pend[i])'
    BY <2>1, StageRestsInside
  <2>4. Flows(PendingOf(i), took[i], pend[i], i)'
    BY <2>1, <2>2, FlowRests
  <2>5. Hand(Courier(i), took[i], sent[i], i)'
    BY <2>1, <2>2, HandRests DEF CourierRests
  <2> QED
    BY <2>3, <2>4, <2>5
<1>4. AtTerminal(got[N + 1])'
  BY TerminalRestsThere DEF InLine
<1> HIDE DEF mm, ss
<1>5. InLine(mm, pend, took, ss, got)'
  BY <1>1, <1>2, <1>3, <1>4 DEF InLine, mm
<1> QED
  BY <1>5 DEF mm, ss

\* Stage i moves: the edge before it, its inside, and its pending channel.
LEMMA AfterStage ==
  ASSUME NEW made, NEW pend, NEW took, NEW sent, NEW got, InLine(made, pend, took, sent, got),
         NEW i \in Stage, Onward, SourceRests, \A j \in Stage : j # i => StageRests(j),
         \A j \in Stage : CourierRests(j), TerminalRests,
         \A c \in Chan \ {i - 1, PendingOf(i)} : chan'[c] = chan[c],
         NEW g \in Mark, NEW m \in Mark, NEW p \in Mark,
         Inside(i, g, m, p)', Flows(i - 1, g, sent[i - 1], i - 1)',
         Flows(PendingOf(i), took[i], p, i)', Fresh([made EXCEPT ![i] = m])'
  PROVE  InLine([made EXCEPT ![i] = m], [pend EXCEPT ![i] = p], took, sent,
                [got EXCEPT ![i] = g])'
<1> DEFINE mm == [made EXCEPT ![i] = m]
           pp == [pend EXCEPT ![i] = p]
           gg == [got EXCEPT ![i] = g]
<1>0. /\ Stage \subseteq 0..N /\ i # 0 /\ i # N + 1 /\ 0 \in 0..N /\ N + 1 \in 1..(N + 1)
      /\ \A c \in Edge : c + 1 \in 1..(N + 1) /\ (c + 1 = i <=> c = i - 1)
      /\ Stage \subseteq 1..(N + 1)
  BY GraphConstants DEF Stage, Edge
<1>1. /\ mm \in [0..N -> Mark] /\ sent \in [0..N -> Mark] /\ gg \in [1..(N + 1) -> Mark]
      /\ pp \in [Stage -> Mark] /\ took \in [Stage -> Mark]
      /\ mm[i] = m /\ \A j \in 0..N : j # i => mm[j] = made[j]
      /\ pp[i] = p /\ \A j \in Stage : j # i => pp[j] = pend[j]
      /\ gg[i] = g /\ \A j \in 1..(N + 1) : j # i => gg[j] = got[j]
  BY <1>0 DEF InLine
<1>2. \A c \in Edge : Flows(c, gg[c + 1], sent[c], c)'
  <2> SUFFICES ASSUME NEW c \in Edge PROVE Flows(c, gg[c + 1], sent[c], c)'
    OBVIOUS
  <2>1. CASE c = i - 1
    BY <1>0, <1>1, <2>1
  <2>2. CASE c # i - 1
    <3>1. c \in Chan /\ chan'[c] = chan[c] /\ gg[c + 1] = got[c + 1]
      BY <1>0, <1>1, <2>2, ChannelPlaces
    <3>2. Flows(c, got[c + 1], sent[c], c)
      BY DEF InLine
    <3>3. Flows(c, got[c + 1], sent[c], c)'
      BY <3>1, <3>2, FlowRests
    <3> QED
      BY <3>1, <3>3
  <2> QED
    BY <2>1, <2>2
<1>3. \A j \in Stage : /\ Inside(j, gg[j], mm[j], pp[j])'
                       /\ Flows(PendingOf(j), took[j], pp[j], j)'
                       /\ Hand(Courier(j), took[j], sent[j], j)'
  <2> SUFFICES ASSUME NEW j \in Stage
               PROVE /\ Inside(j, gg[j], mm[j], pp[j])'
                     /\ Flows(PendingOf(j), took[j], pp[j], j)'
                     /\ Hand(Courier(j), took[j], sent[j], j)'
    OBVIOUS
  <2>1. /\ Inside(j, got[j], made[j], pend[j]) /\ Flows(PendingOf(j), took[j], pend[j], j)
        /\ Hand(Courier(j), took[j], sent[j], j)
    BY DEF InLine
  <2>2. Courier(j) \in Thread
    BY Threads
  <2>3. Hand(Courier(j), took[j], sent[j], j)'
    BY <2>1, <2>2, HandRests DEF CourierRests
  <2>4. CASE j = i
    BY <1>1, <2>3, <2>4
  <2>5. CASE j # i
    <3>1. gg[j] = got[j] /\ mm[j] = made[j] /\ pp[j] = pend[j]
      BY <1>0, <1>1, <2>5
    <3>2. PendingOf(j) \in Chan /\ chan'[PendingOf(j)] = chan[PendingOf(j)]
      BY <2>5, ChannelPlaces
    <3>3. Inside(j, got[j], made[j], pend[j])'
      BY <2>1, <2>5, StageRestsInside
    <3>4. Flows(PendingOf(j), took[j], pend[j], j)'
      BY <2>1, <3>2, FlowRests
    <3> QED
      BY <2>3, <3>1, <3>3, <3>4
  <2> QED
    BY <2>4, <2>5
<1>4. AtTerminal(gg[N + 1])'
  <2>1. gg[N + 1] = got[N + 1]
    BY <1>0, <1>1
  <2>2. AtTerminal(got[N + 1])'
    BY TerminalRestsThere DEF InLine
  <2> QED
    BY <2>1, <2>2
<1>5. AtSource(mm[0], sent[0])'
  <2>1. mm[0] = made[0]
    BY <1>0, <1>1
  <2>2. AtSource(made[0], sent[0])'
    BY HandRests, Threads DEF InLine, AtSource, SourceRests
  <2> QED
    BY <2>1, <2>2
<1> HIDE DEF mm, pp, gg
<1>6. InLine(mm, pp, took, sent, gg)'
  BY <1>1, <1>2, <1>3, <1>4, <1>5 DEF InLine, mm
<1> QED
  BY <1>6 DEF mm, pp, gg

\* The publisher of stage i moves: its pending channel, its hand, and its edge.
LEMMA AfterCourier ==
  ASSUME NEW made, NEW pend, NEW took, NEW sent, NEW got, InLine(made, pend, took, sent, got),
         NEW i \in Stage, Onward, SourceRests, \A j \in Stage : StageRests(j),
         \A j \in Stage : j # i => CourierRests(j), TerminalRests,
         \A c \in Chan \ {i, PendingOf(i)} : chan'[c] = chan[c],
         NEW t \in Mark, NEW s \in Mark,
         Hand(Courier(i), t, s, i)', Flows(i, got[i + 1], s, i)',
         Flows(PendingOf(i), t, pend[i], i)', Fresh(made)'
  PROVE  InLine(made, pend, [took EXCEPT ![i] = t], [sent EXCEPT ![i] = s], got)'
<1> DEFINE tt == [took EXCEPT ![i] = t]
           ss == [sent EXCEPT ![i] = s]
<1>0. Stage \subseteq 0..N /\ i # 0 /\ 0 \in 0..N /\ Edge = 0..N
  BY GraphConstants DEF Stage, Edge
<1>1. /\ made \in [0..N -> Mark] /\ ss \in [0..N -> Mark] /\ got \in [1..(N + 1) -> Mark]
      /\ pend \in [Stage -> Mark] /\ tt \in [Stage -> Mark]
      /\ ss[i] = s /\ \A j \in 0..N : j # i => ss[j] = sent[j]
      /\ tt[i] = t /\ \A j \in Stage : j # i => tt[j] = took[j]
  BY <1>0 DEF InLine
<1>2. \A c \in Edge : Flows(c, got[c + 1], ss[c], c)'
  <2> SUFFICES ASSUME NEW c \in Edge PROVE Flows(c, got[c + 1], ss[c], c)'
    OBVIOUS
  <2>1. CASE c = i
    BY <1>1, <2>1
  <2>2. CASE c # i
    <3>1. c \in Chan /\ chan'[c] = chan[c] /\ ss[c] = sent[c]
      BY <1>0, <1>1, <2>2, ChannelPlaces
    <3>2. Flows(c, got[c + 1], sent[c], c)
      BY DEF InLine
    <3>3. Flows(c, got[c + 1], sent[c], c)'
      BY <3>1, <3>2, FlowRests
    <3> QED
      BY <3>1, <3>3
  <2> QED
    BY <2>1, <2>2
<1>3. \A j \in Stage : /\ Inside(j, got[j], made[j], pend[j])'
                       /\ Flows(PendingOf(j), tt[j], pend[j], j)'
                       /\ Hand(Courier(j), tt[j], ss[j], j)'
  <2> SUFFICES ASSUME NEW j \in Stage
               PROVE /\ Inside(j, got[j], made[j], pend[j])'
                     /\ Flows(PendingOf(j), tt[j], pend[j], j)'
                     /\ Hand(Courier(j), tt[j], ss[j], j)'
    OBVIOUS
  <2>1. /\ Inside(j, got[j], made[j], pend[j]) /\ Flows(PendingOf(j), took[j], pend[j], j)
        /\ Hand(Courier(j), took[j], sent[j], j)
    BY DEF InLine
  <2>2. Courier(j) \in Thread
    BY Threads
  <2>3. Inside(j, got[j], made[j], pend[j])'
    BY <2>1, StageRestsInside
  <2>4. CASE j = i
    BY <1>1, <2>3, <2>4
  <2>5. CASE j # i
    <3>1. tt[j] = took[j] /\ ss[j] = sent[j]
      BY <1>0, <1>1, <2>5
    <3>2. PendingOf(j) \in Chan /\ chan'[PendingOf(j)] = chan[PendingOf(j)]
      BY <2>5, ChannelPlaces
    <3>3. Hand(Courier(j), took[j], sent[j], j)'
      BY <2>1, <2>2, <2>5, HandRests DEF CourierRests
    <3>4. Flows(PendingOf(j), took[j], pend[j], j)'
      BY <2>1, <3>2, FlowRests
    <3> QED
      BY <2>3, <3>1, <3>3, <3>4
  <2> QED
    BY <2>4, <2>5
<1>4. AtTerminal(got[N + 1])'
  BY TerminalRestsThere DEF InLine
<1>5. AtSource(made[0], ss[0])'
  <2>1. ss[0] = sent[0]
    BY <1>0, <1>1
  <2>2. AtSource(made[0], sent[0])'
    BY HandRests, Threads DEF InLine, AtSource, SourceRests
  <2> QED
    BY <2>1, <2>2
<1> HIDE DEF tt, ss
<1>6. InLine(made, pend, tt, ss, got)'
  BY <1>1, <1>2, <1>3, <1>4, <1>5 DEF InLine
<1> QED
  BY <1>6 DEF tt, ss

\* The consumer, or a step that only moves the calling thread.
LEMMA AfterTerminal ==
  ASSUME NEW made, NEW pend, NEW took, NEW sent, NEW got, InLine(made, pend, took, sent, got),
         Onward, SourceRests, \A i \in Stage : StageRests(i) /\ CourierRests(i),
         \A c \in Chan \ {N} : chan'[c] = chan[c], LeasesRest,
         NEW g \in Mark, AtTerminal(g)', Flows(N, g, sent[N], N)'
  PROVE  InLine(made, pend, took, sent, [got EXCEPT ![N + 1] = g])'
<1> DEFINE gg == [got EXCEPT ![N + 1] = g]
<1>0. /\ Stage \subseteq 1..(N + 1) /\ N + 1 \notin Stage /\ N + 1 \in 1..(N + 1)
      /\ \A c \in Edge : c + 1 \in 1..(N + 1) /\ (c + 1 = N + 1 <=> c = N)
  BY GraphConstants DEF Stage, Edge
<1>1. /\ made \in [0..N -> Mark] /\ sent \in [0..N -> Mark] /\ gg \in [1..(N + 1) -> Mark]
      /\ pend \in [Stage -> Mark] /\ took \in [Stage -> Mark]
      /\ gg[N + 1] = g /\ \A j \in 1..(N + 1) : j # N + 1 => gg[j] = got[j]
  BY <1>0 DEF InLine
<1>2. \A c \in Edge : Flows(c, gg[c + 1], sent[c], c)'
  <2> SUFFICES ASSUME NEW c \in Edge PROVE Flows(c, gg[c + 1], sent[c], c)'
    OBVIOUS
  <2>1. CASE c = N
    BY <1>0, <1>1, <2>1
  <2>2. CASE c # N
    <3>1. c \in Chan /\ chan'[c] = chan[c] /\ gg[c + 1] = got[c + 1]
      BY <1>0, <1>1, <2>2, ChannelPlaces
    <3>2. Flows(c, got[c + 1], sent[c], c)
      BY DEF InLine
    <3>3. Flows(c, got[c + 1], sent[c], c)'
      BY <3>1, <3>2, FlowRests
    <3> QED
      BY <3>1, <3>3
  <2> QED
    BY <2>1, <2>2
<1>3. \A j \in Stage : /\ Inside(j, gg[j], made[j], pend[j])'
                       /\ Flows(PendingOf(j), took[j], pend[j], j)'
                       /\ Hand(Courier(j), took[j], sent[j], j)'
  <2> SUFFICES ASSUME NEW j \in Stage
               PROVE /\ Inside(j, got[j], made[j], pend[j])'
                     /\ Flows(PendingOf(j), took[j], pend[j], j)'
                     /\ Hand(Courier(j), took[j], sent[j], j)'
    BY <1>0, <1>1
  <2>1. /\ Inside(j, got[j], made[j], pend[j]) /\ Flows(PendingOf(j), took[j], pend[j], j)
        /\ Hand(Courier(j), took[j], sent[j], j)
    BY DEF InLine
  <2>2. /\ Courier(j) \in Thread /\ PendingOf(j) \in Chan
        /\ chan'[PendingOf(j)] = chan[PendingOf(j)]
    BY Threads, ChannelPlaces
  <2>3. Inside(j, got[j], made[j], pend[j])'
    BY <2>1, StageRestsInside
  <2>4. Flows(PendingOf(j), took[j], pend[j], j)'
    BY <2>1, <2>2, FlowRests
  <2>5. Hand(Courier(j), took[j], sent[j], j)'
    BY <2>1, <2>2, HandRests DEF CourierRests
  <2> QED
    BY <2>3, <2>4, <2>5
<1>4. AtSource(made[0], sent[0])'
  BY HandRests, Threads DEF InLine, AtSource, SourceRests
<1>5. Fresh(made)'
  BY FreshRests DEF InLine
<1> HIDE DEF gg
<1>6. InLine(made, pend, took, sent, gg)'
  BY <1>1, <1>2, <1>3, <1>4, <1>5 DEF InLine
<1> QED
  BY <1>6 DEF gg

-----------------------------------------------------------------------------
(* The source actor *)

\* Giving up a handle makes no lease.
LEMMA ReleaseRests ==
  ASSUME LeasesOK, NEW l \in Lease, Release(l) PROVE LeasesRest
BY DEF LeasesOK, Release, LeasesRest

\* A later mark is as fresh.
LEMMA FreshGrows ==
  ASSUME NEW made \in [0..N -> Mark], NEW i \in 0..N, NEW m \in Mark, made[i] <= m,
         Fresh(made), LeasesRest
  PROVE  Fresh([made EXCEPT ![i] = m])'
<1> DEFINE mm == [made EXCEPT ![i] = m]
<1>1. \A j \in 0..N : made[j] \in Int /\ mm[j] \in Int /\ made[j] <= mm[j]
  <2>1. \A j \in 0..N : made[j] \in Mark /\ mm[j] = IF j = i THEN m ELSE made[j]
    OBVIOUS
  <2> HIDE DEF mm
  <2> QED
    BY <2>1, MarksOK
<1>2. Fresh(made)'
  BY FreshRests
<1> HIDE DEF mm
<1>3. Fresh(mm)'
  <2> SUFFICES ASSUME NEW j \in 0..N, NEW u \in Unit, refs'[<<j, u>>] > 0
               PROVE u <= mm[j]
    BY DEF Fresh
  <2>1. u <= made[j] /\ u \in Int
    BY <1>2, MarksOK DEF Fresh
  <2> QED
    BY <1>1, <2>1
<1> QED
  BY <1>3 DEF mm

\* What the source gives follows what it gave.
LEMMA SourceFollows ==
  ASSUME NEW u \in Unit, NEW e \in Envelope, e.unit = u, e.bnds = SourceBnds(u)
  PROVE  Follows(e, u - 1, 0)
<1>1. DroppedBy(0) = {}
  BY DEF DroppedBy
<1>2. u \in Int /\ u >= 1 /\ \A c \in Unit : c \in Int
  BY DEF Unit
<1>3. Lists(SourceBnds(u), u - 1, u)
  <2>1. Boundary \subseteq Int
    BY GraphConstants DEF Boundary, Unit
  <2>2. {c \in Boundary : u - 1 < c /\ c <= u} = IF u = 1 \/ u \in Cuts THEN {u} ELSE {}
    BY <1>2, <2>1 DEF Boundary
  <2>3. CASE u = 1 \/ u \in Cuts
    <3>1. SourceBnds(u) = <<u>>
      BY <2>3 DEF SourceBnds
    <3>2. {<<u>>[k] : k \in DOMAIN <<u>>} = {u} /\ \A k \in DOMAIN <<u>> : k = 1
      OBVIOUS
    <3> QED
      BY <2>2, <2>3, <3>1, <3>2 DEF Lists
  <2>4. CASE ~(u = 1 \/ u \in Cuts)
    <3>1. SourceBnds(u) = <<>>
      BY <2>4 DEF SourceBnds
    <3> QED
      BY <2>2, <2>4, <3>1 DEF Lists
  <2> QED
    BY <2>3, <2>4
<1> QED
  BY <1>1, <1>2, <1>3 DEF Follows

\* What a step of the source leaves alone.
LEMMA SourceMoves ==
  ASSUME TypeInv, SourceStep
  PROVE  /\ Onward /\ \A i \in Stage : StageRests(i) /\ CourierRests(i)
         /\ TerminalRests /\ \A c \in Chan \ {0} : chan'[c] = chan[c]
<1> USE DEF TypeInv, TypeOK, ThreadsOK, ChannelsOK, Onward, StageRests, CourierRests,
            TerminalRests
<1>1. CASE SourceNext
  BY <1>1, Threads DEF SourceNext, Goto, supervision, stageState, result
<1>2. CASE SourceExhausted
  BY <1>2, Threads DEF SourceExhausted, Goto, supervision, stageState, result
<1>3. CASE SourcePut
  BY <1>3, Threads DEF SourcePut, Goto, Enqueue, supervision, stageState, result
<1>4. CASE SourceRefused
  BY <1>4, Threads DEF SourceRefused, Move, Goto, others, supervision, stageState, result
<1>5. CASE SourceFails
  BY <1>5, Threads DEF SourceFails, Fail, Goto, stageState, result
<1>6. CASE CloseNext(Source)
  BY <1>6, Threads DEF CloseNext, Goto, stageState, result
<1>7. CASE Finally(Source)
  BY <1>7, Threads DEF Finally, Goto, supervision, stageState, result
<1> QED
  BY <1>1, <1>2, <1>3, <1>4, <1>5, <1>6, <1>7 DEF SourceStep

\* The line after a step of the source.
LEMMA SourceInLine ==
  ASSUME TypeInv, OutcomeInv, SourceStep,
         NEW made, NEW pend, NEW took, NEW sent, NEW got, InLine(made, pend, took, sent, got)
  PROVE  \E m, s \in Mark :
           InLine([made EXCEPT ![0] = m], pend, took, [sent EXCEPT ![0] = s], got)'
<1>0. /\ ChannelsOK /\ ThreadsOK /\ LeasesOK /\ Labels /\ InHand /\ Source \in Thread /\ 0 \in Chan
      /\ 0 \in 0..N /\ (EosIn(0) => Spent(Source))
  BY Threads, ChannelPlaces DEF TypeInv, TypeOK, OutcomeInv, EosQueued, UpstreamSpent, Edge
<1>1. /\ made \in [0..N -> Mark] /\ made[0] \in Mark /\ sent[0] \in Mark
      /\ next = made[0] + 1 /\ Hand(Source, made[0], sent[0], 0) /\ Fresh(made)
      /\ Flows(0, got[1], sent[0], 0) /\ made[0] \in Int /\ sent[0] \in Int
      /\ next \in Int /\ next <= NumUnits + 1 /\ NumUnits \in Nat
  <2>1. Flows(0, got[0 + 1], sent[0], 0)
    BY ChannelPlaces DEF InLine
  <2>2. /\ made \in [0..N -> Mark] /\ sent \in [0..N -> Mark] /\ Fresh(made)
        /\ next = made[0] + 1 /\ Hand(Source, made[0], sent[0], 0)
    BY DEF InLine, AtSource
  <2>3. made[0] \in Mark /\ sent[0] \in Mark
    BY <1>0, <2>2
  <2>4. next \in Int /\ next <= NumUnits + 1 /\ NumUnits \in Nat
    BY <1>0, GraphConstants DEF ThreadsOK
  <2> QED
    BY <2>1, <2>2, <2>3, <2>4, MarksOK
<1>2. /\ Onward /\ \A i \in Stage : StageRests(i) /\ CourierRests(i)
      /\ TerminalRests /\ \A c \in Chan \ {0} : chan'[c] = chan[c]
  BY SourceMoves
<1>3. SUFFICES \E m, s \in Mark : /\ AtSource(m, s)' /\ Flows(0, got[1], s, 0)'
                                  /\ made[0] <= m /\ Fresh([made EXCEPT ![0] = m])'
  BY <1>2, AfterSource
<1>4. LeasesRest => \A m \in Mark : made[0] <= m => Fresh([made EXCEPT ![0] = m])'
  <2> SUFFICES ASSUME LeasesRest, NEW m \in Mark, made[0] <= m
               PROVE Fresh([made EXCEPT ![0] = m])'
    OBVIOUS
  <2> QED
    BY <1>0, <1>1, FreshGrows
<1>5. refs' = refs => LeasesRest
  BY DEF LeasesRest
<1>6. chan' = chan => Flows(0, got[1], sent[0], 0)'
  BY <1>0, <1>1, <1>2, FlowRests
<1>7. next' = next /\ ~Alive(Source)' /\ chan' = chan /\ LeasesRest
      => \E m, s \in Mark : /\ AtSource(m, s)' /\ Flows(0, got[1], s, 0)'
                            /\ made[0] <= m /\ Fresh([made EXCEPT ![0] = m])'
  BY <1>0, <1>1, <1>4, <1>6, HandEmpties DEF AtSource
<1>8. CASE SourceNext
  <2>1. PICK m : m = next
    OBVIOUS
  <2>2. m \in Mark /\ m \in Unit /\ made[0] <= m /\ m = made[0] + 1 /\ next' = m + 1
    BY <1>1, <1>8, <2>1 DEF SourceNext, Mark, Unit
  <2>3. chan' = chan /\ pc[Source] = "next"
    BY <1>8 DEF SourceNext
  <2>4. CASE cancelled
    <3>1. refs' = refs /\ ~Alive(Source)'
      BY <1>0, <1>8, <2>4 DEF SourceNext, Goto, ThreadsOK, Alive
    <3>2. AtSource(m, sent[0])'
      BY <1>0, <2>2, <3>1, HandEmpties DEF AtSource
    <3> QED
      BY <1>1, <1>4, <1>5, <1>6, <2>2, <2>3, <3>1, <3>2
  <2>5. CASE ~cancelled
    <3>1. PICK e : e = Wrap(m, SourceBnds(m), <<0, m>>)
      OBVIOUS
    <3>2. /\ pc'[Source] = "put" /\ cur'[Source] = e /\ AddHandle(<<0, m>>)
      BY <1>0, <1>8, <2>1, <2>5, <3>1 DEF SourceNext, Goto, ThreadsOK
    <3>3. e.unit = m /\ e.bnds = SourceBnds(m) /\ e \in Envelope /\ e # EOS
      <4>1. SourceBnds(m) \in Seq(Unit)
        BY <2>2 DEF SourceBnds
      <4>2. <<0, m>> \in Lease
        BY <1>0, <2>2 DEF Lease
      <4>3. e = [unit |-> m, bnds |-> SourceBnds(m), lease |-> <<0, m>>]
        BY <3>1 DEF Wrap
      <4>4. e \in Envelope
        BY <2>2, <4>1, <4>2, <4>3 DEF Envelope
      <4> QED
        BY <4>3, <4>4, GraphConstants
    <3>4. made[0] = sent[0]
      BY <1>1, <2>3 DEF Hand, Alive
    <3>5. Follows(e, m - 1, 0) /\ m - 1 = sent[0]
      BY <1>1, <2>2, <3>3, <3>4, SourceFollows
    <3>6. AtSource(m, sent[0])'
      BY <2>2, <3>2, <3>3, <3>5 DEF AtSource, Hand, Alive, Follows
    <3>7. Fresh([made EXCEPT ![0] = m])'
      <4> DEFINE mm == [made EXCEPT ![0] = m]
      <4>0. \A j \in 0..N : made[j] \in Mark /\ mm[j] = IF j = 0 THEN m ELSE made[j]
        BY <1>1
      <4> HIDE DEF mm
      <4>1. \A j \in 0..N : made[j] \in Int /\ mm[j] \in Int /\ made[j] <= mm[j]
        <5>1. m \in Int /\ made[0] <= m
          BY <2>2, MarksOK
        <5> QED
          BY <4>0, <5>1, MarksOK
      <4>2. mm[0] = m
        BY <1>0, <4>0
      <4>3. Fresh(mm)'
        <5> SUFFICES ASSUME NEW j \in 0..N, NEW u \in Unit, refs'[<<j, u>>] > 0
                     PROVE u <= mm[j]
          BY DEF Fresh
        <5>1. CASE j = 0 /\ u = m
          BY <2>2, <4>1, <4>2, <5>1, MarksOK
        <5>2. CASE ~(j = 0 /\ u = m)
          <6>1. <<j, u>> \in Lease /\ <<j, u>> # <<0, m>>
            BY <5>2 DEF Lease
          <6>2. refs[<<j, u>>] > 0
            BY <1>0, <3>2, <6>1 DEF AddHandle, LeasesOK
          <6>3. u <= made[j] /\ u \in Int
            BY <1>1, <6>2, MarksOK DEF Fresh
          <6> QED
            BY <4>1, <6>3
        <5> QED
          BY <5>1, <5>2
      <4> QED
        BY <4>3 DEF mm
    <3> QED
      BY <1>1, <1>6, <2>2, <2>3, <3>6, <3>7
  <2> QED
    BY <2>4, <2>5
<1>9. CASE SourceExhausted
  <2>1. /\ chan' = chan /\ refs' = refs /\ next' = next /\ next > NumUnits /\ pc[Source] = "next"
        /\ pc'[Source] = "put" /\ cur'[Source] = EOS
    BY <1>0, <1>9 DEF SourceExhausted, Goto, ThreadsOK
  <2>2. made[0] = sent[0]
    BY <1>1, <2>1 DEF Hand, Alive
  <2>3. Over(made[0], 0)
    BY <1>1, <2>1 DEF Over, Unit
  <2>4. AtSource(made[0], sent[0])'
    BY <1>1, <2>1, <2>2, <2>3 DEF AtSource, Hand, Over
  <2> QED
    BY <1>1, <1>4, <1>5, <1>6, <2>1, <2>4
<1>10. CASE SourcePut
  <2>1. /\ pc[Source] = "put" /\ Enqueue(0, cur[Source]) /\ next' = next /\ refs' = refs
        /\ pc'[Source] = IF cur[Source] = EOS THEN "finally" ELSE "next"
        /\ cur[Source] \in Message
    BY <1>0, <1>10 DEF SourcePut, Goto, ThreadsOK, InHand
  <2>2. ~EosIn(0)
    BY <1>0, <2>1 DEF Spent
  <2>3. CASE cur[Source] = EOS
    <3>1. ~cancelled => Over(sent[0], 0)
      BY <1>1, <2>1, <2>3 DEF Hand, Alive
    <3>2. Flows(0, got[1], sent[0], 0)'
      BY <1>0, <1>1, <1>2, <2>1, <2>2, <2>3, <3>1, EosPut
    <3>3. AtSource(made[0], sent[0])'
      BY <1>0, <1>1, <2>1, <2>3, HandEmpties DEF AtSource, Alive
    <3> QED
      BY <1>1, <1>4, <1>5, <2>1, <3>2, <3>3
  <2>4. CASE cur[Source] # EOS
    <3>1. PICK e \in Envelope : e = cur[Source]
      BY <2>1, <2>4 DEF Message
    <3>2. e.unit = made[0] /\ Follows(e, sent[0], 0)
      BY <1>1, <2>1, <2>4, <3>1 DEF Hand, Alive
    <3>3. Flows(0, got[1], e.unit, 0)'
      BY <1>0, <1>1, <1>2, <2>1, <2>2, <3>1, <3>2, UnitPut
    <3>4. AtSource(made[0], made[0])'
      BY <1>1, <2>1, <2>4 DEF AtSource, Hand
    <3> QED
      BY <1>1, <1>4, <1>5, <2>1, <3>2, <3>3, <3>4
  <2> QED
    BY <2>3, <2>4
<1>11. CASE SourceRefused
  <2>1. next' = next /\ ~Alive(Source)' /\ chan' = chan /\ refs' = refs
    BY <1>0, <1>11 DEF SourceRefused, Move, Goto, ThreadsOK, Alive, others
  <2> QED
    BY <1>5, <1>7, <2>1
<1>12. CASE SourceFails
  <2>1. next' = next /\ ~Alive(Source)' /\ chan' = chan /\ refs' = refs
    BY <1>0, <1>12 DEF SourceFails, Fail, Goto, ThreadsOK, Alive
  <2> QED
    BY <1>5, <1>7, <2>1
<1>13. CASE CloseNext(Source)
  <2>1. next' = next /\ ~Alive(Source)' /\ chan' = chan /\ refs' = refs
    BY <1>0, <1>13, Threads DEF CloseNext, Goto, ThreadsOK, Alive
  <2> QED
    BY <1>5, <1>7, <2>1
<1>14. CASE Finally(Source)
  <2>1. next' = next /\ ~Alive(Source)' /\ chan' = chan
    BY <1>0, <1>14 DEF Finally, Goto, ThreadsOK, Alive
  <2>2. LeasesRest
    <3>1. CASE cur[Source] \in {None, EOS}
      BY <1>5, <1>14, <3>1 DEF Finally
    <3>2. CASE cur[Source] \notin {None, EOS}
      <4>1. cur[Source].lease \in Lease /\ Release(cur[Source].lease)
        BY <1>0, <1>14, <3>2, Envelopes DEF Finally, ThreadsOK, Message
      <4> QED
        BY <1>0, <4>1, ReleaseRests
    <3> QED
      BY <3>1, <3>2
  <2> QED
    BY <1>7, <2>1, <2>2
<1> QED
  BY <1>8, <1>9, <1>10, <1>11, <1>12, <1>13, <1>14 DEF SourceStep

-----------------------------------------------------------------------------
(* A publisher actor *)

\* What a step of a publisher leaves alone.
LEMMA CourierMoves ==
  ASSUME TypeInv, NEW i \in Stage, CourierStep(i)
  PROVE  /\ Onward /\ SourceRests /\ \A j \in Stage : StageRests(j)
         /\ \A j \in Stage : j # i => CourierRests(j)
         /\ TerminalRests /\ \A c \in Chan \ {i, PendingOf(i)} : chan'[c] = chan[c]
<1> USE DEF TypeInv, TypeOK, ThreadsOK, ChannelsOK, Onward, SourceRests, StageRests,
            CourierRests, TerminalRests
<1>1. CASE CourierTop(i)
  BY <1>1, Threads DEF CourierTop, Move, Goto, others, supervision, stageState, result
<1>2. CASE CourierGet(i)
  BY <1>2, Threads DEF CourierGet, Goto, Dequeue, supervision, stageState, result
<1>3. CASE CourierPut(i)
  BY <1>3, Threads DEF CourierPut, Goto, Enqueue, supervision, stageState, result
<1>4. CASE CourierClosed(i)
  BY <1>4, Threads DEF CourierClosed, Move, Goto, others, supervision, stageState, result
<1>5. CASE Finally(Courier(i))
  BY <1>5, Threads DEF Finally, Goto, supervision, stageState, result
<1> QED
  BY <1>1, <1>2, <1>3, <1>4, <1>5 DEF CourierStep

\* The finally clause gives up a handle at most.
LEMMA FinallyRests ==
  ASSUME TypeInv, NEW t \in Thread, Finally(t) PROVE LeasesRest
<1>0. LeasesOK /\ cur[t] \in Message \cup {None}
  BY DEF TypeInv, TypeOK, ThreadsOK
<1>1. CASE cur[t] \in {None, EOS}
  BY <1>1 DEF Finally, LeasesRest
<1>2. CASE cur[t] \notin {None, EOS}
  <2>1. cur[t].lease \in Lease /\ Release(cur[t].lease)
    BY <1>0, <1>2, Envelopes DEF Finally, Message
  <2> QED
    BY <1>0, <2>1, ReleaseRests
<1> QED
  BY <1>1, <1>2

\* The line after a step of a publisher: it takes, it puts, or it gives up.
LEMMA CourierInLine ==
  ASSUME TypeInv, QuietInv, NEW i \in Stage, CourierStep(i),
         NEW made, NEW pend, NEW took, NEW sent, NEW got, InLine(made, pend, took, sent, got)
  PROVE  \E t, s \in Mark :
           InLine(made, pend, [took EXCEPT ![i] = t], [sent EXCEPT ![i] = s], got)'
<1>0. /\ ChannelsOK /\ ThreadsOK /\ LeasesOK /\ InHand /\ Courier(i) \in Thread
      /\ i \in Chan /\ i \in Edge /\ PendingOf(i) \in Chan /\ PendingOf(i) # i
      /\ EosIn(i) => pc[Courier(i)] \in {"finally", "done"}
  BY Threads, ChannelPlaces DEF TypeInv, TypeOK, QuietInv
<1>1. /\ took[i] \in Mark /\ sent[i] \in Mark /\ Hand(Courier(i), took[i], sent[i], i)
      /\ Flows(i, got[i + 1], sent[i], i) /\ Flows(PendingOf(i), took[i], pend[i], i)
      /\ Fresh(made)
  <2>1. sent \in [0..N -> Mark] /\ i \in 0..N
    BY <1>0 DEF InLine, Edge
  <2> QED
    BY <1>0, <2>1 DEF InLine
<1>2. /\ Onward /\ SourceRests /\ \A j \in Stage : StageRests(j)
      /\ \A j \in Stage : j # i => CourierRests(j)
      /\ TerminalRests /\ \A c \in Chan \ {i, PendingOf(i)} : chan'[c] = chan[c]
  BY CourierMoves
<1>3. LeasesRest
  <2>1. CASE Finally(Courier(i))
    BY <1>0, <2>1, FinallyRests
  <2>2. CASE ~Finally(Courier(i))
    <3>1. refs' = refs
      BY <2>2 DEF CourierStep, CourierTop, CourierGet, CourierPut, CourierClosed, Move, others
    <3> QED
      BY <3>1 DEF LeasesRest
  <2> QED
    BY <2>1, <2>2
<1>4. SUFFICES \E t, s \in Mark : /\ Hand(Courier(i), t, s, i)'
                                  /\ Flows(i, got[i + 1], s, i)'
                                  /\ Flows(PendingOf(i), t, pend[i], i)'
  BY <1>1, <1>2, <1>3, FreshRests, AfterCourier
<1>5. /\ chan'[i] = chan[i] => Flows(i, got[i + 1], sent[i], i)'
      /\ chan'[PendingOf(i)] = chan[PendingOf(i)] => Flows(PendingOf(i), took[i], pend[i], i)'
  BY <1>0, <1>1, <1>2, FlowRests
<1>6. chan' = chan /\ ~Alive(Courier(i))'
      => \E t, s \in Mark : /\ Hand(Courier(i), t, s, i)'
                            /\ Flows(i, got[i + 1], s, i)'
                            /\ Flows(PendingOf(i), t, pend[i], i)'
  BY <1>0, <1>1, <1>5, HandEmpties
<1>7. CASE CourierTop(i)
  <2>1. /\ chan' = chan /\ pc[Courier(i)] = "top" /\ cur' = cur
        /\ pc'[Courier(i)] = IF cancelled THEN "finally" ELSE "get"
    BY <1>0, <1>7 DEF CourierTop, Move, Goto, ThreadsOK, others
  <2>2. Hand(Courier(i), took[i], sent[i], i)'
    BY <1>1, <2>1 DEF Hand, Alive
  <2> QED
    BY <1>1, <1>5, <2>1, <2>2
<1>8. CASE CourierGet(i)
  <2>1. /\ pc[Courier(i)] = "get" /\ HasItem(PendingOf(i)) /\ Dequeue(PendingOf(i))
        /\ pc'[Courier(i)] = "put" /\ cur'[Courier(i)] = Head(chan[PendingOf(i)])
        /\ chan'[i] = chan[i]
    BY <1>0, <1>8 DEF CourierGet, Goto, Dequeue, ThreadsOK, ChannelsOK
  <2>2. took[i] = sent[i]
    BY <1>1, <2>1 DEF Hand, Alive
  <2>3. CASE Head(chan[PendingOf(i)]) = EOS
    <3>1. /\ took[i] = pend[i] /\ (~cancelled => Over(pend[i], i))
          /\ Flows(PendingOf(i), took[i], pend[i], i)'
      BY <1>0, <1>1, <1>2, <2>1, <2>3, EosTaken
    <3>2. Hand(Courier(i), took[i], sent[i], i)'
      BY <1>2, <2>1, <2>2, <2>3, <3>1 DEF Hand, Onward, Over
    <3> QED
      BY <1>1, <1>5, <2>1, <3>1, <3>2
  <2>4. CASE Head(chan[PendingOf(i)]) # EOS
    <3>1. PICK e : e = Head(chan[PendingOf(i)])
      OBVIOUS
    <3>2. e \in Envelope /\ Follows(e, took[i], i) /\ Flows(PendingOf(i), e.unit, pend[i], i)'
      BY <1>0, <1>1, <1>2, <2>1, <2>4, <3>1, UnitTaken
    <3>3. e.unit \in Mark
      BY <3>2, Envelopes, MarksOK
    <3>4. Hand(Courier(i), e.unit, sent[i], i)'
      BY <2>1, <2>2, <2>4, <3>1, <3>2 DEF Hand, Follows, Lists
    <3> QED
      BY <1>1, <1>5, <2>1, <3>2, <3>3, <3>4
  <2> QED
    BY <2>3, <2>4
<1>9. CASE CourierPut(i)
  <2>1. /\ pc[Courier(i)] = "put" /\ Enqueue(i, cur[Courier(i)])
        /\ pc'[Courier(i)] = IF cur[Courier(i)] = EOS THEN "finally" ELSE "top"
        /\ cur[Courier(i)] \in Message
        /\ chan'[PendingOf(i)] = chan[PendingOf(i)]
    BY <1>0, <1>9 DEF CourierPut, Goto, Enqueue, ThreadsOK, ChannelsOK, InHand
  <2>2. ~EosIn(i)
    BY <1>0, <2>1
  <2>3. CASE cur[Courier(i)] = EOS
    <3>1. ~cancelled => Over(sent[i], i)
      BY <1>1, <2>1, <2>3 DEF Hand, Alive
    <3>2. Flows(i, got[i + 1], sent[i], i)'
      BY <1>0, <1>1, <1>2, <2>1, <2>2, <2>3, <3>1, EosPut
    <3>3. Hand(Courier(i), took[i], sent[i], i)'
      BY <1>0, <2>1, <2>3, HandEmpties DEF Alive
    <3> QED
      BY <1>1, <1>5, <2>1, <3>2, <3>3
  <2>4. CASE cur[Courier(i)] # EOS
    <3>1. PICK e \in Envelope : e = cur[Courier(i)]
      BY <2>1, <2>4 DEF Message
    <3>2. e.unit = took[i] /\ Follows(e, sent[i], i)
      BY <1>1, <2>1, <2>4, <3>1 DEF Hand, Alive
    <3>3. Flows(i, got[i + 1], e.unit, i)'
      BY <1>0, <1>1, <1>2, <2>1, <2>2, <3>1, <3>2, UnitPut
    <3>4. Hand(Courier(i), took[i], took[i], i)'
      BY <2>1, <2>4 DEF Hand
    <3> QED
      BY <1>1, <1>5, <2>1, <3>2, <3>3, <3>4
  <2> QED
    BY <2>3, <2>4
<1>10. CASE CourierClosed(i)
  <2>1. ~Alive(Courier(i))' /\ chan' = chan
    BY <1>0, <1>10 DEF CourierClosed, Move, Goto, ThreadsOK, Alive, others
  <2> QED
    BY <1>6, <2>1
<1>11. CASE Finally(Courier(i))
  <2>1. ~Alive(Courier(i))' /\ chan' = chan
    BY <1>0, <1>11 DEF Finally, Goto, ThreadsOK, Alive
  <2> QED
    BY <1>6, <2>1
<1> QED
  BY <1>7, <1>8, <1>9, <1>10, <1>11 DEF CourierStep

-----------------------------------------------------------------------------
(* The sink actor *)

\* What a step of the sink leaves alone.
LEMMA SinkMoves ==
  ASSUME TypeInv, SinkStep
  PROVE  /\ Onward /\ SourceRests /\ \A i \in Stage : StageRests(i) /\ CourierRests(i)
         /\ pc'[Main] = pc[Main] /\ \A c \in Chan \ {N} : chan'[c] = chan[c]
<1> USE DEF TypeInv, TypeOK, ThreadsOK, ChannelsOK, Onward, SourceRests, StageRests,
            CourierRests
<1>1. CASE SinkTop
  BY <1>1, Threads DEF SinkTop, Move, Goto, others, supervision, stageState, result
<1>2. CASE SinkGetUnit
  BY <1>2, Threads DEF SinkGetUnit, Goto, Dequeue, supervision, stageState, result
<1>3. CASE SinkGetEos
  BY <1>3, Threads DEF SinkGetEos, Goto, Dequeue, supervision, stageState, result
<1>4. CASE SinkGetClosed
  BY <1>4, Threads DEF SinkGetClosed, Move, Goto, others, supervision, stageState, result
<1>5. CASE SinkConsume
  BY <1>5, Threads DEF SinkConsume, Goto, supervision, stageState, result
<1>6. CASE SinkStop
  BY <1>6, Threads DEF SinkStop, Cancel, Goto, supervision, stageState, result
<1>7. CASE SinkFails
  BY <1>7, Threads DEF SinkFails, Fail, Goto, stageState, result
<1>8. CASE CloseNext(Sink)
  BY <1>8, Threads DEF CloseNext, Goto, stageState, result
<1>9. CASE SinkFinally
  BY <1>9, Threads DEF SinkFinally, Goto, supervision, stageState, result
<1>10. CASE SinkFinishFails
  BY <1>10, Threads DEF SinkFinishFails, Fail, Goto, Dequeue, stageState, result
<1> QED
  BY <1>1, <1>2, <1>3, <1>4, <1>5, <1>6, <1>7, <1>8, <1>9, <1>10 DEF SinkStep

\* A step of the sink that neither gets nor consumes.
LEMMA SinkRests ==
  ASSUME TypeInv, SinkStep PROVE LeasesRest
<1>0. LeasesOK /\ cur[Sink] \in Envelope \cup {None} /\ terminal \in Seq(Lease)
  BY DEF TypeInv, TypeOK, InHand, LeasesOK
<1>1. refs' = refs => LeasesRest
  BY DEF LeasesRest
<1>2. terminal # <<>> => terminal[1] \in Lease
  BY <1>0
<1>3. CASE SinkConsume
  <2>1. cur[Sink] \in Envelope
    BY <1>3 DEF SinkConsume, TypeInv, InHand
  <2>2. refs' = refs \/ \E l \in Lease : Release(l)
    BY <1>2, <1>3, <2>1, Envelopes DEF SinkConsume
  <2> QED
    BY <1>0, <1>1, <2>2, ReleaseRests
<1>4. CASE SinkFinally
  <2>1. refs' = refs \/ \E l \in Lease : Release(l)
    BY <1>0, <1>2, <1>4, Envelopes DEF SinkFinally
  <2> QED
    BY <1>0, <1>1, <2>1, ReleaseRests
<1>5. CASE ~SinkConsume /\ ~SinkFinally
  <2>1. refs' = refs
    BY <1>5 DEF SinkStep, SinkTop, SinkGetUnit, SinkGetEos, SinkFinishFails, SinkGetClosed, SinkStop,
       SinkFails, CloseNext, Move, others
  <2> QED
    BY <1>1, <2>1
<1> QED
  BY <1>3, <1>4, <1>5

\* The last of a longer sequence.
LEMMA LastSeenAppended ==
  ASSUME NEW s, NEW d \in Seq(s), NEW x
  PROVE  Append(d, x) # <<>> /\ Append(d, x)[Len(Append(d, x))] = x
OBVIOUS

\* The line after a step of the sink.
LEMMA SinkInLine ==
  ASSUME TypeInv, OutcomeInv, Running, SinkStep,
         NEW made, NEW pend, NEW took, NEW sent, NEW got, InLine(made, pend, took, sent, got)
  PROVE  \E g \in Mark : InLine(made, pend, took, sent, [got EXCEPT ![N + 1] = g])'
<1>0. /\ ChannelsOK /\ ThreadsOK /\ InHand /\ Labels /\ Sink \in Thread /\ Main \in Thread
      /\ Sink # Main /\ N \in Chan /\ delivered \in Seq([unit : Unit, bnds : Seq(Unit)])
      /\ Phases
  BY Threads, ChannelPlaces DEF TypeInv, TypeOK, ResultOK, OutcomeInv
<1>1. got[N + 1] \in Mark /\ Flows(N, got[N + 1], sent[N], N) /\ AtTerminal(got[N + 1])
  <2>1. got \in [1..(N + 1) -> Mark] /\ N + 1 \in 1..(N + 1)
    BY GraphConstants DEF InLine
  <2> QED
    BY <2>1, ChannelPlaces DEF InLine
<1>2. /\ Onward /\ SourceRests /\ \A i \in Stage : StageRests(i) /\ CourierRests(i)
      /\ pc'[Main] = pc[Main] /\ \A c \in Chan \ {N} : chan'[c] = chan[c]
  BY SinkMoves
<1>3. SUFFICES \E g \in Mark : AtTerminal(g)' /\ Flows(N, g, sent[N], N)'
  BY <1>2, SinkRests, AfterTerminal
<1>4. chan' = chan => Flows(N, got[N + 1], sent[N], N)'
  BY <1>0, <1>1, <1>2, FlowRests
<1>5. pc[Main] \in {"idle", "get", "raise"} => pc[Sink] = "done"
  BY <1>0 DEF Phases
<1> USE DEF AtTerminal, LastSeen
<1>6. CASE SinkTop
  <2>1. /\ chan' = chan /\ pc[Sink] = "top" /\ UNCHANGED <<cur, delivered>>
        /\ pc'[Sink] = IF cancelled THEN "finally" ELSE "get"
    BY <1>0, <1>6 DEF SinkTop, Move, Goto, ThreadsOK, others, result
  <2>2. AtTerminal(got[N + 1])'
    BY <1>1, <1>2, <1>5, <2>1 DEF Onward
  <2> QED
    BY <1>1, <1>4, <2>1, <2>2
<1>7. CASE SinkGetUnit
  <2>1. PICK e : e = Head(chan[N])
    OBVIOUS
  <2>2. /\ pc[Sink] = "get" /\ HasItem(N) /\ e # EOS /\ Dequeue(N) /\ delivered' = delivered
        /\ pc'[Sink] = "consume" /\ cur'[Sink] = e
    BY <1>0, <1>7, <2>1 DEF SinkGetUnit, Goto, ThreadsOK, result
  <2>3. e \in Envelope /\ Follows(e, got[N + 1], N) /\ Flows(N, e.unit, sent[N], N)'
    BY <1>0, <1>1, <1>2, <2>1, <2>2, UnitTaken
  <2>4. e.unit \in Mark
    BY <2>3, Envelopes, MarksOK
  <2>5. got[N + 1] = LastSeen
    BY <1>1, <2>2
  <2>6. AtTerminal(e.unit)'
    BY <1>2, <1>5, <2>2, <2>3, <2>5 DEF Follows, Lists
  <2> QED
    BY <2>3, <2>4, <2>6
<1>8. CASE SinkGetEos
  <2>1. /\ pc[Sink] = "get" /\ HasItem(N) /\ Head(chan[N]) = EOS /\ Dequeue(N)
        /\ delivered' = delivered /\ pc'[Sink] = "finally"
    BY <1>0, <1>8 DEF SinkGetEos, Goto, ThreadsOK
  <2>2. /\ got[N + 1] = sent[N] /\ (~cancelled => Over(sent[N], N))
        /\ Flows(N, got[N + 1], sent[N], N)'
    BY <1>0, <1>1, <1>2, <2>1, EosTaken
  <2>3. AtTerminal(got[N + 1])'
    BY <1>1, <1>2, <1>5, <2>1, <2>2 DEF Onward, Over
  <2> QED
    BY <1>1, <2>2, <2>3
<1>9. CASE SinkGetClosed
  <2>1. /\ pc[Sink] = "get" /\ closed # {} /\ delivered' = delivered /\ pc'[Sink] = "finally"
        /\ chan' = chan
    BY <1>0, <1>9 DEF SinkGetClosed, Ended, Move, Goto, ThreadsOK, others, result
  <2>2. cancelled
    BY <1>0, <2>1 DEF Phases, Running
  <2>3. AtTerminal(got[N + 1])'
    BY <1>2, <1>5, <2>1, <2>2 DEF Onward
  <2> QED
    BY <1>1, <1>4, <2>1, <2>3
<1>10. CASE SinkConsume
  <2>1. /\ pc[Sink] = "consume" /\ cur[Sink] \in Envelope
        /\ delivered' = Append(delivered, Seen(cur[Sink]))
        /\ pc'[Sink] \in {"top", "stop"} /\ chan' = chan
    BY <1>0, <1>10 DEF SinkConsume, Goto, ThreadsOK, InHand
  <2>2. LastSeen' = cur[Sink].unit
    <3>1. PICK x : x = Seen(cur[Sink])
      OBVIOUS
    <3>2. x.unit = cur[Sink].unit
      BY <3>1 DEF Seen
    <3>3. delivered' # <<>> /\ delivered'[Len(delivered')] = x
      BY <1>0, <2>1, <3>1, LastSeenAppended
    <3> QED
      BY <3>2, <3>3
  <2>3. AtTerminal(got[N + 1])'
    BY <1>1, <1>2, <1>5, <2>1, <2>2
  <2> QED
    BY <1>1, <1>4, <2>1, <2>3
<1>11. CASE SinkStop \/ SinkFails
  <2>1. pc[Sink] \in {"consume", "stop"} /\ pc'[Sink] = "closing" /\ chan' = chan
    BY <1>0, <1>11 DEF SinkStop, SinkFails, Fail, Cancel, Goto, ThreadsOK
  <2>2. AtTerminal(got[N + 1])'
    BY <1>2, <1>5, <2>1
  <2> QED
    BY <1>1, <1>4, <2>1, <2>2
<1>12. CASE CloseNext(Sink)
  <2>1. /\ pc[Sink] = "closing" /\ pc'[Sink] \in {"closing", "finally"} /\ chan' = chan
        /\ cancelled /\ cancelled'
    BY <1>0, <1>12 DEF CloseNext, Goto, ThreadsOK, Phases
  <2>2. AtTerminal(got[N + 1])'
    BY <1>2, <1>5, <2>1
  <2> QED
    BY <1>1, <1>4, <2>1, <2>2
<1>13. CASE SinkFinally
  <2>1. /\ pc[Sink] = "finally" /\ pc'[Sink] \in {"finally", "done"} /\ chan' = chan
        /\ delivered' = delivered /\ cancelled' = cancelled
    BY <1>0, <1>13 DEF SinkFinally, Goto, ThreadsOK, supervision, result
  <2>2. AtTerminal(got[N + 1])'
    BY <1>1, <1>2, <1>5, <2>1 DEF Over
  <2> QED
    BY <1>1, <1>4, <2>1, <2>2
<1>14. CASE SinkFinishFails
  <2>1. /\ pc[Sink] = "get" /\ HasItem(N) /\ Head(chan[N]) = EOS /\ Dequeue(N)
        /\ pc'[Sink] = "closing"
    BY <1>0, <1>14 DEF SinkFinishFails, Fail, Goto, ThreadsOK
  <2>2. Flows(N, got[N + 1], sent[N], N)'
    BY <1>0, <1>1, <1>2, <2>1, EosTaken
  <2>3. AtTerminal(got[N + 1])'
    BY <1>2, <1>5, <2>1
  <2> QED
    BY <1>1, <2>2, <2>3
<1> QED
  BY <1>6, <1>7, <1>8, <1>9, <1>10, <1>11, <1>12, <1>13, <1>14 DEF SinkStep

-----------------------------------------------------------------------------
(* The calling thread *)

\* Nothing has started: every actor is as if it waited for its first message.
LEMMA HandStarts ==
  ASSUME NEW t \in Thread, Alive(t), pc[t] # "put", Alive(t)', pc'[t] # "put",
         NEW m, NEW s, NEW i, Hand(t, m, s, i)
  PROVE  Hand(t, m, s, i)'
BY DEF Hand

\* A stage that has just started is empty.
LEMMA InsideStarts ==
  ASSUME Onward, NEW i \in Stage, pc[Worker(i)] = "new", pc'[Worker(i)] = "top",
         UNCHANGED <<cur, stageState>>, NEW g, NEW m, NEW p, Inside(i, g, m, p)
  PROVE  Inside(i, g, m, p)'
<1>1. /\ Alive(Worker(i)) /\ ~Turning(i) /\ ~Unseen(i) /\ ~Ending(i)
      /\ ~Turning(i)' /\ ~Unseen(i)' /\ ~Ending(i)' /\ Held(i)' = Held(i)
  BY DEF Alive, Turning, Unseen, Ending, Flushing, Held, stageState
<1>2. InOrder(i, g, m)'
  BY <1>1 DEF Inside, InOrder, Increasing, IsEpoch, Over, Onward, stageState
<1>3. InShot(i, g, m)'
  BY <1>1 DEF Inside, InShot, Lists, IsEpoch, stageState
<1>4. Emptied(i)'
  BY <1>1 DEF Inside, Emptied, stageState
<1>5. m = p
  BY <1>1 DEF Inside
<1> QED
  BY <1>2, <1>3, <1>4, <1>5 DEF Inside

\* The line after start().
LEMMA StartInLine ==
  ASSUME TypeInv, OutcomeInv, Start,
         NEW made, NEW pend, NEW took, NEW sent, NEW got, InLine(made, pend, took, sent, got)
  PROVE  InLine(made, pend, took, sent, got)'
<1>0. /\ ThreadsOK /\ pc[Main] = "new" /\ \A t \in Thread : pc[t] = "new"
      /\ UNCHANGED <<chan, cancelled, cur, next, stageState, refs, delivered>>
  BY DEF Start, TypeInv, TypeOK, OutcomeInv, Phases, others, supervision, result
<1>1. /\ pc'[Source] = "next" /\ pc'[Sink] \in {"top", "done"}
      /\ pc'[Main] = (IF pc'[Sink] = "top" THEN "wait" ELSE "get")
      /\ \A i \in Stage : pc'[Worker(i)] = "top" /\ pc'[Courier(i)] = "top"
  BY Threads DEF Start
<1>2. Onward /\ LeasesRest
  BY <1>0 DEF Onward, LeasesRest
<1>3. \A c \in Edge : Flows(c, got[c + 1], sent[c], c)'
  BY <1>0, <1>2, FlowRests, ChannelPlaces DEF InLine
<1>4. \A i \in Stage : /\ Inside(i, got[i], made[i], pend[i])'
                       /\ Flows(PendingOf(i), took[i], pend[i], i)'
                       /\ Hand(Courier(i), took[i], sent[i], i)'
  <2> SUFFICES ASSUME NEW i \in Stage
               PROVE /\ Inside(i, got[i], made[i], pend[i])'
                     /\ Flows(PendingOf(i), took[i], pend[i], i)'
                     /\ Hand(Courier(i), took[i], sent[i], i)'
    OBVIOUS
  <2>1. /\ Inside(i, got[i], made[i], pend[i]) /\ Flows(PendingOf(i), took[i], pend[i], i)
        /\ Hand(Courier(i), took[i], sent[i], i)
    BY DEF InLine
  <2>2. Courier(i) \in Thread /\ Worker(i) \in Thread /\ PendingOf(i) \in Chan
    BY Threads, ChannelPlaces
  <2>3. Inside(i, got[i], made[i], pend[i])'
    BY <1>0, <1>1, <1>2, <2>1, <2>2, InsideStarts
  <2>4. Flows(PendingOf(i), took[i], pend[i], i)'
    BY <1>0, <1>2, <2>1, <2>2, FlowRests
  <2>5. Alive(Courier(i)) /\ Alive(Courier(i))'
    BY <1>0, <1>1, <2>2 DEF Alive
  <2>6. Hand(Courier(i), took[i], sent[i], i)'
    BY <1>0, <1>1, <2>1, <2>2, <2>5, HandStarts
  <2> QED
    BY <2>3, <2>4, <2>6
<1>5. AtSource(made[0], sent[0])'
  <2>1. AtSource(made[0], sent[0]) /\ Alive(Source) /\ Alive(Source)' /\ Source \in Thread
    BY <1>0, <1>1, Threads DEF InLine, Alive
  <2> QED
    BY <1>0, <1>1, <2>1, HandStarts DEF AtSource
<1>6. AtTerminal(got[N + 1])'
  BY <1>0, <1>1, Threads DEF InLine, AtTerminal, LastSeen
<1>7. Fresh(made)'
  BY <1>2, FreshRests DEF InLine
<1> QED
  BY <1>3, <1>4, <1>5, <1>6, <1>7 DEF InLine

\* What the calling thread does once it has started and until it drains.
Calls ==
  \/ HostPull \/ HostGetUnit \/ HostGetEos \/ HostGetClosed
  \/ WaitReturns \/ CloseNext(Main) \/ StartFails \/ HostUnitFails \/ HostRaises
  \/ HostInterrupted \/ Close

\* What a step of the calling thread leaves alone.
LEMMA CallMoves ==
  ASSUME TypeInv, Calls
  PROVE  /\ Onward /\ SourceRests /\ \A i \in Stage : StageRests(i) /\ CourierRests(i)
         /\ pc'[Sink] = pc[Sink] /\ cur' = cur /\ \A c \in Chan \ {N} : chan'[c] = chan[c]
         /\ LeasesRest
<1> USE DEF TypeInv, TypeOK, ThreadsOK, ChannelsOK, Onward, SourceRests, StageRests,
            CourierRests
<1>0. refs' = refs => LeasesRest
  BY DEF LeasesRest
<1>1. CASE HostPull
  <2>1. LeasesRest
    <3>1. CASE HostHoldsLimit
      <4>1. terminal \in Seq(Lease) /\ Len(terminal) >= 1
        BY <3>1 DEF HostHoldsLimit, LeasesOK
      <4>2. Head(terminal) \in Lease
        BY <4>1
      <4>3. Release(Head(terminal))
        BY <1>1, <3>1 DEF HostPull
      <4> QED
        BY <4>2, <4>3, ReleaseRests
    <3>2. CASE ~HostHoldsLimit
      BY <1>0, <1>1, <3>2 DEF HostPull
    <3> QED
      BY <3>1, <3>2
  <2> QED
    BY <1>1, <2>1, Threads DEF HostPull, Goto, supervision, stageState, result
<1>2. CASE HostGetUnit
  BY <1>0, <1>2, Threads DEF HostGetUnit, Goto, Dequeue, supervision, stageState, result
<1>3. CASE HostGetEos
  BY <1>0, <1>3, Threads DEF HostGetEos, Cancel, Goto, Dequeue, supervision, stageState, result
<1>4. CASE HostGetClosed
  BY <1>0, <1>4, Threads DEF HostGetClosed, Cancel, Goto, supervision, stageState, result
<1>5. CASE WaitReturns
  BY <1>0, <1>5, Threads DEF WaitReturns, Cancel, Goto, supervision, stageState, result
<1>6. CASE CloseNext(Main)
  BY <1>0, <1>6, Threads DEF CloseNext, Goto, stageState, result
<1>7. CASE StartFails
  BY <1>0, <1>7, Threads DEF StartFails, Fail, Goto, stageState, result
<1>8. CASE Close
  BY <1>0, <1>8, Threads DEF Close, Cancel, Goto, stageState, result
<1>9. CASE HostUnitFails
  <2>1. chan[N] \in Seq(Message) /\ N \in Chan /\ HasItem(N) /\ Head(chan[N]) # EOS
    BY <1>9, ChannelPlaces DEF HostUnitFails
  <2>2. Head(chan[N]) \in Envelope
    BY <2>1 DEF Message, HasItem
  <2>3. LeasesRest
    BY <1>9, <2>2, Envelopes, ReleaseRests DEF HostUnitFails
  <2> QED
    BY <1>9, <2>3, Threads DEF HostUnitFails, Goto, Dequeue, supervision, stageState, result
<1>10. CASE HostRaises
  BY <1>0, <1>10, Threads DEF HostRaises, Fail, Goto, stageState, result
<1>11. CASE HostInterrupted
  BY <1>0, <1>11, Threads DEF HostInterrupted, Fail, Goto, stageState, result
<1> QED
  BY <1>1, <1>2, <1>3, <1>4, <1>5, <1>6, <1>7, <1>8, <1>9, <1>10, <1>11 DEF Calls

\* The line after a step of the calling thread: a host gets units, or the run is stopped.
LEMMA CallInLine ==
  ASSUME TypeInv, OutcomeInv, Running, Calls,
         NEW made, NEW pend, NEW took, NEW sent, NEW got, InLine(made, pend, took, sent, got)
  PROVE  \E g \in Mark : InLine(made, pend, took, sent, [got EXCEPT ![N + 1] = g])'
<1>0. /\ ChannelsOK /\ ThreadsOK /\ Labels /\ Sink \in Thread /\ Main \in Thread
      /\ Sink # Main /\ N \in Chan /\ delivered \in Seq([unit : Unit, bnds : Seq(Unit)])
      /\ Phases
  BY Threads, ChannelPlaces DEF TypeInv, TypeOK, ResultOK, OutcomeInv
<1>1. got[N + 1] \in Mark /\ Flows(N, got[N + 1], sent[N], N) /\ AtTerminal(got[N + 1])
  <2>1. got \in [1..(N + 1) -> Mark] /\ N + 1 \in 1..(N + 1)
    BY GraphConstants DEF InLine
  <2> QED
    BY <2>1, ChannelPlaces DEF InLine
<1>2. /\ Onward /\ SourceRests /\ \A i \in Stage : StageRests(i) /\ CourierRests(i)
      /\ pc'[Sink] = pc[Sink] /\ cur' = cur /\ \A c \in Chan \ {N} : chan'[c] = chan[c]
      /\ LeasesRest
  BY CallMoves
<1>3. SUFFICES \E g \in Mark : AtTerminal(g)' /\ Flows(N, g, sent[N], N)'
  BY <1>2, AfterTerminal
<1>4. chan' = chan => Flows(N, got[N + 1], sent[N], N)'
  BY <1>0, <1>1, <1>2, FlowRests
<1> USE DEF AtTerminal, LastSeen
<1>6. CASE HostPull
  <2>1. /\ chan' = chan /\ pc[Main] = "idle" /\ pc'[Main] = "get" /\ delivered' = delivered
        /\ pc[Sink] = "done"
    BY <1>0, <1>6 DEF HostPull, Goto, ThreadsOK, result, Phases
  <2>2. AtTerminal(got[N + 1])'
    BY <1>1, <1>2, <2>1
  <2> QED
    BY <1>1, <1>4, <2>1, <2>2
<1>7. CASE HostGetUnit
  <2>1. PICK e : e = Head(chan[N])
    OBVIOUS
  <2>2. /\ pc[Main] = "get" /\ pc[Sink] = "done" /\ HasItem(N) /\ e # EOS /\ Dequeue(N)
        /\ delivered' = Append(delivered, Seen(e)) /\ pc'[Main] = "idle"
    BY <1>0, <1>7, <2>1 DEF HostGetUnit, Goto, ThreadsOK, Phases
  <2>3. e \in Envelope /\ Flows(N, e.unit, sent[N], N)'
    BY <1>0, <1>1, <1>2, <2>1, <2>2, UnitTaken
  <2>4. e.unit \in Mark
    BY <2>3, Envelopes, MarksOK
  <2>5. e.unit = LastSeen'
    <3>1. delivered' # <<>> /\ delivered'[Len(delivered')] = Seen(e)
      BY <1>0, <2>2, LastSeenAppended
    <3> QED
      BY <3>1 DEF Seen
  <2>6. AtTerminal(e.unit)'
    BY <1>2, <2>2, <2>5
  <2> QED
    BY <2>3, <2>4, <2>6
<1>8. CASE HostGetEos
  <2>1. /\ pc[Main] = "get" /\ HasItem(N) /\ Head(chan[N]) = EOS /\ Dequeue(N)
        /\ pc[Sink] = "done" /\ pc'[Main] \in {"closing", "join"}
    BY <1>0, <1>8 DEF HostGetEos, Cancel, Goto, ThreadsOK, Phases
  <2>2. Flows(N, got[N + 1], sent[N], N)'
    BY <1>0, <1>1, <1>2, <2>1, EosTaken
  <2>3. AtTerminal(got[N + 1])'
    BY <1>2, <2>1
  <2> QED
    BY <1>1, <2>2, <2>3
<1>9. CASE HostGetClosed \/ WaitReturns
  <2>1. /\ chan' = chan /\ pc[Sink] = "done" /\ pc'[Main] \in {"closing", "join"}
    BY <1>0, <1>9 DEF HostGetClosed, WaitReturns, Cancel, Goto, ThreadsOK, Phases
  <2>2. AtTerminal(got[N + 1])'
    BY <1>2, <2>1
  <2> QED
    BY <1>1, <1>4, <2>1, <2>2
<1>11. CASE HostUnitFails
  <2>1. PICK e : e = Head(chan[N])
    OBVIOUS
  <2>2. /\ pc[Main] = "get" /\ pc[Sink] = "done" /\ HasItem(N) /\ e # EOS /\ Dequeue(N)
        /\ pc'[Main] = "raise"
    BY <1>0, <1>11, <2>1 DEF HostUnitFails, Goto, ThreadsOK, Phases
  <2>3. e \in Envelope /\ Flows(N, e.unit, sent[N], N)' /\ Follows(e, got[N + 1], N)
    BY <1>0, <1>1, <1>2, <2>1, <2>2, UnitTaken
  <2>4. e.unit \in Mark
    BY <2>3, Envelopes, MarksOK
  <2>5. delivered' = delivered /\ got[N + 1] = LastSeen
    BY <1>1, <1>11, <2>2 DEF HostUnitFails, result
  <2>6. Follows(e, LastSeen, N)'
    BY <2>3, <2>5 DEF Follows, Lists
  <2>7. AtTerminal(e.unit)'
    BY <1>2, <2>2, <2>3, <2>6
  <2> QED
    BY <2>3, <2>4, <2>7
<1>10. CASE CloseNext(Main) \/ StartFails \/ HostRaises \/ HostInterrupted \/ Close
  <2>1. /\ chan' = chan /\ delivered' = delivered /\ pc'[Main] \in {"closing", "join"}
    BY <1>0, <1>10 DEF CloseNext, StartFails, HostRaises, HostInterrupted,
       Fail, Close, Cancel, Goto, ThreadsOK, result
  <2>2. AtTerminal(got[N + 1])'
    BY <1>1, <1>2, <2>1 DEF Follows, Lists
  <2> QED
    BY <1>1, <1>4, <2>1, <2>2
<1> QED
  BY <1>6, <1>7, <1>8, <1>9, <1>10, <1>11 DEF Calls

-----------------------------------------------------------------------------
(* Boundaries *)

\* Boundaries are units, the first unit is one, and every unit has one at or before it.
LEMMA BoundariesOK ==
  /\ \A c \in Boundary : c \in Int /\ c >= 1
  /\ \A e, u : IsEpoch(e, u) => e \in Int
<1>1. \A c \in Boundary : c = 1 \/ c \in Unit
  BY GraphConstants DEF Boundary
<1>2. \A c \in Boundary : c \in Int /\ c >= 1
  BY <1>1 DEF Unit
<1>3. \A e, u : IsEpoch(e, u) => e \in Boundary \/ e = 0
  BY DEF IsEpoch
<1> QED
  BY <1>2, <1>3

\* The boundaries since a are those since the last one at or before a.
LEMMA ListsSinceEpoch ==
  ASSUME NEW s, NEW a \in Mark, NEW g \in Mark, NEW e, IsEpoch(e, a), Lists(s, a, g)
  PROVE  Lists(s, e, g)
<1>1. e \in Int /\ a \in Int /\ \A c \in Boundary : c \in Int
  BY BoundariesOK, MarksOK
<1>2. {c \in Boundary : a < c /\ c <= g} = {c \in Boundary : e < c /\ c <= g}
  BY <1>1 DEF IsEpoch
<1> QED
  BY <1>2 DEF Lists

\* The boundaries up to the last one at or before u are those up to u.
LEMMA ListsUpToEpoch ==
  ASSUME NEW s, NEW a \in Mark, NEW u \in Mark, NEW e, IsEpoch(e, u), Lists(s, a, e)
  PROVE  Lists(s, a, u)
<1>1. e \in Int /\ u \in Int /\ a \in Int /\ \A c \in Boundary : c \in Int
  BY BoundariesOK, MarksOK
<1>2. {c \in Boundary : a < c /\ c <= e} = {c \in Boundary : a < c /\ c <= u}
  BY <1>1 DEF IsEpoch
<1> QED
  BY <1>2 DEF Lists

\* Where no boundary lies between, the shot is the same.
LEMMA SameShot ==
  ASSUME NEW a \in Mark, NEW g \in Mark, a <= g, NEW e, IsEpoch(e, a), Lists(<<>>, a, g)
  PROVE  IsEpoch(e, g)
<1>1. e \in Int /\ a \in Int /\ g \in Int /\ \A c \in Boundary : c \in Int
  BY BoundariesOK, MarksOK
<1>2. {c \in Boundary : a < c /\ c <= g} = {}
  BY DEF Lists
<1> QED
  BY <1>1, <1>2 DEF IsEpoch

\* After a unit no boundary waits that is not past it.
LEMMA NoneSince ==
  ASSUME NEW u \in Mark, NEW e, IsEpoch(e, u)
  PROVE  Lists(<<>>, u, e)
<1>1. e \in Int /\ u \in Int /\ \A c \in Boundary : c \in Int
  BY BoundariesOK, MarksOK
<1>2. {c \in Boundary : u < c /\ c <= e} = {}
  BY <1>1 DEF IsEpoch
<1> QED
  BY <1>2 DEF Lists

\* A reset for the boundaries b of unit g after s.
LEMMA ListsJoin ==
  ASSUME NEW s \in Seq(Unit), NEW b \in Seq(Unit), b # <<>>, NEW m \in Mark, NEW g \in Mark,
         NEW e \in Mark, Lists(s, m, e), \A c \in Boundary : c <= m => c <= e, Lists(b, e, g)
  PROVE  /\ Lists(s \o b, m, b[Len(b)]) /\ IsEpoch(b[Len(b)], g)
         /\ \A c \in Boundary : c <= m => c <= b[Len(b)]
<1> DEFINE r == s \o b
           n == Len(b)
<1>1. /\ Len(s) \in Nat /\ n \in Nat /\ n >= 1 /\ DOMAIN s = 1..Len(s) /\ DOMAIN b = 1..n
      /\ DOMAIN r = 1..(Len(s) + n) /\ \A k \in 1..Len(s) : r[k] = s[k]
      /\ \A k \in (Len(s) + 1)..(Len(s) + n) : r[k] = b[k - Len(s)]
      /\ \A k \in DOMAIN s : s[k] \in Unit
      /\ \A k \in DOMAIN b : b[k] \in Unit
  OBVIOUS
<1>2. /\ e \in Int /\ m \in Int /\ g \in Int /\ \A c \in Boundary : c \in Int
      /\ \A c \in Unit : c \in Int
  BY BoundariesOK, MarksOK
<1> HIDE DEF r, n
<1>3. /\ \A k \in DOMAIN s : s[k] \in Boundary /\ m < s[k] /\ s[k] <= e
      /\ \A c \in Boundary : m < c /\ c <= e => \E k \in DOMAIN s : s[k] = c
      /\ \A j, k \in DOMAIN s : j < k => s[j] < s[k]
  <2>1. {s[k] : k \in DOMAIN s} = {c \in Boundary : m < c /\ c <= e}
    BY DEF Lists
  <2> QED
    BY <2>1 DEF Lists
<1>4. /\ \A k \in DOMAIN b : b[k] \in Boundary /\ e < b[k] /\ b[k] <= g
      /\ \A c \in Boundary : e < c /\ c <= g => \E k \in DOMAIN b : b[k] = c
      /\ \A j, k \in DOMAIN b : j < k => b[j] < b[k]
  <2>1. {b[k] : k \in DOMAIN b} = {c \in Boundary : e < c /\ c <= g}
    BY DEF Lists
  <2> QED
    BY <2>1 DEF Lists
<1>5. n \in DOMAIN b /\ \A k \in DOMAIN b : b[k] <= b[n]
  <2> SUFFICES ASSUME NEW k \in DOMAIN b PROVE b[k] <= b[n]
    BY <1>1
  <2>1. n \in DOMAIN b /\ b[k] \in Int /\ b[n] \in Int
    BY <1>1, <1>2
  <2>2. CASE k = n
    BY <2>1, <2>2
  <2>3. CASE k # n
    <3>1. k < n
      BY <1>1, <2>3
    <3> QED
      BY <1>4, <2>1, <3>1
  <2> QED
    BY <2>2, <2>3
<1>6. b[n] \in Boundary /\ e < b[n] /\ b[n] <= g /\ b[n] \in Int
  BY <1>2, <1>4, <1>5
<1>7. \A c \in Boundary : c <= g => c <= b[n]
  <2> SUFFICES ASSUME NEW c \in Boundary, c <= g PROVE c <= b[n]
    OBVIOUS
  <2>1. CASE c <= e
    BY <1>2, <1>6, <2>1
  <2>2. CASE e < c
    BY <1>4, <1>5, <2>2
  <2> QED
    BY <1>2, <2>1, <2>2
<1>8. \A c \in Boundary : c <= m => c <= b[n]
  BY <1>2, <1>6
<1>9. \A k \in DOMAIN r : \/ k \in DOMAIN s /\ r[k] = s[k]
                          \/ k - Len(s) \in DOMAIN b /\ r[k] = b[k - Len(s)] /\ k \notin DOMAIN s
  BY <1>1
<1>10. \A k \in DOMAIN r : r[k] \in Boundary /\ m < r[k] /\ r[k] <= b[n]
  <2> SUFFICES ASSUME NEW k \in DOMAIN r PROVE r[k] \in Boundary /\ m < r[k] /\ r[k] <= b[n]
    OBVIOUS
  <2>1. CASE k \in DOMAIN s /\ r[k] = s[k]
    BY <1>2, <1>3, <1>6, <2>1
  <2>2. CASE k - Len(s) \in DOMAIN b /\ r[k] = b[k - Len(s)]
    <3>1. r[k] \in Boundary /\ e < r[k] /\ r[k] <= b[n]
      BY <1>4, <1>5, <2>2
    <3>2. ~(r[k] <= m)
      BY <1>2, <3>1
    <3> QED
      BY <1>2, <3>1, <3>2
  <2> QED
    BY <1>9, <2>1, <2>2
<1>11. \A c \in Boundary : m < c /\ c <= b[n] => \E k \in DOMAIN r : r[k] = c
  <2> SUFFICES ASSUME NEW c \in Boundary, m < c, c <= b[n] PROVE \E k \in DOMAIN r : r[k] = c
    OBVIOUS
  <2>1. CASE c <= e
    <3>1. PICK k \in DOMAIN s : s[k] = c
      BY <1>3, <2>1
    <3> QED
      BY <1>1, <3>1
  <2>2. CASE ~(c <= e)
    <3>1. PICK k \in DOMAIN b : b[k] = c
      BY <1>2, <1>4, <1>6, <2>2
    <3>2. k + Len(s) \in DOMAIN r /\ r[k + Len(s)] = b[k]
      BY <1>1
    <3> QED
      BY <3>1, <3>2
  <2> QED
    BY <2>1, <2>2
<1>12. \A j, k \in DOMAIN r : j < k => r[j] < r[k]
  <2> SUFFICES ASSUME NEW j \in DOMAIN r, NEW k \in DOMAIN r, j < k PROVE r[j] < r[k]
    OBVIOUS
  <2>1. CASE k \in DOMAIN s
    BY <1>1, <1>3, <2>1
  <2>2. CASE j \in DOMAIN s /\ k \notin DOMAIN s
    <3>1. r[j] <= e /\ e < r[k] /\ r[j] \in Int /\ r[k] \in Int
      BY <1>1, <1>2, <1>3, <1>4, <1>9, <2>2
    <3> QED
      BY <1>2, <3>1
  <2>3. CASE j \notin DOMAIN s
    <3>1. /\ j - Len(s) \in DOMAIN b /\ r[j] = b[j - Len(s)]
          /\ k - Len(s) \in DOMAIN b /\ r[k] = b[k - Len(s)] /\ j - Len(s) < k - Len(s)
      BY <1>1, <2>3
    <3> QED
      BY <1>4, <3>1
  <2> QED
    BY <2>1, <2>2, <2>3
<1>13. {r[k] : k \in DOMAIN r} = {c \in Boundary : m < c /\ c <= b[n]}
  BY <1>10, <1>11
<1>14. Lists(r, m, b[n])
  BY <1>12, <1>13 DEF Lists
<1>15. IsEpoch(b[n], g)
  BY <1>6, <1>7 DEF IsEpoch
<1> QED
  BY <1>8, <1>14, <1>15 DEF r, n

\* What the first i processors swallow.
LEMMA DroppedGrows ==
  ASSUME NEW i \in Stage
  PROVE  \A u : u \in DroppedBy(i) <=> u \in DroppedBy(i - 1) \/ u \in Drops[i]
<1>1. 1..i = 1..(i - 1) \cup {i}
  BY GraphConstants DEF Stage
<1> QED
  BY <1>1 DEF DroppedBy

-----------------------------------------------------------------------------
(* A stage actor: what it holds *)

\* The first unit of an increasing sequence comes before the others.
LEMMA SplitIncreasing ==
  ASSUME NEW s \in Seq(Unit), s # <<>>, Increasing(s)
  PROVE  /\ Head(s) \in Unit /\ Tail(s) \in Seq(Unit)
         /\ Increasing(Tail(s)) /\ Increasing(<<Head(s)>>)
         /\ \A v \in UnitsOf(Tail(s)) : Head(s) < v
         /\ \A v : v \in UnitsOf(s) <=> v = Head(s) \/ v \in UnitsOf(Tail(s))
         /\ \A v : v \in UnitsOf(<<Head(s)>>) <=> v = Head(s)
<1> DEFINE r == Tail(s)
<1>1. /\ Len(s) \in Nat /\ Len(s) >= 1 /\ DOMAIN s = 1..Len(s) /\ Head(s) = s[1]
      /\ DOMAIN r = 1..(Len(s) - 1) /\ \A k \in 1..(Len(s) - 1) : r[k] = s[k + 1]
      /\ r \in Seq(Unit) /\ Head(s) \in Unit
  OBVIOUS
<1> HIDE DEF r
<1>2. Increasing(r)
  <2> SUFFICES ASSUME NEW j \in DOMAIN r, NEW k \in DOMAIN r, j < k PROVE r[j] < r[k]
    BY DEF Increasing
  <2>1. /\ j + 1 \in DOMAIN s /\ k + 1 \in DOMAIN s /\ j + 1 < k + 1
        /\ r[j] = s[j + 1] /\ r[k] = s[k + 1]
    BY <1>1
  <2> QED
    BY <2>1 DEF Increasing
<1>3. Increasing(<<Head(s)>>) /\ \A v : v \in UnitsOf(<<Head(s)>>) <=> v = Head(s)
  BY DEF Increasing, UnitsOf
<1>4. \A v \in UnitsOf(r) : Head(s) < v
  <2> SUFFICES ASSUME NEW k \in DOMAIN r PROVE Head(s) < r[k]
    BY DEF UnitsOf
  <2>1. k + 1 \in DOMAIN s /\ 1 \in DOMAIN s /\ 1 < k + 1 /\ r[k] = s[k + 1]
    BY <1>1
  <2> QED
    BY <1>1, <2>1 DEF Increasing
<1>5. \A v : v \in UnitsOf(s) <=> v = Head(s) \/ v \in UnitsOf(r)
  <2>1. \A k \in DOMAIN s : s[k] = Head(s) \/ s[k] \in UnitsOf(r)
    <3> SUFFICES ASSUME NEW k \in DOMAIN s PROVE s[k] = Head(s) \/ s[k] \in UnitsOf(r)
      OBVIOUS
    <3>1. CASE k = 1
      BY <1>1, <3>1
    <3>2. CASE k # 1
      <4>1. k - 1 \in DOMAIN r /\ r[k - 1] = s[k]
        BY <1>1, <3>2
      <4> QED
        BY <4>1 DEF UnitsOf
    <3> QED
      BY <3>1, <3>2
  <2>2. \A k \in DOMAIN r : r[k] \in UnitsOf(s)
    <3> SUFFICES ASSUME NEW k \in DOMAIN r PROVE r[k] \in UnitsOf(s)
      OBVIOUS
    <3>1. k + 1 \in DOMAIN s /\ r[k] = s[k + 1]
      BY <1>1
    <3> QED
      BY <3>1 DEF UnitsOf
  <2>3. Head(s) \in UnitsOf(s)
    BY <1>1 DEF UnitsOf
  <2> QED
    BY <2>1, <2>2, <2>3 DEF UnitsOf
<1> QED
  BY <1>1, <1>2, <1>3, <1>4, <1>5 DEF r

\* A unit behind all others.
LEMMA AppendIncreasing ==
  ASSUME NEW s \in Seq(Unit), Increasing(s), NEW u \in Unit, \A v \in UnitsOf(s) : v < u
  PROVE  /\ Append(s, u) \in Seq(Unit) /\ Increasing(Append(s, u))
         /\ \A v : v \in UnitsOf(Append(s, u)) <=> v = u \/ v \in UnitsOf(s)
<1> DEFINE r == Append(s, u)
<1>1. /\ Len(s) \in Nat /\ DOMAIN s = 1..Len(s) /\ DOMAIN r = 1..(Len(s) + 1)
      /\ r[Len(s) + 1] = u /\ \A k \in 1..Len(s) : r[k] = s[k]
      /\ r \in Seq(Unit)
  OBVIOUS
<1> HIDE DEF r
<1>2. \A k \in DOMAIN s : s[k] < u
  BY DEF UnitsOf
<1>3. Increasing(r)
  <2> SUFFICES ASSUME NEW j \in DOMAIN r, NEW k \in DOMAIN r, j < k PROVE r[j] < r[k]
    BY DEF Increasing
  <2>1. CASE k = Len(s) + 1
    BY <1>1, <1>2, <2>1
  <2>2. CASE k # Len(s) + 1
    BY <1>1, <2>2 DEF Increasing
  <2> QED
    BY <2>1, <2>2
<1>4. \A v : v \in UnitsOf(r) <=> v = u \/ v \in UnitsOf(s)
  <2>1. \A k \in DOMAIN r : r[k] = u \/ r[k] \in UnitsOf(s)
    BY <1>1 DEF UnitsOf
  <2>2. \A k \in DOMAIN s : s[k] \in UnitsOf(r)
    BY <1>1 DEF UnitsOf
  <2>3. u \in UnitsOf(r)
    BY <1>1 DEF UnitsOf
  <2> QED
    BY <2>1, <2>2, <2>3 DEF UnitsOf
<1> QED
  BY <1>1, <1>3, <1>4 DEF r

\* A processor that holds nothing.
LEMMA NothingHeld ==
  /\ UnitsOf(<<>>) = {} /\ Increasing(<<>>) /\ DOMAIN <<>> = {}
BY DEF UnitsOf, Increasing

-----------------------------------------------------------------------------
(* A stage actor: its steps *)

\* The stage waits for a message or is through with one.
Waits(i) == pc[Worker(i)] \in {"new", "top", "get", "release"}

\* A stage that goes on waiting stays as it is inside.
LEMMA WaitsOn ==
  ASSUME Onward, NEW i \in Stage, Waits(i), Waits(i)', iter'[i] = iter[i], window'[i] = window[i],
         epoch'[i] = epoch[i], marks'[i] = marks[i], i \in started' <=> i \in started,
         NEW g, NEW m, NEW p, Inside(i, g, m, p)
  PROVE  Inside(i, g, m, p)'
<1>1. /\ Alive(Worker(i)) /\ ~Turning(i) /\ ~Unseen(i) /\ ~Ending(i) /\ pc[Worker(i)] # "put"
      /\ pc[Worker(i)] \notin {"publish", "emit"}
  BY DEF Waits, Alive, Turning, Unseen, Ending, Flushing
<1>2. /\ ~Turning(i)' /\ ~Unseen(i)' /\ ~Ending(i)' /\ pc'[Worker(i)] # "put"
      /\ pc'[Worker(i)] \notin {"publish", "emit"} /\ Held(i)' = Held(i)
  BY DEF Waits, Turning, Unseen, Ending, Flushing, Held
<1>3. InOrder(i, g, m)'
  BY <1>1, <1>2 DEF Inside, InOrder, Increasing, IsEpoch, Over, Onward
<1>4. InShot(i, g, m)'
  BY <1>1, <1>2 DEF Inside, InShot, Lists, IsEpoch
<1>5. Emptied(i)'
  BY <1>1, <1>2 DEF Inside, Emptied
<1>6. m = p
  BY <1>1 DEF Inside
<1> QED
  BY <1>2, <1>3, <1>4, <1>5, <1>6 DEF Inside

\* The end of the stream arrives: the flush begins.
LEMMA GetEosInside ==
  ASSUME TypeInv, NEW i \in Stage, StageGetEos(i),
         NEW g, NEW m, NEW p, Inside(i, g, m, p), ~cancelled => Over(g, i - 1)
  PROVE  Inside(i, g, m, p)'
<1>0. /\ pc[Worker(i)] = "get" /\ pc'[Worker(i)] = "publish" /\ kind'[i] = "eos"
      /\ iter'[i] = window[i] /\ window'[i] = <<>> /\ epoch' = epoch /\ marks' = marks
      /\ started' = started /\ cancelled' = cancelled
  BY Threads DEF StageGetEos, StartFlush, Goto, TypeInv, TypeOK, ThreadsOK, StagesOK, supervision
<1>1. /\ Alive(Worker(i)) /\ ~Turning(i) /\ ~Unseen(i)
      /\ ~Turning(i)' /\ ~Unseen(i)' /\ Ending(i)'
  BY <1>0 DEF Alive, Turning, Unseen, Ending, Flushing
<1>2. InOrder(i, g, m) /\ InShot(i, g, m) /\ iter[i] = <<>> /\ m = p
  BY <1>0, <1>1 DEF Inside, Emptied
<1>3. Held(i)' = Held(i)
  BY <1>0, <1>2, NothingHeld DEF Held
<1>4. InOrder(i, g, m)'
  BY <1>0, <1>1, <1>2, <1>3, NothingHeld DEF InOrder, Increasing, IsEpoch, Over
<1>5. InShot(i, g, m)'
  BY <1>0, <1>1, <1>2 DEF InShot, Lists, IsEpoch
<1>6. Emptied(i)'
  BY <1>0 DEF Emptied
<1> QED
  BY <1>0, <1>2, <1>4, <1>5, <1>6 DEF Inside

\* A unit arrives: what the stage holds is before it.
LEMMA GetUnitInside ==
  ASSUME TypeInv, NEW i \in Stage, StageGetUnit(i), NEW e \in Envelope, e = Head(chan[i - 1]),
         NEW g \in Mark, NEW m \in Mark, NEW p, Inside(i, g, m, p), Follows(e, g, i - 1)
  PROVE  Inside(i, e.unit, m, p)'
<1>0. /\ pc[Worker(i)] = "get" /\ cur'[Worker(i)] = e /\ epoch' = epoch /\ marks' = marks
      /\ started' = started /\ cancelled' = cancelled /\ window[i] \in Seq(Unit)
      /\ IF NeedsFlush(i, e.bnds)
         THEN pc'[Worker(i)] = "publish" /\ kind'[i] = "boundary"
         ELSE pc'[Worker(i)] = IF e.bnds # <<>> THEN "reset" ELSE "process"
      /\ IF NeedsFlush(i, e.bnds)
         THEN iter'[i] = window[i] /\ window'[i] = <<>>
         ELSE iter'[i] = iter[i] /\ window'[i] = window[i]
  BY Threads DEF StageGetUnit, StartFlush, Goto, TypeInv, TypeOK, ThreadsOK, StagesOK,
     supervision, stageState
<1>1. /\ Alive(Worker(i)) /\ ~Turning(i) /\ ~Unseen(i) /\ ~Ending(i)
      /\ Turning(i)' <=> e.bnds # <<>>
      /\ Unseen(i)' /\ ~Ending(i)'
  BY <1>0 DEF Alive, Turning, Unseen, Ending, Flushing, NeedsFlush
<1>2. InOrder(i, g, m) /\ InShot(i, g, m) /\ Emptied(i) /\ iter[i] = <<>> /\ m = p
  BY <1>0, <1>1 DEF Inside, Emptied
<1>3. Held(i)' = Held(i)
  BY <1>0, <1>2, NothingHeld DEF Held
<1>4. /\ e.unit \in Mark /\ g \in Int /\ m \in Int /\ e.unit \in Int /\ g < e.unit
      /\ \A u \in Unit : u \in Int
  BY MarksOK, Envelopes DEF Follows
<1>5. \A u \in Held(i) : u \in Int
  <2>1. \A k \in DOMAIN window[i] : window[i][k] \in Unit
    BY <1>0
  <2> QED
    BY <1>2, <1>4, <2>1, NothingHeld DEF Held, UnitsOf
<1>6. /\ Increasing(iter'[i]) /\ Increasing(window'[i])
      /\ \A j \in DOMAIN iter'[i], k \in DOMAIN window'[i] : iter'[i][j] < window'[i][k]
  BY <1>0, <1>2, NothingHeld DEF InOrder
<1>7. \A u \in Held(i) : m < u /\ u <= g /\ u <= e.unit /\ u # e.unit
                         /\ u \notin DroppedBy(i) /\ IsEpoch(epoch[i], u)
  BY <1>2, <1>4, <1>5 DEF InOrder
<1>8. m <= g /\ m < e.unit /\ m <= e.unit
  BY <1>2, <1>4 DEF InOrder
<1>9. ~cancelled => \A u \in Unit : m < u /\ u <= e.unit =>
        u \in Held(i) \cup DroppedBy(i) \/ u = e.unit
  <2> SUFFICES ASSUME ~cancelled, NEW u \in Unit, m < u, u <= e.unit, u # e.unit
               PROVE u \in Held(i) \cup DroppedBy(i)
    OBVIOUS
  <2>1. CASE u <= g
    BY <1>1, <1>2, <2>1 DEF InOrder
  <2>2. CASE ~(u <= g)
    <3>1. u \in DroppedBy(i - 1)
      BY <1>4, <2>2 DEF Follows
    <3> QED
      BY <3>1, DroppedGrows
  <2> QED
    BY <2>1, <2>2
<1>10. InOrder(i, e.unit, m)'
  <2>1. e.unit \notin DroppedBy(i - 1)
    BY DEF Follows
  <2>2. /\ Increasing(iter[i])' /\ Increasing(window[i])'
    BY <1>6 DEF Increasing
  <2>3. \A u : IsEpoch(epoch[i], u)' <=> IsEpoch(epoch[i], u)
    BY <1>0 DEF IsEpoch
  <2> QED
    BY <1>0, <1>1, <1>3, <1>6, <1>7, <1>8, <1>9, <2>1, <2>2, <2>3 DEF InOrder
<1>11. InShot(i, e.unit, m)'
  <2>1. /\ Lists(marks[i], m, epoch[i]) /\ \A c \in Boundary : c <= m => c <= epoch[i]
    BY <1>2 DEF InShot
  <2>2. IsEpoch(epoch[i], g) /\ Lists(e.bnds, g, e.unit)
    BY <1>1, <1>2 DEF InShot, Follows
  <2>3. Lists(e.bnds, epoch[i], e.unit)
    BY <1>4, <2>2, ListsSinceEpoch
  <2>4. e.bnds = <<>> => IsEpoch(epoch[i], e.unit)
    BY <1>4, <2>2, SameShot
  <2> QED
    BY <1>0, <1>1, <2>1, <2>3, <2>4 DEF InShot, Lists, IsEpoch
<1>12. Emptied(i)'
  BY <1>0, <1>1, <1>2 DEF Emptied, NeedsFlush
<1>13. pc'[Worker(i)] # "put"
  BY <1>0
<1> QED
  BY <1>2, <1>10, <1>11, <1>12, <1>13 DEF Inside

\* The processor is reset for the last boundary of the unit in hand.
LEMMA ResetInside ==
  ASSUME TypeInv, NEW i \in Stage, StageReset(i),
         NEW g \in Mark, NEW m \in Mark, NEW p, Inside(i, g, m, p)
  PROVE  Inside(i, g, m, p)'
<1> DEFINE b == cur[Worker(i)].bnds
<1>0. /\ pc[Worker(i)] = "reset" /\ pc'[Worker(i)] = "process" /\ cur' = cur /\ iter' = iter
      /\ window'[i] = <<>> /\ epoch'[i] = b[Len(b)] /\ marks'[i] = marks[i] \o b
      /\ started' = started /\ cancelled' = cancelled /\ marks[i] \in Seq(Unit)
      /\ epoch[i] \in Mark
  BY Threads DEF StageReset, Goto, TypeInv, TypeOK, ThreadsOK, StagesOK, supervision, Mark
<1>1. cur[Worker(i)] \in Envelope /\ b \in Seq(Unit) /\ b # <<>>
  BY <1>0, Envelopes DEF TypeInv, InHand
<1>2. /\ Alive(Worker(i)) /\ Turning(i) /\ Unseen(i) /\ ~Ending(i)
      /\ ~Turning(i)' /\ Unseen(i)' /\ ~Ending(i)'
  BY <1>0 DEF Alive, Turning, Unseen, Ending, Flushing
<1>3. /\ InOrder(i, g, m) /\ InShot(i, g, m) /\ iter[i] = <<>> /\ window[i] = <<>> /\ m = p
  BY <1>0, <1>2 DEF Inside, Emptied
<1>4. Held(i) = {} /\ Held(i)' = {}
  BY <1>0, <1>3, NothingHeld DEF Held
<1>5. InOrder(i, g, m)'
  BY <1>0, <1>2, <1>3, <1>4, NothingHeld DEF InOrder, Increasing, IsEpoch
<1>6. /\ Lists(marks[i] \o b, m, b[Len(b)]) /\ IsEpoch(b[Len(b)], g)
      /\ \A c \in Boundary : c <= m => c <= b[Len(b)]
  <2>1. /\ Lists(marks[i], m, epoch[i]) /\ \A c \in Boundary : c <= m => c <= epoch[i]
        /\ Lists(b, epoch[i], g)
    BY <1>2, <1>3 DEF InShot
  <2> HIDE DEF b
  <2> QED
    BY <1>0, <1>1, <2>1, ListsJoin
<1> HIDE DEF b
<1>7. InShot(i, g, m)'
  BY <1>0, <1>2, <1>6 DEF InShot, Lists, IsEpoch
<1>8. Emptied(i)'
  BY <1>0, <1>3 DEF Emptied
<1> QED
  BY <1>0, <1>3, <1>5, <1>7, <1>8 DEF Inside

\* The processor takes in the unit in hand, or swallows it, and may yield the
\* oldest one it holds.
LEMMA ProcessInside ==
  ASSUME TypeInv, NEW i \in Stage, StageProcess(i),
         NEW g \in Mark, NEW m \in Mark, NEW p, Inside(i, g, m, p)
  PROVE  Inside(i, g, m, p)'
<1> DEFINE held == IF g \in Drops[i] THEN window[i] ELSE Append(window[i], g)
<1>0. /\ pc[Worker(i)] = "process" /\ pc'[Worker(i)] = "publish" /\ kind'[i] = "process"
      /\ epoch' = epoch /\ marks' = marks /\ cur' = cur /\ i \in started'
      /\ cancelled' = cancelled /\ window[i] \in Seq(Unit) /\ cur[Worker(i)] \in Envelope
  BY Threads DEF StageProcess, Goto, TypeInv, TypeOK, ThreadsOK, StagesOK, InHand, supervision
<1>1. /\ Alive(Worker(i)) /\ ~Turning(i) /\ Unseen(i) /\ ~Ending(i)
      /\ ~Turning(i)' /\ ~Unseen(i)' /\ ~Ending(i)'
  BY <1>0 DEF Alive, Turning, Unseen, Ending, Flushing
<1>2. InOrder(i, g, m) /\ InShot(i, g, m) /\ iter[i] = <<>> /\ m = p
  BY <1>0, <1>1 DEF Inside, Emptied
<1>3. /\ cur[Worker(i)].unit = g /\ g \in Unit /\ m < g /\ g \notin Held(i)
      /\ g \notin DroppedBy(i - 1) /\ IsEpoch(epoch[i], g)
  BY <1>0, <1>1, <1>2, Envelopes DEF InOrder, InShot
<1>4. IF Len(held) > Delay[i]
      THEN iter'[i] = <<Head(held)>> /\ window'[i] = Tail(held)
      ELSE iter'[i] = <<>> /\ window'[i] = held
  BY <1>3 DEF StageProcess, TypeInv, TypeOK, StagesOK
<1>5. \A u : u \in Held(i) <=> u \in UnitsOf(window[i])
  BY <1>2, NothingHeld DEF Held
<1>6. \A u \in Held(i) : u \in Unit /\ u \in Int /\ m < u /\ u < g /\ u \notin DroppedBy(i)
                         /\ IsEpoch(epoch[i], u)
  <2>1. \A k \in DOMAIN window[i] : window[i][k] \in Unit
    BY <1>0
  <2>2. \A u \in Held(i) : u \in Unit
    BY <1>5, <2>1 DEF UnitsOf
  <2> QED
    BY <1>2, <1>3, <2>2, MarksOK DEF InOrder
<1>7. /\ held \in Seq(Unit) /\ Increasing(held)
      /\ \A u : u \in UnitsOf(held) <=> u \in Held(i) \/ (u = g /\ g \notin Drops[i])
  <2>1. Increasing(window[i])
    BY <1>2 DEF InOrder
  <2>2. CASE g \in Drops[i]
    BY <1>0, <1>5, <2>1, <2>2
  <2>3. CASE g \notin Drops[i]
    <3>1. \A v \in UnitsOf(window[i]) : v < g
      BY <1>5, <1>6
    <3> QED
      BY <1>0, <1>3, <1>5, <2>1, <2>3, <3>1, AppendIncreasing
  <2> QED
    BY <2>2, <2>3
<1>8. /\ Increasing(iter'[i]) /\ Increasing(window'[i])
      /\ \A j \in DOMAIN iter'[i], k \in DOMAIN window'[i] : iter'[i][j] < window'[i][k]
      /\ \A u : u \in Held(i)' <=> u \in UnitsOf(held)
  <2>1. CASE Len(held) > Delay[i]
    <3> HIDE DEF held
    <3>1. held # <<>>
      <4>1. Delay[i] \in Nat
        BY GraphConstants
      <4> QED
        BY <1>7, <2>1, <4>1
    <3>2. /\ Increasing(Tail(held)) /\ Increasing(<<Head(held)>>)
          /\ \A v \in UnitsOf(Tail(held)) : Head(held) < v
          /\ \A v : v \in UnitsOf(held) <=> v = Head(held) \/ v \in UnitsOf(Tail(held))
          /\ \A v : v \in UnitsOf(<<Head(held)>>) <=> v = Head(held)
      BY <1>7, <3>1, SplitIncreasing
    <3>3. iter'[i] = <<Head(held)>> /\ window'[i] = Tail(held)
      BY <1>4, <2>1
    <3>4. \A j \in DOMAIN iter'[i], k \in DOMAIN window'[i] : iter'[i][j] < window'[i][k]
      BY <3>2, <3>3 DEF UnitsOf
    <3>5. \A u : u \in Held(i)' <=> u \in UnitsOf(held)
      <4>1. /\ \A u : u \in Held(i)' <=> u \in UnitsOf(iter'[i]) \/ u \in UnitsOf(window'[i])
        BY ONLY DEF Held, UnitsOf
      <4> QED
        BY ONLY <3>2, <3>3, <4>1
    <3> QED
      BY <3>2, <3>3, <3>4, <3>5
  <2>2. CASE ~(Len(held) > Delay[i])
    <3>1. iter'[i] = <<>> /\ window'[i] = held
      BY <1>4, <2>2
    <3> HIDE DEF held
    <3> QED
      BY <1>7, <3>1, NothingHeld DEF Held, UnitsOf
  <2> QED
    BY <2>1, <2>2
<1> HIDE DEF held
<1>9. InOrder(i, g, m)'
  <2>1. m <= g /\ g <= g
    BY <1>2, MarksOK DEF InOrder
  <2>2. \A u \in Held(i)' : m < u /\ u <= g /\ u \notin DroppedBy(i) /\ IsEpoch(epoch[i], u)
    BY <1>3, <1>6, <1>7, <1>8, <2>1, DroppedGrows, MarksOK
  <2>3. ~cancelled => \A u \in Unit : m < u /\ u <= g => u \in Held(i)' \/ u \in DroppedBy(i)
    BY <1>1, <1>2, <1>7, <1>8, DroppedGrows DEF InOrder
  <2>4. Increasing(iter[i])' /\ Increasing(window[i])'
    BY <1>8 DEF Increasing
  <2>5. \A u : IsEpoch(epoch[i], u)' <=> IsEpoch(epoch[i], u)
    BY <1>0 DEF IsEpoch
  <2> QED
    BY <1>0, <1>1, <1>8, <2>1, <2>2, <2>3, <2>4, <2>5 DEF InOrder
<1>10. InShot(i, g, m)'
  BY <1>0, <1>1, <1>2 DEF InShot, Lists, IsEpoch
<1>11. Emptied(i)'
  BY <1>0, <1>1 DEF Emptied
<1> QED
  BY <1>0, <1>2, <1>9, <1>10, <1>11 DEF Inside

\* A turn begins: not cancelled, the stage still covers what it got.
LEMMA TurnInside ==
  ASSUME TypeInv, NEW i \in Stage, StageTurn(i),
         NEW g, NEW m, NEW p, Inside(i, g, m, p)
  PROVE  Inside(i, g, m, p)'
<1>0. /\ pc[Worker(i)] = "publish" /\ pc'[Worker(i)] = "emit" /\ ~cancelled
      /\ UNCHANGED <<cancelled, cur, window, iter, kind, marks, started, epoch>>
  BY Threads DEF StageTurn, Move, Goto, TypeInv, TypeOK, ThreadsOK, others, supervision,
     stageState
<1>1. /\ Alive(Worker(i)) /\ (Turning(i)' <=> Turning(i))
      /\ (Unseen(i)' <=> Unseen(i)) /\ (Ending(i)' <=> Ending(i)) /\ Held(i)' = Held(i)
  BY <1>0 DEF Alive, Turning, Unseen, Ending, Flushing, Held
<1>2. InOrder(i, g, m) /\ InShot(i, g, m) /\ Emptied(i) /\ m = p
  BY <1>0, <1>1 DEF Inside
<1>3. InOrder(i, g, m)'
  BY <1>0, <1>1, <1>2 DEF InOrder, Increasing, IsEpoch, Over
<1>4. InShot(i, g, m)'
  BY <1>0, <1>1, <1>2 DEF InShot, Lists, IsEpoch
<1>5. Emptied(i)'
  BY <1>0, <1>1, <1>2 DEF Emptied
<1> QED
  BY <1>0, <1>2, <1>3, <1>4, <1>5 DEF Inside

\* The oldest unit leaves, with the boundaries that wait.
LEMMA EmitInside ==
  ASSUME TypeInv, NEW i \in Stage, StageEmit(i), NEW u, u = Head(iter[i]),
         NEW g \in Mark, NEW m \in Mark, NEW p, Inside(i, g, m, p)
  PROVE  u \in Unit /\ m < u /\ Inside(i, g, u, p)'
<1>0. /\ pc[Worker(i)] = "emit" /\ pc'[Worker(i)] = "put" /\ kind' = kind /\ cur' = cur
      /\ cancelled' = cancelled /\ epoch' = epoch /\ marks'[i] = <<>> /\ window' = window
      /\ iter[i] # <<>> /\ iter'[i] = Tail(iter[i]) /\ started' = started
      /\ out'[i].unit = u /\ out'[i].bnds = marks[i]
      /\ iter[i] \in Seq(Unit) /\ window[i] \in Seq(Unit)
  BY Threads DEF StageEmit, Goto, Wrap, TypeInv, TypeOK, ThreadsOK, StagesOK, supervision
<1>1. /\ Alive(Worker(i)) /\ (Turning(i)' <=> Turning(i))
      /\ (Unseen(i)' <=> Unseen(i)) /\ (Ending(i)' <=> Ending(i))
  BY <1>0 DEF Alive, Turning, Unseen, Ending, Flushing
<1>2. InOrder(i, g, m) /\ InShot(i, g, m) /\ Emptied(i) /\ m = p
  BY <1>0, <1>1 DEF Inside
<1>3. /\ u \in Unit /\ Increasing(Tail(iter[i])) /\ \A v \in UnitsOf(Tail(iter[i])) : u < v
      /\ \A v : v \in UnitsOf(iter[i]) <=> v = u \/ v \in UnitsOf(Tail(iter[i]))
  <2>1. Increasing(iter[i]) /\ iter[i] \in Seq(Unit) /\ iter[i] # <<>>
    BY <1>0, <1>2 DEF InOrder
  <2> QED
    BY <2>1, SplitIncreasing
<1>4. \A v : v \in Held(i) <=> v = u \/ v \in Held(i)'
  BY <1>0, <1>3 DEF Held
<1>5. \A v \in Held(i)' : u < v
  <2>1. u \in UnitsOf(iter[i])
    BY <1>3
  <2>2. \A v \in UnitsOf(window[i]) : u < v
    BY <1>2, <2>1 DEF InOrder, UnitsOf
  <2> QED
    BY <1>0, <1>3, <2>2 DEF Held
<1>6. /\ u \in Mark /\ u \in Int /\ g \in Int /\ m \in Int /\ m < u /\ u <= g
      /\ u \notin DroppedBy(i) /\ IsEpoch(epoch[i], u)
  BY <1>2, <1>3, <1>4, MarksOK DEF InOrder
<1>7. \A v : IsEpoch(epoch[i], v)' <=> IsEpoch(epoch[i], v)
  BY <1>0 DEF IsEpoch
<1>8. InOrder(i, g, u)'
  <2>1. \A v \in Held(i)' : u < v /\ v <= g /\ v \notin DroppedBy(i) /\ IsEpoch(epoch[i], v)
    BY <1>2, <1>4, <1>5 DEF InOrder
  <2>2. Unseen(i) => /\ u < g /\ g \notin Held(i)' /\ cur[Worker(i)].unit = g
                     /\ g \notin DroppedBy(i - 1)
    <3>1. Unseen(i) => g \notin Held(i) /\ cur[Worker(i)].unit = g /\ g \notin DroppedBy(i - 1)
      BY <1>2 DEF InOrder
    <3>2. Unseen(i) => u # g
      BY <1>4, <3>1
    <3> QED
      BY <1>4, <1>6, <3>1, <3>2
  <2>3. \A v \in Unit : u < v /\ v <= g =>
          v \in Held(i)' \/ v \in DroppedBy(i) \/ (Unseen(i) /\ v = g)
    <3> SUFFICES ASSUME NEW v \in Unit, u < v, v <= g
                 PROVE v \in Held(i)' \/ v \in DroppedBy(i) \/ (Unseen(i) /\ v = g)
      OBVIOUS
    <3>1. m < v /\ v # u
      BY <1>6, MarksOK
    <3>2. v \in Held(i) \/ v \in DroppedBy(i) \/ (Unseen(i) /\ v = g)
      BY <1>0, <1>2, <3>1 DEF InOrder
    <3> QED
      BY <1>4, <3>1, <3>2
  <2>4. ~cancelled /\ Ending(i) => Over(g, i - 1)
    BY <1>0, <1>2 DEF InOrder
  <2>5. /\ Increasing(iter[i])' /\ Increasing(window[i])'
        /\ \A j \in DOMAIN iter'[i], k \in DOMAIN window'[i] : iter'[i][j] < window'[i][k]
    <3>1. Increasing(iter'[i]) /\ Increasing(window'[i])
      BY <1>0, <1>2, <1>3 DEF InOrder
    <3>2. \A j \in DOMAIN iter'[i] : \E l \in DOMAIN iter[i] : iter[i][l] = iter'[i][j]
      BY <1>0, <1>3 DEF UnitsOf
    <3> QED
      BY <1>0, <1>2, <3>1, <3>2 DEF InOrder, Increasing
  <2> QED
    BY <1>0, <1>1, <1>6, <1>7, <2>1, <2>2, <2>3, <2>4, <2>5 DEF InOrder, Over
<1>9. InShot(i, g, u)'
  <2>1. Lists(<<>>, u, epoch[i])
    BY <1>6, NoneSince
  <2>2. \A c \in Boundary : c <= u => c <= epoch[i]
    BY <1>6 DEF IsEpoch
  <2>3. IF Turning(i) THEN Lists(cur[Worker(i)].bnds, epoch[i], g) ELSE IsEpoch(epoch[i], g)
    BY <1>2 DEF InShot
  <2> QED
    BY <1>0, <1>1, <1>7, <2>1, <2>2, <2>3 DEF InShot, Lists
<1>10. Emptied(i)'
  BY <1>0, <1>1, <1>2 DEF Emptied
<1>11. Follows(out'[i], p, i)
  <2>1. \A v \in Unit : p < v /\ v < u => v \in DroppedBy(i)
    <3> SUFFICES ASSUME NEW v \in Unit, p < v, v < u PROVE v \in DroppedBy(i)
      OBVIOUS
    <3>1. v <= g /\ v # u /\ v # g /\ ~(u < v)
      BY <1>6, MarksOK
    <3>2. v \in Held(i) \cup DroppedBy(i)
      BY <1>0, <1>2, <3>1 DEF InOrder
    <3> QED
      BY <1>4, <1>5, <3>1, <3>2
  <2>2. Lists(marks[i], p, u)
    BY <1>2, <1>6, ListsUpToEpoch DEF InShot
  <2> QED
    BY <1>0, <1>2, <1>6, <2>1, <2>2 DEF Follows
<1>12. Follows(out[i], p, i)'
  BY <1>11 DEF Follows, Lists
<1> QED
  BY <1>0, <1>3, <1>6, <1>7, <1>8, <1>9, <1>10, <1>12 DEF Inside

\* It is put.
LEMMA PutInside ==
  ASSUME TypeInv, NEW i \in Stage, StagePut(i),
         NEW g, NEW m, NEW p, Inside(i, g, m, p)
  PROVE  m = out[i].unit /\ Follows(out[i], p, i) /\ Inside(i, g, m, m)'
<1>0. /\ pc[Worker(i)] = "put" /\ pc'[Worker(i)] = "publish"
      /\ UNCHANGED <<cancelled, cur, window, iter, kind, marks, started, epoch>>
  BY Threads DEF StagePut, Goto, TypeInv, TypeOK, ThreadsOK, supervision
<1>1. /\ Alive(Worker(i)) /\ (Turning(i)' <=> Turning(i))
      /\ (Unseen(i)' <=> Unseen(i)) /\ (Ending(i)' <=> Ending(i)) /\ Held(i)' = Held(i)
  BY <1>0 DEF Alive, Turning, Unseen, Ending, Flushing, Held
<1>2. /\ InOrder(i, g, m) /\ InShot(i, g, m) /\ Emptied(i) /\ m = out[i].unit
      /\ Follows(out[i], p, i)
  BY <1>0, <1>1 DEF Inside
<1>3. InOrder(i, g, m)'
  BY <1>0, <1>1, <1>2 DEF InOrder, Increasing, IsEpoch, Over
<1>4. InShot(i, g, m)'
  BY <1>0, <1>1, <1>2 DEF InShot, Lists, IsEpoch
<1>5. Emptied(i)'
  BY <1>0, <1>1, <1>2 DEF Emptied
<1> QED
  BY <1>0, <1>2, <1>3, <1>4, <1>5 DEF Inside

\* The iterator is exhausted, or cut short once the run is cancelled.
LEMMA AfterPublishInside ==
  ASSUME TypeInv, NEW i \in Stage, AfterPublish(i),
         NEW g, NEW m, NEW p, Inside(i, g, m, p)
  PROVE  Inside(i, g, m, p)'
<1>0. /\ pc[Worker(i)] \in {"publish", "emit"} /\ kind[i] \in {"process", "boundary", "eos"}
      /\ pc'[Worker(i)] = (IF kind[i] = "process" THEN "release"
                           ELSE IF kind[i] = "boundary" THEN "settle" ELSE "eos")
      /\ UNCHANGED <<cancelled, cur, window, kind, marks, started, epoch>>
      /\ iter'[i] = <<>> /\ (iter[i] = <<>> \/ cancelled)
  BY Threads DEF AfterPublish, Goto, TypeInv, TypeOK, ThreadsOK, StagesOK, supervision
<1>1. /\ Alive(Worker(i)) /\ (Turning(i)' <=> Turning(i))
      /\ (Unseen(i)' <=> Unseen(i)) /\ (Ending(i)' <=> Ending(i))
  BY <1>0 DEF Alive, Turning, Unseen, Ending, Flushing
<1>2. InOrder(i, g, m) /\ InShot(i, g, m) /\ Emptied(i) /\ m = p
  BY <1>0, <1>1 DEF Inside
<1>3. /\ \A u \in Held(i)' : u \in Held(i)
      /\ ~cancelled => Held(i)' = Held(i)
  BY <1>0, NothingHeld DEF Held
<1>4. InOrder(i, g, m)'
  BY <1>0, <1>1, <1>2, <1>3, NothingHeld DEF InOrder, Increasing, IsEpoch, Over
<1>5. InShot(i, g, m)'
  BY <1>0, <1>1, <1>2 DEF InShot, Lists, IsEpoch
<1>6. Emptied(i)'
  BY <1>0, <1>1, <1>2 DEF Emptied
<1> QED
  BY <1>0, <1>2, <1>4, <1>5, <1>6 DEF Inside

\* The outputs of the flush are gone, or need not be waited for.
LEMMA SettleInside ==
  ASSUME TypeInv, NEW i \in Stage, StageSettle(i),
         NEW g, NEW m, NEW p, Inside(i, g, m, p)
  PROVE  Inside(i, g, m, p)'
<1>0. /\ pc[Worker(i)] = "settle" /\ pc'[Worker(i)] = "reset"
      /\ UNCHANGED <<cancelled, cur, window, iter, kind, marks, started, epoch>>
  BY Threads DEF StageSettle, Move, Goto, TypeInv, TypeOK, ThreadsOK, others, supervision,
     stageState
<1>1. /\ Alive(Worker(i)) /\ Turning(i) /\ Unseen(i) /\ ~Ending(i)
      /\ Turning(i)' /\ Unseen(i)' /\ ~Ending(i)' /\ Held(i)' = Held(i)
  BY <1>0 DEF Alive, Turning, Unseen, Ending, Flushing, Held
<1>2. InOrder(i, g, m) /\ InShot(i, g, m) /\ Emptied(i) /\ m = p
  BY <1>0, <1>1 DEF Inside
<1>3. InOrder(i, g, m)'
  BY <1>0, <1>1, <1>2 DEF InOrder, Increasing, IsEpoch
<1>4. InShot(i, g, m)'
  BY <1>0, <1>1, <1>2 DEF InShot, Lists, IsEpoch
<1>5. Emptied(i)'
  BY <1>0, <1>1, <1>2 DEF Emptied
<1> QED
  BY <1>0, <1>2, <1>3, <1>4, <1>5 DEF Inside

\* At the end of the stream nothing is left to come.
LEMMA EndsOver ==
  ASSUME NEW i \in Stage, pc[Worker(i)] = "eos", NEW g \in Mark, NEW m \in Mark, NEW p,
         Inside(i, g, m, p)
  PROVE  m = p /\ (~cancelled => Over(p, i))
<1>1. Alive(Worker(i)) /\ ~Unseen(i) /\ Ending(i)
  BY DEF Alive, Unseen, Turning, Flushing, Ending
<1>2. InOrder(i, g, m) /\ iter[i] = <<>> /\ window[i] = <<>> /\ m = p
  BY <1>1 DEF Inside, Emptied
<1>3. Held(i) = {}
  BY <1>2, NothingHeld DEF Held
<1>4. ASSUME ~cancelled, NEW u \in Unit, m < u PROVE u \in DroppedBy(i)
  <2>1. CASE u <= g
    BY <1>1, <1>2, <1>3, <1>4, <2>1 DEF InOrder
  <2>2. CASE ~(u <= g)
    <3>1. g < u
      BY <2>2, MarksOK
    <3>2. u \in DroppedBy(i - 1)
      BY <1>1, <1>2, <1>4, <3>1 DEF InOrder, Over
    <3> QED
      BY <3>2, DroppedGrows
  <2> QED
    BY <2>1, <2>2
<1> QED
  BY <1>2, <1>4 DEF Over

\* What a step of a stage leaves alone.
LEMMA StageMoves ==
  ASSUME TypeInv, NEW i \in Stage, StageStep(i)
  PROVE  /\ Onward /\ SourceRests /\ \A j \in Stage : j # i => StageRests(j)
         /\ \A j \in Stage : CourierRests(j)
         /\ TerminalRests /\ \A c \in Chan \ {i - 1, PendingOf(i)} : chan'[c] = chan[c]
<1> USE DEF TypeInv, TypeOK, ThreadsOK, ChannelsOK, StagesOK, Onward, SourceRests, StageRests,
            CourierRests, TerminalRests
<1>1. CASE StageTop(i)
  BY <1>1, Threads DEF StageTop, Move, Goto, others, supervision, stageState, result
<1>2. CASE StageGetEos(i)
  BY <1>2, Threads DEF StageGetEos, StartFlush, Dequeue, Goto, supervision, result
<1>3. CASE StageGetUnit(i)
  <2>1. CASE NeedsFlush(i, Head(chan[i - 1]).bnds)
    BY <1>3, <2>1, Threads DEF StageGetUnit, StartFlush, Dequeue, Goto, supervision, result
  <2>2. CASE ~NeedsFlush(i, Head(chan[i - 1]).bnds)
    BY <1>3, <2>2, Threads DEF StageGetUnit, Dequeue, Goto, supervision, stageState, result
  <2> QED
    BY <2>1, <2>2
<1>4. CASE StageGetClosed(i)
  BY <1>4, Threads DEF StageGetClosed, Move, Goto, others, supervision, stageState, result
<1>5. CASE StageReset(i)
  BY <1>5, Threads DEF StageReset, Goto, supervision, result
<1>6. CASE StageProcess(i)
  <2>1. /\ \A j \in Stage : j # i => iter'[j] = iter[j] /\ window'[j] = window[j]
        /\ \A j \in Stage : j # i => (j \in started' <=> j \in started)
    BY <1>6 DEF StageProcess
  <2> QED
    BY <1>6, <2>1, Threads DEF StageProcess, Goto, supervision, result
<1>7. CASE StageEmit(i)
  BY <1>7, Threads DEF StageEmit, Goto, supervision, result
<1>8. CASE StagePut(i)
  BY <1>8, Threads DEF StagePut, Enqueue, Goto, supervision, result
<1>9. CASE StagePutRefused(i)
  BY <1>9, Threads DEF StagePutRefused, Goto, supervision, result
<1>10. CASE AfterPublish(i)
  BY <1>10, Threads DEF AfterPublish, Goto, supervision, result
<1>11. CASE StageSlotCancelled(i)
  BY <1>11, Threads DEF StageSlotCancelled, Move, Goto, others, supervision, stageState, result
<1>12. CASE StageSettle(i)
  BY <1>12, Threads DEF StageSettle, Move, Goto, others, supervision, stageState, result
<1>13. CASE StagePolls(i)
  BY <1>13 DEF StagePolls, vars, others, supervision, stageState, result
<1>14. CASE StageRelease(i)
  BY <1>14, Threads DEF StageRelease, Goto, supervision, stageState, result
<1>15. CASE StagePutEos(i)
  BY <1>15, Threads DEF StagePutEos, Enqueue, Goto, supervision, stageState, result
<1>16. CASE StageFails(i)
  BY <1>16, Threads DEF StageFails, Fail, Goto, stageState, result
<1>17. CASE CloseNext(Worker(i))
  BY <1>17, Threads DEF CloseNext, Goto, stageState, result
<1>18. CASE Finally(Worker(i))
  BY <1>18, Threads DEF Finally, Goto, supervision, stageState, result
<1>19. CASE StageTurn(i)
  BY <1>19, Threads DEF StageTurn, Move, Goto, others, supervision, stageState, result
<1> QED
  BY <1>1, <1>2, <1>3, <1>4, <1>5, <1>6, <1>7, <1>8, <1>9, <1>10, <1>11, <1>12, <1>13,
     <1>14, <1>15, <1>16, <1>17, <1>18, <1>19 DEF StageStep

\* No step of a stage but the one that emits makes a lease.
LEMMA StageLeasesRest ==
  ASSUME TypeInv, NEW i \in Stage, StageStep(i), ~StageEmit(i) PROVE LeasesRest
<1>0. LeasesOK /\ InHand /\ Worker(i) \in Thread
  BY Threads DEF TypeInv, TypeOK
<1>1. refs' = refs => LeasesRest
  BY DEF LeasesRest
<1>2. CASE StagePutRefused(i)
  <2>1. out[i].lease \in Lease /\ Release(out[i].lease)
    BY <1>0, <1>2, Envelopes DEF StagePutRefused, InHand
  <2> QED
    BY <1>0, <2>1, ReleaseRests
<1>3. CASE StageRelease(i)
  <2>1. cur[Worker(i)].lease \in Lease /\ Release(cur[Worker(i)].lease)
    BY <1>0, <1>3, Envelopes DEF StageRelease, InHand
  <2> QED
    BY <1>0, <2>1, ReleaseRests
<1>4. CASE Finally(Worker(i))
  BY <1>0, <1>4, FinallyRests
<1>5. CASE ~StagePutRefused(i) /\ ~StageRelease(i) /\ ~Finally(Worker(i))
  <2>1. refs' = refs
    BY <1>5 DEF StageStep, StageTop, StageTurn, StageGetEos, StageGetUnit, StageGetClosed, StageReset,
       StageProcess, StagePut, AfterPublish, StageSlotCancelled, StageSettle, StagePolls,
       StagePutEos, StageFails, CloseNext, Move, others, vars
  <2> QED
    BY <1>1, <2>1
<1> QED
  BY <1>2, <1>3, <1>4, <1>5

\* The line after a step of a stage.
LEMMA StageInLine ==
  ASSUME TypeInv, OutcomeInv, CountInv, NEW i \in Stage, StageStep(i),
         NEW made, NEW pend, NEW took, NEW sent, NEW got, InLine(made, pend, took, sent, got)
  PROVE  \E g, m, p \in Mark :
           InLine([made EXCEPT ![i] = m], [pend EXCEPT ![i] = p], took, sent,
                  [got EXCEPT ![i] = g])'
<1>0. /\ ChannelsOK /\ ThreadsOK /\ LeasesOK /\ StagesOK /\ InHand /\ Worker(i) \in Thread
      /\ i - 1 \in Chan /\ i - 1 \in Edge /\ PendingOf(i) \in Chan /\ PendingOf(i) # i - 1
      /\ EosIn(PendingOf(i)) => Spent(Worker(i))
  BY Threads, ChannelPlaces, GraphConstants
     DEF TypeInv, TypeOK, OutcomeInv, EosQueued, UpstreamSpent, Stage
<1>1. /\ got[i] \in Mark /\ made[i] \in Mark /\ pend[i] \in Mark /\ made \in [0..N -> Mark]
      /\ i \in 0..N
      /\ Inside(i, got[i], made[i], pend[i]) /\ Flows(i - 1, got[i], sent[i - 1], i - 1)
      /\ Flows(PendingOf(i), took[i], pend[i], i) /\ Fresh(made)
  <2>1. /\ made \in [0..N -> Mark] /\ got \in [1..(N + 1) -> Mark] /\ pend \in [Stage -> Mark]
        /\ i \in 0..N /\ i \in 1..(N + 1) /\ (i - 1) + 1 = i
    BY GraphConstants DEF InLine, Stage
  <2>2. Flows(i - 1, got[(i - 1) + 1], sent[i - 1], i - 1)
    BY <1>0 DEF InLine
  <2> QED
    BY <2>1, <2>2 DEF InLine
<1>2. /\ Onward /\ SourceRests /\ \A j \in Stage : j # i => StageRests(j)
      /\ \A j \in Stage : CourierRests(j)
      /\ TerminalRests /\ \A c \in Chan \ {i - 1, PendingOf(i)} : chan'[c] = chan[c]
  BY StageMoves
<1>3. SUFFICES \E g, m, p \in Mark : /\ Inside(i, g, m, p)'
                                     /\ Flows(i - 1, g, sent[i - 1], i - 1)'
                                     /\ Flows(PendingOf(i), took[i], p, i)'
                                     /\ Fresh([made EXCEPT ![i] = m])'
  <2>1. ASSUME NEW g \in Mark, NEW m \in Mark, NEW p \in Mark, Inside(i, g, m, p)',
               Flows(i - 1, g, sent[i - 1], i - 1)', Flows(PendingOf(i), took[i], p, i)',
               Fresh([made EXCEPT ![i] = m])'
        PROVE  InLine([made EXCEPT ![i] = m], [pend EXCEPT ![i] = p], took, sent,
                      [got EXCEPT ![i] = g])'
    BY ONLY <1>2, <2>1, AfterStage, i \in Stage, InLine(made, pend, took, sent, got)
  <2> QED
    BY <2>1
<1>4. LeasesRest => Fresh([made EXCEPT ![i] = made[i]])'
  <2>1. PICK m \in Mark : m = made[i]
    BY <1>1
  <2>2. m \in Int
    BY MarksOK
  <2>3. made[i] <= m
    BY <2>1, <2>2
  <2>4. LeasesRest => Fresh([made EXCEPT ![i] = m])'
    BY <1>1, <2>3, FreshGrows
  <2> QED
    BY <2>1, <2>4
<1>5. /\ chan'[i - 1] = chan[i - 1] => Flows(i - 1, got[i], sent[i - 1], i - 1)'
      /\ chan'[PendingOf(i)] = chan[PendingOf(i)] => Flows(PendingOf(i), took[i], pend[i], i)'
  BY <1>0, <1>1, <1>2, FlowRests
\* A step after which the stage is where it was, or through.
<1>6. ASSUME Inside(i, got[i], made[i], pend[i])', chan' = chan, ~StageEmit(i)
      PROVE  \E g, m, p \in Mark : /\ Inside(i, g, m, p)'
                                   /\ Flows(i - 1, g, sent[i - 1], i - 1)'
                                   /\ Flows(PendingOf(i), took[i], p, i)'
                                   /\ Fresh([made EXCEPT ![i] = m])'
  BY <1>1, <1>4, <1>5, <1>6, StageLeasesRest
<1>7. ASSUME ~Alive(Worker(i))', chan' = chan, ~StageEmit(i)
      PROVE  \E g, m, p \in Mark : /\ Inside(i, g, m, p)'
                                   /\ Flows(i - 1, g, sent[i - 1], i - 1)'
                                   /\ Flows(PendingOf(i), took[i], p, i)'
                                   /\ Fresh([made EXCEPT ![i] = m])'
  <2>1. Inside(i, got[i], made[i], pend[i])'
    BY <1>7 DEF Inside
  <2> QED
    BY <1>6, <1>7, <2>1
<1>8. CASE StageTop(i)
  <2>1. /\ pc[Worker(i)] = "top" /\ pc'[Worker(i)] = (IF cancelled THEN "finally" ELSE "get")
        /\ chan' = chan /\ UNCHANGED stageState
    BY <1>0, <1>8 DEF StageTop, Move, Goto, ThreadsOK, others
  <2>2. ~StageEmit(i)
    BY <2>1 DEF StageEmit
  <2>3. CASE cancelled
    BY <1>7, <2>1, <2>2, <2>3 DEF Alive
  <2>4. CASE ~cancelled
    <3>1. Waits(i) /\ Waits(i)'
      BY <2>1, <2>4 DEF Waits
    <3>2. Inside(i, got[i], made[i], pend[i])'
      BY <1>1, <1>2, <2>1, <3>1, WaitsOn DEF stageState
    <3> QED
      BY <1>6, <2>1, <2>2, <3>2
  <2> QED
    BY <2>3, <2>4
<1>9. CASE StageGetEos(i)
  <2>1. /\ HasItem(i - 1) /\ Head(chan[i - 1]) = EOS /\ Dequeue(i - 1)
        /\ pc[Worker(i)] = "get" /\ chan'[PendingOf(i)] = chan[PendingOf(i)]
    BY <1>0, <1>9 DEF StageGetEos, Dequeue, ChannelsOK
  <2>2. /\ got[i] = sent[i - 1] /\ (~cancelled => Over(sent[i - 1], i - 1))
        /\ Flows(i - 1, got[i], sent[i - 1], i - 1)'
    BY <1>0, <1>1, <1>2, <2>1, EosTaken
  <2>3. Inside(i, got[i], made[i], pend[i])'
    BY <1>1, <1>9, <2>2, GetEosInside
  <2>4. LeasesRest
    BY <2>1, StageLeasesRest DEF StageEmit
  <2> QED
    BY <1>1, <1>4, <1>5, <2>1, <2>2, <2>3, <2>4
<1>10. CASE StageGetUnit(i)
  <2>0. PICK e : e = Head(chan[i - 1])
    OBVIOUS
  <2>1. /\ HasItem(i - 1) /\ e # EOS /\ Dequeue(i - 1)
        /\ pc[Worker(i)] = "get" /\ chan'[PendingOf(i)] = chan[PendingOf(i)]
    BY <1>0, <1>10, <2>0 DEF StageGetUnit, Dequeue, ChannelsOK
  <2>2. /\ e \in Envelope /\ Follows(e, got[i], i - 1)
        /\ Flows(i - 1, e.unit, sent[i - 1], i - 1)'
    BY <1>0, <1>1, <1>2, <2>0, <2>1, UnitTaken
  <2>3. Inside(i, e.unit, made[i], pend[i])'
    BY <1>1, <1>10, <2>0, <2>2, GetUnitInside
  <2>4. LeasesRest
    BY <2>1, StageLeasesRest DEF StageEmit
  <2>5. e.unit \in Mark
    BY <2>2, Envelopes, MarksOK
  <2> QED
    BY <1>1, <1>4, <1>5, <2>1, <2>2, <2>3, <2>4, <2>5
<1>11. CASE StageGetClosed(i)
  <2>1. pc[Worker(i)] = "get" /\ ~Alive(Worker(i))' /\ chan' = chan
    BY <1>0, <1>11 DEF StageGetClosed, Move, Goto, ThreadsOK, Alive, others
  <2> QED
    BY <1>7, <2>1 DEF StageEmit
<1>12. CASE StageReset(i)
  <2>1. pc[Worker(i)] = "reset" /\ chan' = chan
    BY <1>12 DEF StageReset
  <2>2. Inside(i, got[i], made[i], pend[i])'
    BY <1>1, <1>12, ResetInside
  <2> QED
    BY <1>6, <2>1, <2>2 DEF StageEmit
<1>13. CASE StageProcess(i)
  <2>1. pc[Worker(i)] = "process" /\ chan' = chan
    BY <1>13 DEF StageProcess
  <2>2. Inside(i, got[i], made[i], pend[i])'
    BY <1>1, <1>13, ProcessInside
  <2> QED
    BY <1>6, <2>1, <2>2 DEF StageEmit
<1>14. CASE StageEmit(i)
  <2>0. PICK u : u = Head(iter[i])
    OBVIOUS
  <2>1. u \in Unit /\ made[i] < u /\ Inside(i, got[i], u, pend[i])'
    BY <1>1, <1>14, <2>0, EmitInside
  <2>2. u \in Mark /\ u \in Int
    BY <2>1, MarksOK
  <2>3. chan' = chan /\ pc[Worker(i)] = "emit"
    BY <1>14 DEF StageEmit
  <2>4. PICK x : /\ AddHandle(x)
                 /\ x = <<i, u>> \/ (x = cur[Worker(i)].lease /\ kind[i] = "process")
    BY <1>14, <2>0 DEF StageEmit
  <2>5. x = <<i, u>> \/ (x \in Lease /\ refs[x] > 0)
    <3>1. CASE x = cur[Worker(i)].lease /\ kind[i] = "process"
      <4>1. cur[Worker(i)] \in Envelope /\ cur[Worker(i)].lease \in Lease
        BY <1>0, <2>3, <3>1, Envelopes DEF InHand
      <4>2. Counted(cur[Worker(i)].lease)
        BY <4>1 DEF CountInv
      <4> QED
        BY <1>0, <3>1, <4>1, <4>2, HandleInHand
    <3> QED
      BY <2>4, <3>1
  <2>6. Fresh([made EXCEPT ![i] = u])'
    <3> DEFINE mm == [made EXCEPT ![i] = u]
    <3>0. \A j \in 0..N : made[j] \in Mark /\ mm[j] = IF j = i THEN u ELSE made[j]
      BY <1>1
    <3> HIDE DEF mm
    <3>1. \A j \in 0..N : made[j] \in Int /\ mm[j] \in Int /\ made[j] <= mm[j]
      <4>1. \A j \in 0..N : made[j] \in Int
        BY <3>0, MarksOK
      <4>2. PICK a \in Int : a = made[i]
        BY <1>1, <4>1
      <4>3. a < u /\ u \in Int
        BY <2>1, <2>2, <4>2
      <4>4. a <= u
        BY ONLY <4>3, a \in Int
      <4> QED
        BY <2>2, <3>0, <4>1, <4>2, <4>4
    <3>2. mm[i] = u
      BY <1>1, <3>0
    <3>3. Fresh(mm)'
      <4> SUFFICES ASSUME NEW j \in 0..N, NEW v \in Unit, refs'[<<j, v>>] > 0
                   PROVE v \in Int /\ v <= mm[j]
        BY DEF Fresh
      <4>1. CASE j = i /\ v = u
        BY <2>2, <3>2, <4>1
      <4>2. CASE ~(j = i /\ v = u)
        <5>1. <<j, v>> \in Lease /\ <<j, v>> # <<i, u>>
          BY <4>2 DEF Lease
        <5>2. refs[<<j, v>>] > 0
          <6>1. \A y \in Lease : y # x => refs'[y] = refs[y]
            BY ONLY <1>0, <2>4 DEF AddHandle, LeasesOK
          <6>2. CASE <<j, v>> = x
            BY ONLY <2>5, <5>1, <6>2
          <6>3. CASE <<j, v>> # x
            BY ONLY <5>1, <6>1, <6>3, refs'[<<j, v>>] > 0
          <6> QED
            BY <6>2, <6>3
        <5>3. v <= made[j] /\ v \in Int
          BY <1>1, <5>2, MarksOK DEF Fresh
        <5> QED
          BY <3>1, <5>3
      <4> QED
        BY <4>1, <4>2
    <3> QED
      BY <3>3 DEF mm
  <2> QED
    BY <1>1, <1>5, <2>1, <2>2, <2>3, <2>6
<1>15. CASE StagePut(i)
  <2>1. /\ pc[Worker(i)] = "put" /\ Enqueue(PendingOf(i), out[i]) /\ out[i] \in Envelope
        /\ chan'[i - 1] = chan[i - 1]
    BY <1>0, <1>15 DEF StagePut, Enqueue, ChannelsOK, InHand
  <2>2. /\ made[i] = out[i].unit /\ Follows(out[i], pend[i], i)
        /\ Inside(i, got[i], made[i], made[i])'
    BY <1>1, <1>15, PutInside
  <2>3. PICK e \in Envelope : e = out[i]
    BY <2>1
  <2>4. Flows(PendingOf(i), took[i], e.unit, i)'
    BY <1>0, <1>1, <1>2, <2>1, <2>2, <2>3, UnitPut DEF Spent
  <2>5. LeasesRest
    BY <2>1, StageLeasesRest DEF StageEmit
  <2> QED
    BY <1>1, <1>4, <1>5, <2>1, <2>2, <2>3, <2>4, <2>5
<1>16. CASE StagePutRefused(i)
  <2>1. pc[Worker(i)] = "put" /\ ~Alive(Worker(i))' /\ chan' = chan
    BY <1>0, <1>16 DEF StagePutRefused, Goto, ThreadsOK, Alive
  <2> QED
    BY <1>7, <2>1 DEF StageEmit
<1>17. CASE AfterPublish(i)
  <2>1. pc'[Worker(i)] \in {"release", "settle", "eos"} /\ chan' = chan
    BY <1>0, <1>17 DEF AfterPublish, Goto, ThreadsOK, StagesOK
  <2>2. ~StageEmit(i)
    BY <1>0, <2>1 DEF StageEmit, Goto, ThreadsOK
  <2>3. Inside(i, got[i], made[i], pend[i])'
    BY <1>1, <1>17, AfterPublishInside
  <2> QED
    BY <1>6, <2>1, <2>2, <2>3
<1>18. CASE StageSlotCancelled(i)
  <2>1. cancelled /\ ~Alive(Worker(i))' /\ chan' = chan
    BY <1>0, <1>18 DEF StageSlotCancelled, Move, Goto, ThreadsOK, Alive, others
  <2>2. ~StageEmit(i)
    BY <1>0, <2>1 DEF StageEmit, Goto, ThreadsOK, Alive
  <2> QED
    BY <1>7, <2>1, <2>2
<1>19. CASE StageSettle(i)
  <2>1. pc[Worker(i)] = "settle" /\ chan' = chan
    BY <1>19 DEF StageSettle, Move, others
  <2>2. Inside(i, got[i], made[i], pend[i])'
    BY <1>1, <1>19, SettleInside
  <2> QED
    BY <1>6, <2>1, <2>2 DEF StageEmit
<1>20. CASE StagePolls(i)
  <2>1. chan' = chan /\ pc' = pc /\ StageRests(i)
    BY <1>20 DEF StagePolls, StageRests, vars, others, stageState
  <2>2. Inside(i, got[i], made[i], pend[i])'
    BY <1>1, <1>2, <2>1, StageRestsInside
  <2>3. ~StageEmit(i)
    BY <1>0, <2>1 DEF StageEmit, Goto, ThreadsOK
  <2> QED
    BY <1>6, <2>1, <2>2, <2>3
<1>21. CASE StageRelease(i)
  <2>1. /\ pc[Worker(i)] = "release" /\ pc'[Worker(i)] = "top" /\ chan' = chan
        /\ UNCHANGED stageState
    BY <1>0, <1>21 DEF StageRelease, Goto, ThreadsOK
  <2>2. Waits(i) /\ Waits(i)'
    BY <2>1 DEF Waits
  <2>3. Inside(i, got[i], made[i], pend[i])'
    BY <1>1, <1>2, <2>1, <2>2, WaitsOn DEF stageState
  <2> QED
    BY <1>6, <2>1, <2>3 DEF StageEmit
<1>22. CASE StagePutEos(i)
  <2>1. /\ pc[Worker(i)] = "eos" /\ ~Alive(Worker(i))' /\ chan'[i - 1] = chan[i - 1]
        /\ chan' = chan \/ Enqueue(PendingOf(i), EOS)
    BY <1>0, <1>22 DEF StagePutEos, Enqueue, Goto, ThreadsOK, ChannelsOK, Alive
  <2>2. ~cancelled => Over(pend[i], i)
    BY <1>1, <2>1, EndsOver
  <2>3. Flows(PendingOf(i), took[i], pend[i], i)'
    BY <1>0, <1>1, <1>2, <1>5, <2>1, <2>2, EosPut DEF Spent
  <2>4. Inside(i, got[i], made[i], pend[i])'
    BY <2>1 DEF Inside
  <2>5. LeasesRest
    BY <2>1, StageLeasesRest DEF StageEmit
  <2> QED
    BY <1>1, <1>4, <1>5, <2>1, <2>3, <2>4, <2>5
<1>23. CASE StageFails(i) \/ CloseNext(Worker(i)) \/ Finally(Worker(i))
  <2>1. ~Alive(Worker(i))' /\ chan' = chan
    BY <1>0, <1>23, Threads DEF StageFails, Fail, CloseNext, Finally, Goto, ThreadsOK, Alive
  <2>2. ~StageEmit(i)
    BY <1>0, <2>1 DEF StageEmit, Goto, ThreadsOK, Alive
  <2> QED
    BY <1>7, <2>1, <2>2
<1>24. CASE StageTurn(i)
  <2>1. pc[Worker(i)] = "publish" /\ chan' = chan
    BY <1>24 DEF StageTurn, Move, others
  <2>2. Inside(i, got[i], made[i], pend[i])'
    BY <1>1, <1>24, TurnInside
  <2> QED
    BY <1>6, <2>1, <2>2 DEF StageEmit
<1> QED
  BY <1>8, <1>9, <1>10, <1>11, <1>12, <1>13, <1>14, <1>15, <1>16, <1>17, <1>18, <1>19,
     <1>20, <1>21, <1>22, <1>23, <1>24 DEF StageStep

-----------------------------------------------------------------------------
(* Threads that are through *)

\* An actor raises the flag for a failure, unless it is the sink that stops.
LEMMA ActorFlags ==
  ASSUME TypeInv, SourceStep \/ (\E i \in Stage : StageStep(i) \/ CourierStep(i)) \/ SinkStep
  PROVE  (failed => failed') /\ (cancelled' => cancelled \/ failed' \/ pc[Sink] = "stop")
<1> USE DEF CloseNext, Finally, Move, Fail, others, supervision, stageState, result
<1>1. CASE SourceStep
  BY <1>1 DEF SourceStep, SourceNext, SourceExhausted, SourcePut, SourceRefused, SourceFails
<1>2. ASSUME NEW i \in Stage, StageStep(i)
      PROVE  (failed => failed') /\ (cancelled' => cancelled \/ failed' \/ pc[Sink] = "stop")
  <2>1. CASE StageFails(i)
    BY <2>1 DEF StageFails
  <2>2. CASE ~StageFails(i)
    <3>1. UNCHANGED <<failed, cancelled>>
      BY <1>2, <2>2 DEF StageStep, StageTop, StageGetEos, StageGetUnit, StageGetClosed,
         StageReset, StageProcess, StageTurn, StageEmit, StagePut, StagePutRefused, AfterPublish,
         StageSlotCancelled, StageSettle, StagePolls, StageRelease, StagePutEos, vars
    <3> QED
      BY <3>1
  <2> QED
    BY <2>1, <2>2
<1>3. ASSUME NEW i \in Stage, CourierStep(i)
      PROVE  (failed => failed') /\ (cancelled' => cancelled \/ failed' \/ pc[Sink] = "stop")
  BY <1>3 DEF CourierStep, CourierTop, CourierGet, CourierPut, CourierClosed
<1>4. CASE SinkStep
  BY <1>4 DEF SinkStep, SinkTop, SinkGetUnit, SinkGetEos, SinkFinishFails, SinkGetClosed, SinkConsume, SinkStop,
     SinkFails, SinkFinally, Cancel
<1> QED
  BY <1>1, <1>2, <1>3, <1>4

\* A stage brings no end of stream into an edge.
LEMMA StageEdges ==
  ASSUME TypeInv, NEW i \in Stage, StageStep(i), NEW j \in Stage, EosIn(j)' PROVE EosIn(j)
<1>0. /\ ChannelsOK /\ i - 1 \in Chan /\ PendingOf(i) \in Chan /\ j \in Chan
      /\ PendingOf(i) # j
  BY ChannelPlaces DEF TypeInv, TypeOK
<1>1. chan'[j] = chan[j] \/ (HasItem(i - 1) /\ Dequeue(i - 1))
  <2>1. CASE j = i - 1
    <3>1. (HasItem(i - 1) /\ Dequeue(i - 1)) \/ chan'[i - 1] = chan[i - 1]
      BY <1>0, ChannelPlaces DEF StageStep, StageTop, StageGetEos, StageGetUnit, StageGetClosed,
         StageReset, StageProcess, StageTurn, StageEmit, StagePut, StagePutRefused, AfterPublish,
         StageSlotCancelled, StageSettle, StagePolls, StageRelease, StagePutEos, StageFails,
         CloseNext, Finally, Move, others, vars, Enqueue, ChannelsOK
    <3> QED
      BY <2>1, <3>1
  <2>2. CASE j # i - 1
    BY <1>0, <2>2, StageMoves
  <2> QED
    BY <2>1, <2>2
<1> QED
  BY <1>0, <1>1, EosDequeue DEF EosIn

\* A publisher that has put the end of the stream is through.
EosPassed == \A i \in Stage : EosIn(i) => pc[Courier(i)] \in {"finally", "done"}

\* It is kept by every actor: only a publisher puts EOS into its edge, and is then through.
LEMMA ActorsPass ==
  ASSUME TypeInv, EosPassed,
         SourceStep \/ (\E i \in Stage : StageStep(i) \/ CourierStep(i)) \/ SinkStep
  PROVE  EosPassed'
<1> SUFFICES ASSUME NEW j \in Stage, EosIn(j)' PROVE pc'[Courier(j)] \in {"finally", "done"}
  BY DEF EosPassed
<1>0. /\ ChannelsOK /\ ThreadsOK /\ j \in Chan /\ j # 0 /\ N \in Chan
      /\ \A i \in Stage : PendingOf(i) # j /\ PendingOf(i) \in Chan /\ Courier(i) \in Thread
      /\ EosIn(j) => pc[Courier(j)] \in {"finally", "done"}
  <2>1. ChannelsOK /\ ThreadsOK
    BY DEF TypeInv, TypeOK
  <2>2. j \in Chan /\ j # 0 /\ N \in Chan
    BY ChannelPlaces, GraphConstants DEF Stage
  <2>3. \A i \in Stage : PendingOf(i) # j /\ PendingOf(i) \in Chan
    BY ChannelPlaces, GraphConstants DEF Stage
  <2>4. \A i \in Stage : Courier(i) \in Thread
    BY Threads
  <2> QED
    BY <2>1, <2>2, <2>3, <2>4 DEF EosPassed
<1>1. CASE SourceStep
  BY <1>0, <1>1, SourceMoves DEF CourierRests, EosIn
<1>2. ASSUME NEW i \in Stage, StageStep(i) PROVE pc'[Courier(j)] \in {"finally", "done"}
  BY <1>0, <1>2, StageMoves, StageEdges DEF CourierRests
<1>3. ASSUME NEW i \in Stage, CourierStep(i) PROVE pc'[Courier(j)] \in {"finally", "done"}
  <2>1. CASE j # i
    BY <1>0, <1>3, <2>1, CourierMoves DEF CourierRests, EosIn
  <2>2. CASE j = i
    <3>1. CASE CourierPut(i)
      <4>1. EosIn(i) \/ cur[Courier(i)] = EOS
        BY <1>0, <2>2, <3>1, EosEnqueue DEF CourierPut
      <4> QED
        BY <1>0, <2>2, <3>1, <4>1 DEF CourierPut, Goto, ThreadsOK
    <3>2. CASE ~CourierPut(i)
      <4>1. chan'[i] = chan[i]
        BY <1>0, <1>3, <2>2, <3>2 DEF CourierStep, CourierTop, CourierGet, CourierClosed, Finally,
           Move, Dequeue, others, ChannelsOK
      <4> QED
        BY <1>0, <1>3, <2>2, <3>2, <4>1 DEF CourierStep, CourierTop, CourierGet, CourierClosed,
           Finally, Move, Goto, ThreadsOK, EosIn
    <3> QED
      BY <3>1, <3>2
  <2> QED
    BY <2>1, <2>2
<1>4. CASE SinkStep
  <2>1. chan'[j] = chan[j] \/ (HasItem(N) /\ Dequeue(N))
    <3>1. chan' = chan \/ (HasItem(N) /\ Dequeue(N))
      BY <1>4 DEF SinkStep, SinkTop, SinkGetUnit, SinkGetEos, SinkFinishFails, SinkGetClosed,
         SinkConsume, SinkStop, Fail,
         SinkFails, SinkFinally, CloseNext, Move, others
    <3> QED
      BY <3>1
  <2> QED
    BY <1>0, <1>4, <2>1, SinkMoves, EosDequeue DEF CourierRests, EosIn
<1> QED
  BY <1>1, <1>2, <1>3, <1>4

\* And by the calling thread, which only takes messages.
LEMMA CallsPass ==
  ASSUME TypeInv, OutcomeInv, EosPassed, MainStep \/ MainFails \/ Close PROVE EosPassed'
<1> SUFFICES ASSUME NEW j \in Stage, EosIn(j)' PROVE pc'[Courier(j)] \in {"finally", "done"}
  BY DEF EosPassed
<1>0. /\ ChannelsOK /\ ThreadsOK /\ Phases /\ j \in Chan /\ N \in Chan
      /\ Courier(j) \in Thread /\ Courier(j) # Main /\ Main \in Thread
      /\ EosIn(j) => pc[Courier(j)] \in {"finally", "done"}
  BY Threads, ChannelPlaces DEF TypeInv, TypeOK, OutcomeInv, EosPassed
<1>1. chan' = chan \/ \E c \in Chan : HasItem(c) /\ Dequeue(c)
  BY <1>0 DEF MainStep, Start, HostPull, HostGetUnit, HostGetEos, HostGetClosed, WaitReturns,
     CloseNext, Join, Drain, DropTerminal, CloseAll, StartFails, Close, Move, MainFails,
     HostUnitFails, HostRaises, HostInterrupted, others
<1>2. EosIn(j)
  BY <1>0, <1>1, EosDequeue DEF EosIn
<1>3. ~Start
  BY <1>0, <1>2 DEF Start, Phases
<1>4. pc'[Courier(j)] = pc[Courier(j)]
  BY <1>0, <1>3 DEF MainStep, HostPull, HostGetUnit, HostGetEos, HostGetClosed, WaitReturns,
     CloseNext, Join, Drain, DropTerminal, CloseAll, StartFails, Close, Move, MainFails,
     HostUnitFails, HostRaises, HostInterrupted, Goto, Fail, Cancel,
     ThreadsOK
<1> QED
  BY <1>0, <1>2, <1>4

\* No thread that is through takes a step.
LEMMA StepsAreLive ==
  ASSUME TypeInv
  PROVE  /\ SourceStep => pc[Source] \notin {"new", "done"}
         /\ \A i \in Stage : /\ StageStep(i) => pc[Worker(i)] \notin {"new", "done"}
                             /\ CourierStep(i) => pc[Courier(i)] \notin {"new", "done"}
         /\ SinkStep => pc[Sink] \notin {"new", "done"}
<1> USE DEF CloseNext, Finally
<1>1. SourceStep => pc[Source] \notin {"new", "done"}
  BY DEF SourceStep, SourceNext, SourceExhausted, SourcePut, SourceRefused, SourceFails
<1>2. ASSUME NEW i \in Stage PROVE StageStep(i) => pc[Worker(i)] \notin {"new", "done"}
  BY DEF StageStep, StageTop, StageGetEos, StageGetUnit, StageGetClosed, StageReset,
     StageProcess, StageTurn, StageEmit, StagePut, StagePutRefused, AfterPublish, StageSlotCancelled,
     StageSettle, StagePolls, StageRelease, StagePutEos, StageFails
<1>3. ASSUME NEW i \in Stage PROVE CourierStep(i) => pc[Courier(i)] \notin {"new", "done"}
  BY DEF CourierStep, CourierTop, CourierGet, CourierPut, CourierClosed
<1>4. SinkStep => pc[Sink] \notin {"new", "done"}
  BY DEF SinkStep, SinkTop, SinkGetUnit, SinkGetEos, SinkFinishFails, SinkGetClosed, SinkConsume, SinkStop,
     SinkFails, SinkFinally
<1> QED
  BY <1>1, <1>2, <1>3, <1>4

\* Nothing has started.
LEMMA InitQuiet == Init => QuietInv
BY Threads, ChannelPlaces DEF Init, QuietInv, Running, EosIn

\* Every step keeps it.
LEMMA NextQuiet == TypeInv /\ OutcomeInv /\ QuietInv /\ [Next]_vars => QuietInv'
<1> SUFFICES ASSUME TypeInv, OutcomeInv, QuietInv, [Next]_vars PROVE QuietInv'
  OBVIOUS
<1>0. /\ ThreadsOK /\ Phases /\ EosPassed /\ Main \in Thread /\ Main # Sink
      /\ ~Running => \A t \in Thread \ {Main} : pc[t] \in {"new", "done"}
      /\ pc[Main] \in {"idle", "get"} /\ cancelled => failed
  BY Threads DEF TypeInv, TypeOK, OutcomeInv, QuietInv, EosPassed
<1>1. CASE SourceStep \/ (\E i \in Stage : StageStep(i) \/ CourierStep(i)) \/ SinkStep
  <2>1. EosPassed'
    BY <1>0, <1>1, ActorsPass
  <2>2. Running /\ pc'[Main] = pc[Main]
    BY <1>0, <1>1, Threads, StepsAreLive, SourceMoves, StageMoves, CourierMoves, SinkMoves
       DEF TerminalRests
  <2>3. pc'[Main] \in {"idle", "get"} /\ cancelled' => failed'
    BY <1>0, <1>1, <2>2, ActorFlags DEF Phases
  <2> QED
    BY <2>1, <2>2, <2>3 DEF QuietInv, EosPassed, Running
<1>2. CASE MainStep \/ MainFails \/ Close
  <2>1. EosPassed'
    BY <1>0, <1>2, CallsPass
  <2>2. ~Running' => \A t \in Thread \ {Main} : pc'[t] \in {"new", "done"}
    <3>1. CASE Start
      BY <1>0, <3>1, Threads DEF Start, Running
    <3>2. CASE Join
      BY <1>0, <3>2 DEF Join, Joined, Goto, ThreadsOK
    <3>3. CASE ~Start /\ ~Join
      <4>1. \A t \in Thread \ {Main} : pc'[t] = pc[t]
        BY <1>0, <1>2, <3>3 DEF MainStep, HostPull, HostGetUnit, HostGetEos, HostGetClosed,
           WaitReturns, CloseNext, Drain, DropTerminal, CloseAll, StartFails, Close, MainFails,
           HostUnitFails, HostRaises, HostInterrupted, Move, Goto,
           Fail, Cancel, ThreadsOK
      <4>2. ~Running' => ~Running
        BY <1>0, <1>2, <3>3 DEF MainStep, HostPull, HostGetUnit, HostGetEos, HostGetClosed,
           WaitReturns, CloseNext, Drain, DropTerminal, CloseAll, StartFails, Close, MainFails,
           HostUnitFails, HostRaises, HostInterrupted, Move, Goto,
           Fail, Cancel, ThreadsOK, Running
      <4> QED
        BY <1>0, <4>1, <4>2
    <3> QED
      BY <3>1, <3>2, <3>3
  <2>3. pc'[Main] \in {"idle", "get"} /\ cancelled' => failed'
    <3>1. CASE Start
      BY <1>0, <3>1 DEF Start, Phases, others, supervision
    <3>2. CASE ~Start
      BY <1>0, <1>2, <3>2 DEF MainStep, HostPull, HostGetUnit, HostGetEos, HostGetClosed,
         WaitReturns, CloseNext, Join, Drain, DropTerminal, CloseAll, StartFails, Close, MainFails,
           HostUnitFails, HostRaises, HostInterrupted, Move, Goto,
         Fail, Cancel, ThreadsOK, others, supervision
    <3> QED
      BY <3>1, <3>2
  <2> QED
    BY <2>1, <2>2, <2>3 DEF QuietInv, EosPassed
<1>3. CASE Finished \/ UNCHANGED vars
  BY <1>3 DEF Finished, vars, others, supervision, QuietInv, Running, EosIn
<1> QED
  BY <1>1, <1>2, <1>3 DEF Next

-----------------------------------------------------------------------------
(* The line holds *)

\* Any marks with which the line holds will do.
LEMMA LineIsOrder ==
  ASSUME NEW made, NEW pend, NEW took, NEW sent, NEW got,
         InLine(made, pend, took, sent, got)'
  PROVE  OrderInv'
<1>1. /\ made \in [0..N -> Mark] /\ sent \in [0..N -> Mark] /\ got \in [1..(N + 1) -> Mark]
      /\ pend \in [Stage -> Mark] /\ took \in [Stage -> Mark]
  BY DEF InLine
<1> QED
  BY <1>1 DEF OrderInv

\* Before the start every mark is 0.
LEMMA InitInOrder == Init => OrderInv
<1> SUFFICES ASSUME Init PROVE OrderInv
  OBVIOUS
<1> DEFINE ends == [i \in 0..N |-> 0]
           ins  == [i \in 1..(N + 1) |-> 0]
           mids == [i \in Stage |-> 0]
<1>1. /\ ends \in [0..N -> Mark] /\ ins \in [1..(N + 1) -> Mark] /\ mids \in [Stage -> Mark]
      /\ \A i \in 0..N : ends[i] = 0
      /\ \A i \in 1..(N + 1) : ins[i] = 0
      /\ \A i \in Stage : mids[i] = 0
  BY MarksOK
<1>2. \A i \in Stage : i \in 0..N /\ i \in 1..(N + 1)
  BY GraphConstants DEF Stage
<1>3. \A c \in Edge : c \in 0..N /\ c + 1 \in 1..(N + 1)
  BY GraphConstants DEF Edge
<1>4. 0 \in 0..N /\ N + 1 \in 1..(N + 1)
  BY GraphConstants
<1> HIDE DEF ends, ins, mids
<1>5. ~cancelled /\ \A t \in Thread : pc[t] = "new"
  BY DEF Init
<1>6. \A c \in Chan : \A i : Flows(c, 0, 0, i)
  <2>1. \A c \in Chan : chan[c] = <<>>
    BY DEF Init
  <2>2. \A i : Chain(<<>>, 0, 0, i)
    BY DEF Chain, LastOf
  <2> QED
    BY <2>1, <2>2 DEF Flows, EosIn
<1>7. \A i \in Stage : Inside(i, 0, 0, 0)
  <2> SUFFICES ASSUME NEW i \in Stage PROVE Inside(i, 0, 0, 0)
    OBVIOUS
  <2>1. /\ iter[i] = <<>> /\ window[i] = <<>> /\ marks[i] = <<>> /\ epoch[i] = 0
        /\ pc[Worker(i)] = "new"
    BY Threads DEF Init
  <2>2. Held(i) = {} /\ ~Unseen(i) /\ ~Ending(i) /\ ~Turning(i)
    BY <2>1 DEF Held, UnitsOf, Unseen, Ending, Turning, Flushing
  <2>3. \A c \in Boundary : c \in Int /\ c > 0
    BY GraphConstants DEF Boundary, Unit
  <2>4. \A u \in Unit : u \in Int /\ ~(0 < u /\ u <= 0)
    BY MarksOK
  <2>5. InOrder(i, 0, 0)
    BY <2>1, <2>2, <2>4 DEF InOrder, Increasing
  <2>6. InShot(i, 0, 0)
    <3>1. Lists(<<>>, 0, 0)
      BY <2>3 DEF Lists
    <3>2. IsEpoch(0, 0)
      BY <2>3 DEF IsEpoch
    <3> QED
      BY <2>1, <2>2, <3>1, <3>2 DEF InShot
  <2> QED
    BY <2>1, <2>5, <2>6 DEF Inside, Emptied
<1>8. AtSource(0, 0) /\ \A i \in Stage : Hand(Courier(i), 0, 0, i)
  BY <1>5, Threads DEF Init, AtSource, Hand
<1>9. AtTerminal(0)
  BY <1>5, Threads DEF Init, AtTerminal, LastSeen
<1>10. Fresh(ends)
  <2>1. \A i \in 0..N, u \in Unit : refs[<<i, u>>] = 0
    BY DEF Init, Lease
  <2> QED
    BY <2>1 DEF Fresh
<1>11. InLine(ends, mids, mids, ends, ins)
  BY <1>1, <1>2, <1>3, <1>4, <1>6, <1>7, <1>8, <1>9, <1>10, ChannelPlaces DEF InLine
<1> QED
  BY <1>1, <1>11 DEF OrderInv

\* Once every thread is through, none starts again.
LEMMA StaysStopped ==
  ASSUME TypeInv, QuietInv, [Next]_vars, Running' PROVE Running
<1>0. ThreadsOK /\ Main \in Thread
  BY Threads DEF TypeInv, TypeOK
<1>1. CASE SourceStep \/ (\E i \in Stage : StageStep(i) \/ CourierStep(i)) \/ SinkStep
  BY <1>0, <1>1, Threads, StepsAreLive DEF QuietInv
<1>2. CASE MainStep \/ MainFails \/ Close
  BY <1>0, <1>2 DEF MainStep, Start, HostPull, HostGetUnit, HostGetEos, HostGetClosed,
     WaitReturns, CloseNext, Join, Drain, DropTerminal, CloseAll, StartFails, Close, MainFails,
     HostUnitFails, HostRaises, HostInterrupted, Fail, Cancel, Move, Goto,
     ThreadsOK, Running
<1>3. CASE Finished \/ UNCHANGED vars
  BY <1>3 DEF Finished, vars, Running
<1> QED
  BY <1>1, <1>2, <1>3 DEF Next

\* Every step keeps the line, with the marks that it moves.
LEMMA NextInOrder ==
  TypeInv /\ OutcomeInv /\ CountInv /\ QuietInv /\ OrderInv /\ [Next]_vars => OrderInv'
<1> SUFFICES ASSUME TypeInv, OutcomeInv, CountInv, QuietInv, OrderInv, [Next]_vars, Running'
             PROVE  OrderInv'
  BY DEF OrderInv
<1>0. Running
  BY StaysStopped
<1>1. PICK made \in [0..N -> Mark], sent \in [0..N -> Mark], got \in [1..(N + 1) -> Mark],
           pend \in [Stage -> Mark], took \in [Stage -> Mark] :
        InLine(made, pend, took, sent, got)
  BY <1>0 DEF OrderInv
<1>2. CASE SourceStep
  BY <1>1, <1>2, SourceInLine, LineIsOrder
<1>3. ASSUME NEW i \in Stage, StageStep(i) PROVE OrderInv'
  BY <1>1, <1>3, StageInLine, LineIsOrder
<1>4. ASSUME NEW i \in Stage, CourierStep(i) PROVE OrderInv'
  <2>1. PICK t, s \in Mark :
          InLine(made, pend, [took EXCEPT ![i] = t], [sent EXCEPT ![i] = s], got)'
    BY <1>1, <1>4, CourierInLine
  <2> QED
    BY <2>1, LineIsOrder
<1>5. CASE SinkStep
  BY <1>0, <1>1, <1>5, SinkInLine, LineIsOrder
<1>6. CASE Start
  BY <1>1, <1>6, StartInLine, LineIsOrder
<1>7. CASE Calls
  BY <1>0, <1>1, <1>7, CallInLine, LineIsOrder
<1>8. CASE Join \/ (\E c \in Chan : Drain(c)) \/ DropTerminal \/ CloseAll
  <2>1. ThreadsOK /\ Main \in Thread
    BY Threads DEF TypeInv, TypeOK
  <2>2. CASE Join
    BY <2>1, <2>2 DEF Join, Goto, ThreadsOK, Running
  <2> QED
    BY <1>0, <1>8, <2>2 DEF Drain, DropTerminal, CloseAll, Running
<1>9. CASE Finished \/ UNCHANGED vars
  <2>1. /\ Onward /\ SourceRests /\ \A i \in Stage : StageRests(i) /\ CourierRests(i)
        /\ TerminalRests /\ LeasesRest /\ chan' = chan
    BY <1>9 DEF Finished, vars, others, supervision, stageState, result, Onward, SourceRests,
       StageRests, CourierRests, TerminalRests, LeasesRest
  <2>2. \A c \in Edge : Flows(c, got[c + 1], sent[c], c)'
    BY <1>1, <2>1, ChannelPlaces, FlowRests DEF InLine
  <2>3. ASSUME NEW i \in Stage
        PROVE  /\ Inside(i, got[i], made[i], pend[i])'
               /\ Flows(PendingOf(i), took[i], pend[i], i)'
               /\ Hand(Courier(i), took[i], sent[i], i)'
    <3>1. /\ Inside(i, got[i], made[i], pend[i]) /\ Flows(PendingOf(i), took[i], pend[i], i)
          /\ Hand(Courier(i), took[i], sent[i], i)
      BY <1>1 DEF InLine
    <3> QED
      BY <2>1, <3>1, ChannelPlaces, Threads, StageRestsInside, FlowRests, HandRests
         DEF CourierRests
  <2>4. AtSource(made[0], sent[0])'
    BY <1>1, <2>1, Threads, HandRests DEF InLine, AtSource, SourceRests
  <2>5. AtTerminal(got[N + 1])' /\ Fresh(made)'
    BY <1>1, <2>1, TerminalRestsThere, FreshRests DEF InLine
  <2>6. InLine(made, pend, took, sent, got)'
    BY <1>1, <2>2, <2>3, <2>4, <2>5 DEF InLine
  <2> QED
    BY <2>6, LineIsOrder
<1>10. MainStep \/ MainFails \/ Close =>
         \/ Start \/ Calls \/ Join \/ (\E c \in Chan : Drain(c)) \/ DropTerminal \/ CloseAll
  BY DEF MainStep, MainFails, Calls
<1> QED
  BY <1>2, <1>3, <1>4, <1>5, <1>6, <1>7, <1>8, <1>9, <1>10 DEF Next

\* The inductive invariant of the graph.
GraphInv == TypeInv /\ OutcomeInv /\ CountInv /\ QuietInv /\ OrderInv

\* It holds of every run.
LEMMA GraphCorrect == Spec => []GraphInv
<1>1. Init => GraphInv
  BY InitTyped, InitSettled, InitCounted, InitQuiet, InitInOrder DEF GraphInv
<1>2. GraphInv /\ [Next]_vars => GraphInv'
  BY NextTyped, NextSettled, NextCounted, NextQuiet, NextInOrder DEF GraphInv
<1> QED
  BY <1>1, <1>2, PTL DEF Spec
=============================================================================
