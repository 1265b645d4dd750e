------------------------ MODULE StreamGraphDelivery -------------------------
(***************************************************************************)
(* What follows from the line of units, for every graph: the graph keeps   *)
(* the contract of StreamContract, shots do not mix, leases and slots are  *)
(* accounted for, nothing is left when the processors are closed, a run    *)
(* that reports its end left none out, and the frames that a comparison    *)
(* tee retains stay within its bound.                                      *)
(***************************************************************************)
EXTENDS StreamGraphOrder, CaptureBound, WellFoundedInduction

-----------------------------------------------------------------------------
(* Shots *)

\* The last boundary at or before a unit is its epoch.
LEMMA EpochIs ==
  ASSUME NEW u \in Unit, NEW b, IsEpoch(b, u) PROVE b = EpochOf(u)
<1> DEFINE upto == {c \in {1} \cup Cuts : c <= u}
<1>0. u \in Int /\ u >= 1 /\ \A c \in Boundary : c \in Int /\ c >= 1
  BY GraphConstants DEF Unit, Boundary
<1>1. 1 \in Boundary /\ Boundary = {1} \cup Cuts
  BY DEF Boundary
<1>2. b \in Boundary /\ b <= u /\ \A c \in Boundary : c <= u => c <= b
  BY <1>0, <1>1 DEF IsEpoch
<1>3. b \in upto /\ \A a \in upto : a <= b
  BY <1>1, <1>2
<1>4. \A a \in upto : (\A c \in upto : c <= a) => a = b
  <2> SUFFICES ASSUME NEW a \in upto, \A c \in upto : c <= a PROVE a = b
    OBVIOUS
  <2>1. b <= a /\ a <= b /\ a \in Int /\ b \in Int
    BY <1>0, <1>1, <1>2, <1>3
  <2> QED
    BY ONLY <2>1
<1>5. EpochOf(u) = CHOOSE x \in upto : \A a \in upto : a <= x
  BY DEF EpochOf
<1> HIDE DEF upto
<1> QED
  BY <1>3, <1>4, <1>5

\* The line says for which shot a stage is reset, so shots do not mix.
LEMMA OrderKeepsShots == GraphInv => ShotsDoNotMix
<1> SUFFICES ASSUME GraphInv, NEW i \in Stage
             PROVE  /\ pc[Worker(i)] = "process" => epoch[i] = EpochOf(cur[Worker(i)].unit)
                    /\ out[i] # None => epoch[i] = EpochOf(out[i].unit)
  BY DEF ShotsDoNotMix
<1>0. /\ InHand /\ Empty /\ Worker(i) \in Thread /\ Worker(i) # Main
      /\ (~Running => pc[Worker(i)] \in {"new", "done"})
  BY Threads DEF GraphInv, TypeInv, CountInv, QuietInv
<1>1. pc[Worker(i)] # "put" => out[i] = None
  BY <1>0 DEF Empty
<1>2. CASE ~Running
  BY <1>0, <1>1, <1>2
<1>3. CASE Running
  <2>1. PICK g, m, p : Inside(i, g, m, p)
    BY <1>3 DEF GraphInv, OrderInv, InLine
  <2>2. ASSUME pc[Worker(i)] = "process" PROVE epoch[i] = EpochOf(cur[Worker(i)].unit)
    <3>1. Alive(Worker(i)) /\ Unseen(i) /\ ~Turning(i)
      BY <2>2 DEF Alive, Unseen, Turning, Flushing
    <3>2. cur[Worker(i)].unit = g /\ IsEpoch(epoch[i], g)
      BY <2>1, <3>1 DEF Inside, InOrder, InShot
    <3>3. cur[Worker(i)].unit \in Unit
      BY <1>0, <2>2, Envelopes DEF InHand
    <3> QED
      BY <3>2, <3>3, EpochIs
  <2>3. ASSUME out[i] # None PROVE epoch[i] = EpochOf(out[i].unit)
    <3>1. pc[Worker(i)] = "put" /\ Alive(Worker(i))
      BY <1>1, <2>3 DEF Alive
    <3>2. IsEpoch(epoch[i], out[i].unit)
      BY <2>1, <3>1 DEF Inside
    <3>3. out[i].unit \in Unit
      BY <1>0, <3>1, Envelopes DEF InHand
    <3> QED
      BY <3>2, <3>3, EpochIs
  <2> QED
    BY <2>2, <2>3
<1> QED
  BY <1>2, <1>3

-----------------------------------------------------------------------------
(* The contract *)

\* The run reported the end of the stream; the status that the contract sees.
Complete == outcome = "ended" /\ finished # "early"
Status == IF Complete THEN "ended" ELSE IF Running THEN "open" ELSE "stopped"

\* It is the one that Contract is instantiated with.
LEMMA StatusIs == Reported = Status
BY DEF Reported, Status, Complete, Running

\* A sequence that grew by one.
LEMMA Appended ==
  ASSUME NEW S, NEW d \in Seq(S), NEW x \in S
  PROVE  /\ Len(Append(d, x)) = Len(d) + 1
         /\ Append(d, x)[Len(d) + 1] = x
         /\ SubSeq(Append(d, x), 1, Len(d)) = d
<1> DEFINE e == Append(d, x)
<1>1. /\ Len(e) = Len(d) + 1 /\ e[Len(d) + 1] = x /\ e \in Seq(S) /\ Len(d) \in Nat
      /\ \A i \in 1..Len(d) : e[i] = d[i]
  OBVIOUS
<1>2. \A i \in 1..Len(d) : e[i] \in S
  BY <1>1
<1> HIDE DEF e
<1>3. /\ SubSeq(e, 1, Len(d)) \in Seq(S) /\ Len(SubSeq(e, 1, Len(d))) = Len(d)
      /\ \A i \in 1..Len(d) : SubSeq(e, 1, Len(d))[i] = d[i]
  BY <1>1, <1>2
<1>4. SubSeq(e, 1, Len(d)) = d
  BY <1>1, <1>3
<1> QED
  BY <1>1, <1>4 DEF e

\* The last of a sequence is in its range.
LEMMA LastIn ==
  ASSUME NEW S, NEW d \in Seq(S), d # <<>> PROVE d[Len(d)] \in S
OBVIOUS

\* What was delivered last is a number.
LEMMA LastSeenTyped == TypeInv => LastSeen \in Int
<1> SUFFICES ASSUME TypeInv, delivered # <<>> PROVE delivered[Len(delivered)].unit \in Int
  BY DEF LastSeen
<1>1. delivered \in Seq([unit : Unit, bnds : Seq(Unit)])
  BY DEF TypeInv, TypeOK, ResultOK
<1>2. delivered[Len(delivered)] \in [unit : Unit, bnds : Seq(Unit)]
  BY <1>1, LastIn
<1>3. delivered[Len(delivered)].unit \in Unit
  BY <1>2
<1> QED
  BY <1>3, MarksOK

\* What a consumer gets next is what the contract lets it get.
LEMMA FollowsIsNext ==
  ASSUME TypeInv, NEW e \in Envelope, Follows(e, LastSeen, N),
         delivered' = Append(delivered, Seen(e)), Status = "open", Status' = "open"
  PROVE  Contract!Next
<1> DEFINE d == Append(delivered, Seen(e))
           x == Seen(e)
<1>1. x \in [unit : Unit, bnds : Seq(Unit)] /\ x.unit = e.unit /\ x.bnds = e.bnds
  BY Envelopes DEF Seen
<1>2. delivered \in Seq([unit : Unit, bnds : Seq(Unit)])
  BY DEF TypeInv, TypeOK, ResultOK
<1> HIDE DEF x
<1>3. /\ Len(delivered') = Len(delivered) + 1 /\ delivered'[Len(delivered) + 1] = x
      /\ SubSeq(delivered', 1, Len(delivered)) = delivered
  BY <1>1, <1>2, Appended DEF x
<1>4. Contract!Last = LastSeen
  BY DEF Contract!Last, LastSeen
<1>5. DroppedBy(N) = UNION {Drops[i] : i \in Stage}
  BY DEF DroppedBy, Stage
<1>6. e.unit \in Unit /\ \A u \in Unit : u \in Int
  BY Envelopes, MarksOK
<1>7. LastSeen \in Int
  BY LastSeenTyped
<1>8. x.unit \in Contract!Remaining /\ \A u \in Contract!Remaining : x.unit <= u
  <2>1. \A u : u \in Contract!Remaining <=> u \in Unit /\ u \notin DroppedBy(N) /\ LastSeen < u
    BY <1>4, <1>5, <1>6, <1>7 DEF Contract!Remaining
  <2>2. e.unit \in Contract!Remaining
    BY <1>6, <2>1 DEF Follows
  <2>3. \A u \in Contract!Remaining : ~(u < e.unit)
    BY <2>1 DEF Follows
  <2>4. \A u \in Contract!Remaining : u \in Int
    BY <1>6, <2>1
  <2> QED
    BY <1>1, <1>6, <2>2, <2>3, <2>4
<1>9. Contract!ListsBoundaries(x.bnds, x.unit)
  BY <1>1, <1>4 DEF Contract!ListsBoundaries, Follows, Lists, Boundary
<1>10. Contract!Deliver
  BY <1>3, <1>8, <1>9, StatusIs DEF Contract!Deliver, Reported, Status, Complete, Running
<1> QED
  BY <1>10 DEF Contract!Next

\* The run reports the end when nothing remains.
LEMMA OverIsEnd ==
  ASSUME TypeInv, Over(LastSeen, N), delivered' = delivered, Status = "open", Status' = "ended"
  PROVE  Contract!Next
<1>1. Contract!Last = LastSeen
  BY DEF Contract!Last, LastSeen
<1>2. DroppedBy(N) = UNION {Drops[i] : i \in Stage}
  BY DEF DroppedBy, Stage
<1>3. Contract!Remaining = {}
  <2>1. LastSeen \in Int /\ \A u \in Unit : u \in Int
    BY LastSeenTyped, MarksOK
  <2> QED
    BY <1>1, <1>2, <2>1 DEF Contract!Remaining, Over
<1>4. Contract!End
  BY <1>3, StatusIs DEF Contract!End, Reported, Status, Complete, Running
<1> QED
  BY <1>4 DEF Contract!Next

\* No step of a stage touches the result, and only one that fails cancels.
LEMMA StageLeaves ==
  ASSUME NEW i \in Stage, StageStep(i)
  PROVE  outcome' = outcome /\ finished' = finished /\ (StageFails(i) \/ cancelled' = cancelled)
<1> USE DEF CloseNext, Finally, Move, others, result, supervision
<1>1. CASE StageTop(i) \/ StageTurn(i) \/ StageGetEos(i) \/ StageGetUnit(i) \/ StageGetClosed(i)
  BY <1>1 DEF StageTop, StageTurn, StageGetEos, StageGetUnit, StageGetClosed
<1>2. CASE StageReset(i) \/ StageProcess(i) \/ StageEmit(i) \/ StagePut(i)
  BY <1>2 DEF StageReset, StageProcess, StageEmit, StagePut
<1>3. CASE StagePutRefused(i) \/ AfterPublish(i) \/ StageSlotCancelled(i) \/ StageSettle(i)
  BY <1>3 DEF StagePutRefused, AfterPublish, StageSlotCancelled, StageSettle, vars
<1>4. CASE StagePolls(i) \/ StageRelease(i) \/ StagePutEos(i)
  BY <1>4 DEF StagePolls, StageRelease, StagePutEos, vars
<1>5. CASE StageFails(i)
  BY <1>5 DEF StageFails
<1>6. CASE CloseNext(Worker(i)) \/ Finally(Worker(i))
  BY <1>6
<1> QED
  BY <1>1, <1>2, <1>3, <1>4, <1>5, <1>6 DEF StageStep

\* The actors before the consumer leave the result alone.
LEMMA ResultRests ==
  ASSUME SourceStep \/ \E i \in Stage : StageStep(i) \/ CourierStep(i)
  PROVE  outcome' = outcome /\ finished' = finished
<1>1. SourceStep => outcome' = outcome /\ finished' = finished
  BY DEF SourceStep, SourceNext, SourceExhausted, SourcePut, SourceRefused, SourceFails,
     CloseNext, Finally, Move, others, result
<1>2. \A i \in Stage : CourierStep(i) => outcome' = outcome /\ finished' = finished
  BY DEF CourierStep, CourierTop, CourierGet, CourierPut, CourierClosed, Finally, Move,
     others, result
<1> QED
  BY <1>1, <1>2, StageLeaves

\* The source, the stages and the publishers change nothing the contract sees.
LEMMA ActorsKeepContract ==
  ASSUME GraphInv, SourceStep \/ (\E i \in Stage : StageStep(i) \/ CourierStep(i))
  PROVE  delivered' = delivered /\ Status' = Status
<1>1. pc'[Main] = pc[Main] /\ delivered' = delivered
  BY SourceMoves, StageMoves, CourierMoves DEF GraphInv, TerminalRests
<1>2. outcome' = outcome /\ finished' = finished
  BY ResultRests
<1> QED
  BY <1>1, <1>2 DEF Status, Complete, Running

\* A sink delivers the unit that follows, or nothing.
LEMMA SinkKeepsContract ==
  ASSUME GraphInv, SinkStep PROVE Contract!Next \/ (delivered' = delivered /\ Status' = Status)
<1>0. /\ ThreadsOK /\ InHand /\ Phases /\ Settled /\ Sink \in Thread /\ Main \in Thread
      /\ Main # Sink /\ TypeInv /\ (~Running => pc[Sink] \in {"new", "done"})
      /\ pc[Sink] \notin {"new", "done"}
  BY Threads, StepsAreLive DEF GraphInv, TypeInv, TypeOK, OutcomeInv, QuietInv
<1>1. Running /\ ~Complete /\ Status = "open"
  BY <1>0 DEF Settled, Complete, Status
<1>2. Running' /\ outcome' = outcome
  BY <1>0, <1>1, SinkMoves DEF SinkStep, SinkTop, SinkGetUnit, SinkGetEos, SinkFinishFails,
     SinkGetClosed, SinkConsume, SinkStop, SinkFails, SinkFinally, CloseNext, Move, others,
     result, Running
<1>3. ~Complete'
  <2>1. finished' = "early" \/ finished' = finished \/ SinkGetEos
    BY DEF SinkStep, SinkTop, SinkGetUnit, SinkFinishFails, SinkGetClosed, SinkConsume, SinkStop,
       SinkFails, SinkFinally, CloseNext, Move, others, result
  <2>2. CASE SinkGetEos
    BY <1>0, <1>1, <1>2, <2>2 DEF SinkGetEos, Phases, Spent, Complete
  <2> QED
    BY <1>1, <1>2, <2>1, <2>2 DEF Complete
<1>4. Status' = "open"
  BY <1>2, <1>3 DEF Status
<1>5. CASE SinkConsume
  <2>1. PICK e \in Envelope : e = cur[Sink]
    BY <1>0, <1>5 DEF SinkConsume, InHand
  <2>2. Follows(e, LastSeen, N)
    BY <1>1, <1>5, <2>1 DEF GraphInv, OrderInv, InLine, AtTerminal, SinkConsume
  <2>3. delivered' = Append(delivered, Seen(e))
    BY <1>5, <2>1 DEF SinkConsume
  <2> QED
    BY <1>0, <1>1, <1>4, <2>2, <2>3, FollowsIsNext
<1>6. CASE ~SinkConsume
  <2>1. delivered' = delivered
    BY <1>6 DEF SinkStep, SinkTop, SinkGetUnit, SinkGetEos, SinkFinishFails, SinkGetClosed,
       SinkStop, SinkFails, SinkFinally, CloseNext, Move, others, result
  <2> QED
    BY <1>1, <1>4, <2>1
<1> QED
  BY <1>5, <1>6

\* A host delivers the unit that follows, ends when nothing follows, or stops.
LEMMA CallsKeepContract ==
  ASSUME GraphInv, MainStep \/ MainFails \/ Close
  PROVE  Contract!Next \/ (delivered' = delivered /\ Status' = Status)
<1>0. /\ ThreadsOK /\ ChannelsOK /\ Phases /\ Settled /\ SinkEnd /\ TypeInv /\ Main \in Thread
      /\ Main # Sink /\ N \in Chan /\ (pc[Main] \in {"idle", "get"} /\ cancelled => failed)
  BY Threads, ChannelPlaces DEF GraphInv, TypeInv, TypeOK, OutcomeInv, QuietInv
<1>1. pc[Main] \notin {"join", "drain", "closed"} => ~Complete
  BY <1>0 DEF Settled, Complete
<1>2. CASE Start \/ HostPull \/ CloseNext(Main)
  <2>1. pc[Main] \in {"new", "idle", "closing"} /\ Running /\ Running'
    BY <1>0, <1>2 DEF Start, HostPull, CloseNext, Goto, ThreadsOK, Running
  <2>2. UNCHANGED <<delivered, outcome, finished>>
    BY <1>2 DEF Start, HostPull, CloseNext, others, result
  <2> QED
    BY <2>1, <2>2 DEF Status, Complete
<1>3. CASE HostGetUnit
  <2>1. PICK e : e = Head(chan[N])
    OBVIOUS
  <2>2. Running /\ Running' /\ ~Complete /\ ~Complete'
    BY <1>0, <1>1, <1>3 DEF HostGetUnit, Goto, ThreadsOK, Running, Complete
  <2>3. PICK g, s : Flows(N, g, s, N) /\ g = LastSeen
    BY <1>3, <2>2, ChannelPlaces DEF HostGetUnit, GraphInv, OrderInv, InLine, AtTerminal
  <2>4. Onward
    BY <1>3 DEF HostGetUnit, supervision, Onward
  <2>5. e \in Envelope /\ Follows(e, LastSeen, N)
    BY <1>0, <1>3, <2>1, <2>3, <2>4, UnitTaken DEF HostGetUnit
  <2>6. delivered' = Append(delivered, Seen(e))
    BY <1>3, <2>1 DEF HostGetUnit
  <2> QED
    BY <1>0, <2>2, <2>5, <2>6, FollowsIsNext DEF Status
<1>4. CASE HostGetEos
  <2>1. /\ Running /\ Running' /\ ~Complete /\ delivered' = delivered /\ finished' = finished
        /\ failed => outcome' = "failed"
    BY <1>0, <1>1, <1>4 DEF HostGetEos, Cancel, Goto, ThreadsOK, Running
  <2>2. CASE failed
    BY <2>1, <2>2 DEF Status, Complete
  <2>3. CASE ~failed
    <3>1. PICK g, s : Flows(N, g, s, N) /\ g = LastSeen
      BY <1>4, <2>1, ChannelPlaces DEF HostGetEos, GraphInv, OrderInv, InLine, AtTerminal
    <3>2. Onward /\ ~cancelled
      BY <1>0, <1>4, <2>3 DEF HostGetEos, supervision, Onward
    <3>3. Over(LastSeen, N)
      BY <1>0, <1>4, <3>1, <3>2, EosTaken DEF HostGetEos
    <3> QED
      BY <1>0, <2>1, <3>3, OverIsEnd DEF Status
  <2> QED
    BY <2>2, <2>3
<1>5. CASE HostGetClosed \/ Close \/ StartFails \/ HostRaises \/ HostInterrupted
  <2>1. /\ pc[Main] \in {"new", "idle", "wait", "get", "raise"}
        /\ outcome' \in {"failed", "cancelled"}
    BY <1>5 DEF HostGetClosed, Close, StartFails, HostRaises, HostInterrupted
  <2>2. Running /\ Running' /\ delivered' = delivered
    BY <1>0, <1>5, <2>1 DEF HostGetClosed, Close, StartFails, HostRaises, HostInterrupted, Cancel,
       Fail, Goto, ThreadsOK, Running
  <2> QED
    BY <1>1, <2>1, <2>2 DEF Status, Complete
<1>6. CASE WaitReturns
  <2>1. /\ Running /\ Running' /\ ~Complete /\ delivered' = delivered /\ finished' = finished
        /\ failed => outcome' = "failed"
    BY <1>0, <1>1, <1>6 DEF WaitReturns, Cancel, Goto, ThreadsOK, Running
  <2>2. CASE failed \/ finished = "early"
    BY <2>1, <2>2 DEF Status, Complete
  <2>3. CASE ~failed /\ finished # "early"
    <3>1. ~cancelled
      BY <1>0, <1>6, <2>3 DEF WaitReturns, SinkEnd
    <3>2. Over(LastSeen, N)
      BY <1>6, <2>1, <3>1 DEF WaitReturns, GraphInv, OrderInv, InLine, AtTerminal
    <3> QED
      BY <1>0, <2>1, <3>2, OverIsEnd DEF Status
  <2> QED
    BY <2>2, <2>3
<1>7. CASE Join
  <2>1. Running /\ ~Running' /\ UNCHANGED <<delivered, outcome, finished>>
    BY <1>0, <1>7 DEF Join, Goto, ThreadsOK, Running, result
  <2>2. Complete' = Complete
    BY <2>1 DEF Complete
  <2>3. CASE Complete
    BY <2>1, <2>2, <2>3 DEF Status
  <2>4. CASE ~Complete
    <3>1. Status = "open" /\ Status' = "stopped"
      BY <2>1, <2>2, <2>4 DEF Status
    <3>2. Contract!Stop
      BY <2>1, <3>1, StatusIs DEF Contract!Stop, Reported, Status, Complete, Running
    <3> QED
      BY <3>2 DEF Contract!Next
  <2> QED
    BY <2>3, <2>4
<1>8. CASE (\E c \in Chan : Drain(c)) \/ DropTerminal \/ CloseAll
  <2>1. ~Running /\ ~Running' /\ UNCHANGED <<delivered, outcome, finished>>
    BY <1>0, <1>8 DEF Drain, DropTerminal, CloseAll, Move, Goto, ThreadsOK, Running, others, result
  <2> QED
    BY <2>1 DEF Status, Complete
<1>9. CASE HostUnitFails
  <2>1. Running /\ Running' /\ UNCHANGED <<delivered, outcome, finished>>
    BY <1>0, <1>9 DEF HostUnitFails, Goto, ThreadsOK, Running, result
  <2> QED
    BY <2>1 DEF Status, Complete
<1> QED
  BY <1>2, <1>3, <1>4, <1>5, <1>6, <1>7, <1>8, <1>9 DEF MainStep, MainFails

\* Every step is a step of the contract, or changes nothing that it sees.
LEMMA StepsKeepContract ==
  GraphInv /\ [Next]_vars => Contract!Next \/ (delivered' = delivered /\ Status' = Status)
<1>1. CASE Finished \/ UNCHANGED vars
  BY <1>1 DEF Finished, vars, others, result, Status, Complete, Running
<1> QED
  BY <1>1, ActorsKeepContract, SinkKeepsContract, CallsKeepContract DEF Next

\* Whatever a run delivers is in source order, without a gap, with each boundary on
\* the first unit at or after it; and a run that reports the end has delivered all.
THEOREM ContractKept == Spec => KeepsContract
<1>1. Init => Contract!Init
  BY StatusIs, Threads DEF Init, Contract!Init, Reported, Status, Complete, Running
<1>2. ASSUME GraphInv, [Next]_vars
      PROVE  Contract!Next \/ UNCHANGED <<delivered, Reported>>
  <2>1. Contract!Next \/ (delivered' = delivered /\ Status' = Status)
    BY <1>2, StepsKeepContract
  <2> QED
    BY <2>1 DEF Reported, Status, Complete, Running
<1> QED
  BY <1>1, <1>2, GraphCorrect, PTL DEF Spec, KeepsContract, Contract!Spec

-----------------------------------------------------------------------------
(* The holders of a lease *)

\* Two sets with a bijection, given as a function.
LEMMA SameSize ==
  ASSUME NEW S, IsFiniteSet(S), NEW T, NEW f \in [S -> T],
         \A a, b \in S : f[a] = f[b] => a = b, \A t \in T : \E s \in S : f[s] = t
  PROVE  IsFiniteSet(T) /\ Cardinality(T) = Cardinality(S)
<1>1. f \in Bijection(S, T)
  BY DEF Bijection, Injection, Surjection, IsInjective
<1>2. ExistsBijection(S, T)
  BY <1>1 DEF ExistsBijection
<1> QED
  BY <1>2, FS_Bijection

\* Two sets with nothing in common.
LEMMA Disjoint ==
  ASSUME NEW S, IsFiniteSet(S), NEW T, IsFiniteSet(T), S \cap T = {}
  PROVE  IsFiniteSet(S \cup T) /\ Cardinality(S \cup T) = Cardinality(S) + Cardinality(T)
<1>1. /\ IsFiniteSet(S \cup T)
      /\ Cardinality(S \cup T) = Cardinality(S) + Cardinality(T) - Cardinality(S \cap T)
  BY FS_Union
<1>2. Cardinality(S \cap T) = 0
  BY FS_EmptySet
<1>3. Cardinality(S) \in Nat /\ Cardinality(T) \in Nat
  BY FS_CardinalityType
<1> QED
  BY <1>1, <1>2, <1>3

\* The count of a lease is the number of its holders as LeasesAccounted names them.
LEMMA HoldersCounted ==
  ASSUME TypeInv, NEW l \in Lease, Counted(l) PROVE refs[l] = Cardinality(Holders(l))
<1> DEFINE A == UNION {{<<"queued", c, k>> : k \in {k \in DOMAIN chan[c] :
                  chan[c][k] # EOS /\ chan[c][k].lease = l}} : c \in Chan}
           B == {<<"hand", t>> : t \in {t \in Thread :
                   cur[t] \notin {EOS, None} /\ cur[t].lease = l}}
           C == {<<"out", i>> : i \in {i \in Stage : out[i] # None /\ out[i].lease = l}}
           D == {<<"terminal", k>> : k \in {k \in DOMAIN terminal : terminal[k] = l}}
<1>0. ChannelsOK /\ StagesOK
  BY DEF TypeInv, TypeOK
<1>1. IsFiniteSet(A) /\ Cardinality(A) = Cardinality(Queued(l))
  <2> DEFINE f == [p \in Queued(l) |-> <<"queued", p[1], p[2]>>]
  <2>1. ASSUME NEW c \in Chan, NEW k \in DOMAIN chan[c]
        PROVE  k \in Nat /\ (chan[c][k] # EOS <=> chan[c][k] \notin {EOS, None})
    <3>1. chan[c] \in Seq(Message) /\ k \in Nat
      BY <1>0 DEF ChannelsOK
    <3>2. chan[c][k] \in Message
      BY <3>1
    <3> QED
      BY <3>1, <3>2, GraphConstants DEF Message
  <2>2. \A x : x \in A <=> \E c \in Chan : \E k \in DOMAIN chan[c] :
                 x = <<"queued", c, k>> /\ chan[c][k] # EOS /\ chan[c][k].lease = l
    OBVIOUS
  <2> HIDE DEF A
  <2>3. \A p \in Queued(l) : p = <<p[1], p[2]>> /\ p[1] \in Chan /\ p[2] \in DOMAIN chan[p[1]]
                             /\ On(chan[p[1]][p[2]], l)
    BY DEF Queued
  <2>4. f \in [Queued(l) -> A]
    <3> SUFFICES ASSUME NEW p \in Queued(l) PROVE <<"queued", p[1], p[2]>> \in A
      OBVIOUS
    <3> QED
      BY <2>2, <2>3 DEF On
  <2>5. \A a, b \in Queued(l) : f[a] = f[b] => a = b
    <3> SUFFICES ASSUME NEW a \in Queued(l), NEW b \in Queued(l),
                        <<"queued", a[1], a[2]>> = <<"queued", b[1], b[2]>>
                 PROVE  a = b
      OBVIOUS
    <3>1. a[1] = b[1] /\ a[2] = b[2]
      OBVIOUS
    <3> QED
      BY <2>3, <3>1
  <2>6. \A t \in A : \E s \in Queued(l) : f[s] = t
    <3> SUFFICES ASSUME NEW t \in A PROVE \E s \in Queued(l) : f[s] = t
      OBVIOUS
    <3>1. PICK c \in Chan : \E k \in DOMAIN chan[c] :
            t = <<"queued", c, k>> /\ chan[c][k] # EOS /\ chan[c][k].lease = l
      BY <2>2
    <3>2. PICK k \in DOMAIN chan[c] :
            t = <<"queued", c, k>> /\ chan[c][k] # EOS /\ chan[c][k].lease = l
      BY <3>1
    <3>3. <<c, k>> \in Queued(l)
      BY <2>1, <3>2 DEF Queued, On
    <3> QED
      BY <3>2, <3>3
  <2> HIDE DEF f
  <2> QED
    BY <2>4, <2>5, <2>6, SameSize DEF Counted
<1>2. IsFiniteSet(B) /\ Cardinality(B) = Cardinality(Hands(l))
  <2> DEFINE f == [t \in Hands(l) |-> <<"hand", t>>]
  <2>1. f \in [Hands(l) -> B] /\ \A t \in B : \E s \in Hands(l) : f[s] = t
    BY DEF Hands, On
  <2>2. \A a, b \in Hands(l) : f[a] = f[b] => a = b
    OBVIOUS
  <2> HIDE DEF f
  <2> QED
    BY <2>1, <2>2, SameSize DEF Counted
<1>3. IsFiniteSet(C) /\ Cardinality(C) = Cardinality(Outs(l))
  <2> DEFINE f == [i \in Outs(l) |-> <<"out", i>>]
  <2>1. \A i \in Stage : out[i] # EOS
    BY <1>0, GraphConstants DEF StagesOK
  <2>2. f \in [Outs(l) -> C] /\ \A t \in C : \E s \in Outs(l) : f[s] = t
    BY <2>1 DEF Outs, On
  <2>3. \A a, b \in Outs(l) : f[a] = f[b] => a = b
    OBVIOUS
  <2> HIDE DEF f
  <2> QED
    BY <2>2, <2>3, SameSize DEF Counted
<1>4. IsFiniteSet(D) /\ Cardinality(D) = Cardinality(Kept(l))
  <2> DEFINE f == [k \in Kept(l) |-> <<"terminal", k>>]
  <2>1. f \in [Kept(l) -> D] /\ \A t \in D : \E s \in Kept(l) : f[s] = t
    BY DEF Kept
  <2>2. \A a, b \in Kept(l) : f[a] = f[b] => a = b
    OBVIOUS
  <2> HIDE DEF f
  <2> QED
    BY <2>1, <2>2, SameSize DEF Counted
<1>5. /\ \A x \in A : x[1] = "queued"
      /\ \A x \in B : x[1] = "hand"
      /\ \A x \in C : x[1] = "out"
      /\ \A x \in D : x[1] = "terminal"
  OBVIOUS
<1>6. Holders(l) = ((A \cup B) \cup C) \cup D
  BY DEF Holders
<1> HIDE DEF A, B, C, D
<1>7. A \cap B = {} /\ (A \cup B) \cap C = {} /\ ((A \cup B) \cup C) \cap D = {}
  BY <1>5
<1>8. IsFiniteSet(A \cup B) /\ Cardinality(A \cup B) = Cardinality(A) + Cardinality(B)
  BY <1>1, <1>2, <1>7, Disjoint
<1>9. /\ IsFiniteSet((A \cup B) \cup C)
      /\ Cardinality((A \cup B) \cup C) = Cardinality(A \cup B) + Cardinality(C)
  BY <1>3, <1>7, <1>8, Disjoint
<1>10. Cardinality(((A \cup B) \cup C) \cup D) = Cardinality((A \cup B) \cup C) + Cardinality(D)
  BY <1>4, <1>7, <1>9, Disjoint
<1> QED
  BY <1>1, <1>2, <1>3, <1>4, <1>6, <1>8, <1>9, <1>10 DEF Counted

-----------------------------------------------------------------------------
(* Output slots *)

\* The units that have a lease of stage i alive.
Taken(i) == {u \in Unit : refs[<<i, u>>] > 0}

\* A slot is taken exactly while an output of its operation lives.
SlotInv ==
  \A i \in Stage : IF Slots[i] > 0 THEN free[i] + Cardinality(Taken(i)) = Slots[i]
                                   ELSE free[i] = 0

\* Slots are counted by finite sets.
LEMMA TakenIsFinite == \A i : IsFiniteSet(Taken(i)) /\ Cardinality(Taken(i)) \in Nat
<1>1. IsFiniteSet(Unit)
  BY GraphConstants, FS_Interval DEF Unit
<1> SUFFICES ASSUME NEW i PROVE IsFiniteSet(Taken(i)) /\ Cardinality(Taken(i)) \in Nat
  OBVIOUS
<1>2. Taken(i) \in SUBSET Unit
  BY DEF Taken
<1>3. IsFiniteSet(Taken(i))
  BY <1>1, <1>2, FS_Subset
<1> QED
  BY <1>3, FS_CardinalityType

\* A number that is at least 1.
Positive(n) == n > 0

\* The count of one lease changes.
LEMMA TakenChange ==
  ASSUME NEW j \in 0..N, NEW u \in Unit, \A x \in Lease : x # <<j, u>> => refs'[x] = refs[x],
         NEW i \in Stage
  PROVE  Cardinality(Taken(i)') = IF i # j THEN Cardinality(Taken(i))
                                  ELSE Cardinality(Taken(i)) - One(Positive(refs[<<j, u>>]))
                                                             + One(Positive(refs'[<<j, u>>]))
<1>0. i \in 0..N
  BY GraphConstants DEF Stage
<1>1. CASE i # j
  <2>1. \A v \in Unit : <<i, v>> \in Lease /\ <<i, v>> # <<j, u>>
    BY <1>0, <1>1 DEF Lease
  <2>2. Taken(i)' = Taken(i)
    BY <2>1 DEF Taken
  <2> QED
    BY <1>1, <2>2
<1>2. CASE i = j
  <2>1. \A v \in Unit : v # u => <<i, v>> \in Lease /\ <<i, v>> # <<j, u>>
    BY <1>0 DEF Lease
  <2>2. \A y : y # u => (y \in Taken(i) <=> y \in Taken(i)')
    BY <2>1 DEF Taken
  <2>3. /\ Positive(refs[<<j, u>>]) <=> u \in Taken(i)
        /\ Positive(refs'[<<j, u>>]) <=> u \in Taken(i)'
    BY <1>2 DEF Taken, Positive
  <2>4. IsFiniteSet(Taken(i))
    BY TakenIsFinite
  <2>5. Cardinality(Taken(i)') = Cardinality(Taken(i)) - One(Positive(refs[<<j, u>>]))
                                                       + One(Positive(refs'[<<j, u>>]))
    BY <2>2, <2>3, <2>4, Exchange
  <2> QED
    BY <1>2, <2>5
<1> QED
  BY <1>1, <1>2

\* A release gives a slot back with the last handle of an output only.
LEMMA ReleaseKeepsSlots ==
  ASSUME LeasesOK, SlotInv, NEW l \in Lease, Release(l), refs[l] > 0 PROVE SlotInv'
<1> SUFFICES ASSUME NEW i \in Stage
             PROVE  IF Slots[i] > 0 THEN free'[i] + Cardinality(Taken(i)') = Slots[i]
                                    ELSE free'[i] = 0
  BY DEF SlotInv
<1>1. PICK j \in 0..N, u \in Unit : l = <<j, u>> /\ l[1] = j
  BY DEF Lease
<1>2. /\ \A x \in Lease : x # <<j, u>> => refs'[x] = refs[x]
      /\ refs'[l] = refs[l] - 1 /\ refs[l] \in Int /\ free[i] \in Int
      /\ IF refs[l] = 1 /\ j \in Stage /\ Slots[j] > 0 /\ i = j
         THEN free'[i] = free[i] + 1 ELSE free'[i] = free[i]
  BY <1>1 DEF LeasesOK, Release
<1>3. Cardinality(Taken(i)') = IF i # j THEN Cardinality(Taken(i))
                               ELSE Cardinality(Taken(i)) - One(Positive(refs[l]))
                                                          + One(Positive(refs'[l]))
  BY <1>1, <1>2, TakenChange
<1>4. One(Positive(refs[l])) = 1 /\ One(Positive(refs'[l])) = IF refs[l] = 1 THEN 0 ELSE 1
  BY <1>2 DEF One, Positive
<1>5. Cardinality(Taken(i)) \in Nat /\ Slots[i] \in Nat
  BY TakenIsFinite, GraphConstants
<1>6. IF Slots[i] > 0 THEN free[i] + Cardinality(Taken(i)) = Slots[i] ELSE free[i] = 0
  BY DEF SlotInv
<1> QED
  BY <1>2, <1>3, <1>4, <1>5, <1>6

\* A handle on a lease that has one, or of the source.
LEMMA HandleKeepsSlots ==
  ASSUME LeasesOK, SlotInv, NEW l \in Lease, AddHandle(l), l[1] = 0 \/ refs[l] > 0, free' = free
  PROVE  SlotInv'
<1> SUFFICES ASSUME NEW i \in Stage
             PROVE  IF Slots[i] > 0 THEN free'[i] + Cardinality(Taken(i)') = Slots[i]
                                    ELSE free'[i] = 0
  BY DEF SlotInv
<1>1. PICK j \in 0..N, u \in Unit : l = <<j, u>> /\ l[1] = j
  BY DEF Lease
<1>2. /\ \A x \in Lease : x # <<j, u>> => refs'[x] = refs[x]
      /\ refs'[l] = refs[l] + 1 /\ refs[l] \in Int
  BY <1>1 DEF LeasesOK, AddHandle
<1>3. Cardinality(Taken(i)') = IF i # j THEN Cardinality(Taken(i))
                               ELSE Cardinality(Taken(i)) - One(Positive(refs[l]))
                                                          + One(Positive(refs'[l]))
  BY <1>1, <1>2, TakenChange
<1>4. i = j => One(Positive(refs[l])) = 1 /\ One(Positive(refs'[l])) = 1
  BY <1>1, <1>2 DEF One, Positive, Stage
<1>5. Cardinality(Taken(i)) \in Nat
  BY TakenIsFinite
<1>6. IF Slots[i] > 0 THEN free[i] + Cardinality(Taken(i)) = Slots[i] ELSE free[i] = 0
  BY DEF SlotInv
<1> QED
  BY <1>3, <1>4, <1>5, <1>6

\* A new output takes a slot.
LEMMA OutputTakesSlot ==
  ASSUME LeasesOK, SlotInv, NEW j \in Stage, NEW u \in Unit, AddHandle(<<j, u>>),
         refs[<<j, u>>] = 0,
         free' = IF Slots[j] = 0 THEN free ELSE [free EXCEPT ![j] = @ - 1]
  PROVE  SlotInv'
<1> SUFFICES ASSUME NEW i \in Stage
             PROVE  IF Slots[i] > 0 THEN free'[i] + Cardinality(Taken(i)') = Slots[i]
                                    ELSE free'[i] = 0
  BY DEF SlotInv
<1>1. j \in 0..N /\ <<j, u>> \in Lease
  BY GraphConstants DEF Stage, Lease
<1>2. /\ \A x \in Lease : x # <<j, u>> => refs'[x] = refs[x]
      /\ refs'[<<j, u>>] = 1 /\ free[i] \in Int
      /\ free'[i] = IF Slots[j] # 0 /\ i = j THEN free[i] - 1 ELSE free[i]
  BY <1>1 DEF LeasesOK, AddHandle
<1>3. Cardinality(Taken(i)') = IF i # j THEN Cardinality(Taken(i))
                               ELSE Cardinality(Taken(i)) - One(Positive(refs[<<j, u>>]))
                                                          + One(Positive(refs'[<<j, u>>]))
  BY ONLY <1>1, <1>2, TakenChange, i \in Stage, u \in Unit
<1>4. One(Positive(refs[<<j, u>>])) = 0 /\ One(Positive(refs'[<<j, u>>])) = 1
  BY <1>2 DEF One, Positive
<1>5. Cardinality(Taken(i)) \in Nat /\ Slots[i] \in Nat
  BY TakenIsFinite, GraphConstants
<1>6. IF Slots[i] > 0 THEN free[i] + Cardinality(Taken(i)) = Slots[i] ELSE free[i] = 0
  BY DEF SlotInv
<1> QED
  BY <1>2, <1>3, <1>4, <1>5, <1>6

-----------------------------------------------------------------------------
(* What a step does to leases and slots *)

\* A step changes no lease, gives one handle up, adds one to a lease that needs no slot
\* for it, or makes the first handle of an output.
LeasesRestFully == UNCHANGED <<refs, free>>
Gives == \E l \in Lease : Release(l)
Shares == \E l \in Lease : AddHandle(l) /\ (l[1] = 0 \/ refs[l] > 0) /\ free' = free
Makes ==
  \E i \in Stage, u \in Unit :
    /\ AddHandle(<<i, u>>) /\ refs[<<i, u>>] = 0
    /\ free' = IF Slots[i] = 0 THEN free ELSE [free EXCEPT ![i] = @ - 1]

LeaseStep == LeasesRestFully \/ Gives \/ Shares \/ Makes

\* The finally clause of an actor.
LEMMA FinallyLeases ==
  ASSUME TypeInv, NEW t \in Thread, Finally(t) PROVE LeaseStep
<1>0. cur[t] \in Message \cup {None}
  BY DEF TypeInv, TypeOK, ThreadsOK
<1>1. CASE cur[t] \in {None, EOS}
  BY <1>1 DEF Finally, LeaseStep, LeasesRestFully
<1>2. CASE cur[t] \notin {None, EOS}
  BY <1>0, <1>2, Envelopes DEF Finally, Message, LeaseStep, Gives
<1> QED
  BY <1>1, <1>2

\* The source, the sink and the publishers.
LEMMA EndLeases ==
  ASSUME TypeInv, SourceStep \/ SinkStep \/ (\E i \in Stage : CourierStep(i)) PROVE LeaseStep
<1>0. /\ InHand /\ cur[Sink] \in Envelope \cup {None} /\ terminal \in Seq(Lease)
      /\ next \in 1..(NumUnits + 1)
  BY DEF TypeInv, TypeOK, InHand, LeasesOK, ThreadsOK
<1>1. CASE SourceStep
  <2>1. CASE SourceNext
    <3>1. <<0, next>> \in Lease /\ <<0, next>>[1] = 0
      BY <1>0, <2>1, GraphConstants DEF SourceNext, Lease, Unit
    <3> QED
      BY <2>1, <3>1 DEF SourceNext, LeaseStep, LeasesRestFully, Shares
  <2>2. CASE Finally(Source)
    BY <2>2, FinallyLeases, Threads
  <2>3. CASE ~SourceNext /\ ~Finally(Source)
    BY <1>1, <2>3 DEF SourceStep, SourceExhausted, SourcePut, SourceRefused, SourceFails,
       CloseNext, Move, others, LeaseStep, LeasesRestFully
  <2> QED
    BY <2>1, <2>2, <2>3
<1>2. CASE SinkStep
  <2>1. terminal # <<>> => terminal[1] \in Lease
    BY <1>0
  <2>2. CASE SinkConsume
    <3>1. cur[Sink] \in Envelope
      BY <1>0, <2>2 DEF SinkConsume, InHand
    <3> QED
      BY <2>1, <2>2, <3>1, Envelopes DEF SinkConsume, LeaseStep, LeasesRestFully, Gives
  <2>3. CASE SinkFinally
    BY <1>0, <2>1, <2>3, Envelopes DEF SinkFinally, LeaseStep, LeasesRestFully, Gives
  <2>4. CASE ~SinkConsume /\ ~SinkFinally
    BY <1>2, <2>4 DEF SinkStep, SinkTop, SinkGetUnit, SinkGetEos, SinkFinishFails,
       SinkGetClosed, SinkStop, SinkFails, CloseNext, Move, others, LeaseStep,
       LeasesRestFully
  <2> QED
    BY <2>2, <2>3, <2>4
<1>3. ASSUME NEW i \in Stage, CourierStep(i) PROVE LeaseStep
  <2>1. CASE Finally(Courier(i))
    BY <2>1, FinallyLeases, Threads
  <2>2. CASE ~Finally(Courier(i))
    BY <1>3, <2>2 DEF CourierStep, CourierTop, CourierGet, CourierPut, CourierClosed, Move,
       others, LeaseStep, LeasesRestFully
  <2> QED
    BY <2>1, <2>2
<1> QED
  BY <1>1, <1>2, <1>3

\* A stage emits a unit that it has not emitted before.
LEMMA EmitMakes ==
  ASSUME GraphInv, NEW i \in Stage, StageEmit(i) PROVE LeaseStep
<1>0. /\ TypeInv /\ InHand /\ LeasesOK /\ Worker(i) \in Thread /\ Worker(i) # Main /\ i \in 0..N
      /\ pc[Worker(i)] = "emit" /\ Running
  <2>1. Worker(i) \in Thread /\ Worker(i) # Main /\ i \in 0..N
    BY Threads, GraphConstants DEF Stage
  <2>2. pc[Worker(i)] = "emit"
    BY DEF StageEmit
  <2>3. Running
    BY <2>1, <2>2 DEF GraphInv, QuietInv
  <2> QED
    BY <2>1, <2>2, <2>3 DEF GraphInv, TypeInv, TypeOK
<1>1. PICK u : u = Head(iter[i])
  OBVIOUS
<1>2. PICK made \in [0..N -> Mark], g \in Mark, p \in Mark :
        Inside(i, g, made[i], p) /\ Fresh(made)
  <2>1. i \in 1..(N + 1)
    BY GraphConstants DEF Stage
  <2> QED
    BY <1>0, <2>1 DEF GraphInv, OrderInv, InLine
<1>3. made[i] \in Mark
  BY <1>0
<1>4. u \in Unit /\ made[i] < u
  BY <1>0, <1>1, <1>2, <1>3, EmitInside
<1>5. PICK alias \in BOOLEAN :
        alias <=> i \in Alias /\ kind[i] = "process" /\ u = cur[Worker(i)].unit
  OBVIOUS
<1>6. /\ AddHandle(IF alias THEN cur[Worker(i)].lease ELSE <<i, u>>)
      /\ free' = IF alias \/ Slots[i] = 0 THEN free ELSE [free EXCEPT ![i] = @ - 1]
  BY <1>1, <1>5 DEF StageEmit
<1>7. CASE alias
  <2>1. cur[Worker(i)] \in Envelope /\ cur[Worker(i)].lease \in Lease
    BY <1>0, <1>5, <1>7, Envelopes DEF InHand
  <2>2. refs[cur[Worker(i)].lease] > 0
    BY <1>0, <2>1, HandleInHand DEF GraphInv, CountInv
  <2> QED
    BY <1>6, <1>7, <2>1, <2>2 DEF LeaseStep, Shares
<1>8. CASE ~alias
  <2>1. <<i, u>> \in Lease
    BY <1>0, <1>4 DEF Lease
  <2>2. Counted(<<i, u>>)
    BY <2>1 DEF GraphInv, CountInv
  <2>3. refs[<<i, u>>] \in Nat
    BY <2>2, CountsAreNumbers DEF Counted
  <2>4. ~(refs[<<i, u>>] > 0)
    <3>1. PICK m \in Mark : m = made[i]
      BY <1>3
    <3>2. m \in Int /\ u \in Int /\ m < u
      BY <1>4, <3>1, MarksOK
    <3>3. ~(u <= m)
      BY ONLY <3>2
    <3> QED
      BY <1>0, <1>2, <1>4, <3>1, <3>3 DEF Fresh
  <2>5. refs[<<i, u>>] = 0
    BY <2>3, <2>4
  <2> QED
    BY <1>4, <1>6, <1>8, <2>5 DEF LeaseStep, Makes
<1> QED
  BY <1>7, <1>8

\* A stage: it makes the first handle of an output when it emits it.
LEMMA StageLeases ==
  ASSUME GraphInv, NEW i \in Stage, StageStep(i) PROVE LeaseStep
<1>0. TypeInv /\ InHand /\ Worker(i) \in Thread
  BY Threads DEF GraphInv, TypeInv
<1>1. CASE StageEmit(i)
  BY <1>1, EmitMakes
<1>2. CASE StagePutRefused(i)
  <2>1. out[i].lease \in Lease
    BY <1>0, <1>2, Envelopes DEF StagePutRefused, InHand
  <2> QED
    BY <1>2, <2>1 DEF StagePutRefused, LeaseStep, Gives
<1>3. CASE StageRelease(i)
  <2>1. cur[Worker(i)].lease \in Lease
    BY <1>0, <1>3, Envelopes DEF StageRelease, InHand
  <2> QED
    BY <1>3, <2>1 DEF StageRelease, LeaseStep, Gives
<1>4. CASE Finally(Worker(i))
  BY <1>0, <1>4, FinallyLeases
<1>5. CASE ~StageEmit(i) /\ ~StagePutRefused(i) /\ ~StageRelease(i) /\ ~Finally(Worker(i))
  <2>1. UNCHANGED <<refs, free>>
    BY <1>5 DEF StageStep, StageTop, StageTurn, StageGetEos, StageGetUnit, StageGetClosed,
       StageReset, StageProcess, StagePut, AfterPublish, StageSlotCancelled, StageSettle, StagePolls,
       StagePutEos, StageFails, CloseNext, Move, others, vars
  <2> QED
    BY <2>1 DEF LeaseStep, LeasesRestFully
<1> QED
  BY <1>1, <1>2, <1>3, <1>4, <1>5

\* The calling thread.
LEMMA MainLeases ==
  ASSUME TypeInv, MainStep \/ MainFails \/ Close PROVE LeaseStep
<1>0. ChannelsOK /\ terminal \in Seq(Lease)
  BY DEF TypeInv, TypeOK, LeasesOK
<1>1. CASE HostPull
  <2>1. CASE HostHoldsLimit
    <3>1. Len(terminal) >= 1
      BY <2>1 DEF HostHoldsLimit
    <3>2. Head(terminal) \in Lease
      BY <1>0, <3>1
    <3> QED
      BY <1>1, <2>1, <3>2 DEF HostPull, LeaseStep, Gives
  <2>2. CASE ~HostHoldsLimit
    BY <1>1, <2>2 DEF HostPull, LeaseStep, LeasesRestFully
  <2> QED
    BY <2>1, <2>2
<1>2. ASSUME NEW c \in Chan, Drain(c) PROVE LeaseStep
  <2>1. chan[c] \in Seq(Message) /\ chan[c] # <<>>
    BY <1>0, <1>2 DEF ChannelsOK, Drain, HasItem
  <2>2. Head(chan[c]) \in Message
    BY <2>1
  <2>3. CASE Head(chan[c]) = EOS
    BY <1>2, <2>3 DEF Drain, LeaseStep, LeasesRestFully
  <2>4. CASE Head(chan[c]) # EOS
    BY <1>2, <2>2, <2>4, Envelopes DEF Drain, Message, LeaseStep, Gives
  <2> QED
    BY <2>3, <2>4
<1>3. CASE DropTerminal
  <2>1. Head(terminal) \in Lease
    BY <1>0, <1>3 DEF DropTerminal
  <2> QED
    BY <1>3, <2>1 DEF DropTerminal, LeaseStep, Gives
<1>4. CASE HostUnitFails
  <2>1. N \in Chan /\ chan[N] \in Seq(Message) /\ chan[N] # <<>> /\ Head(chan[N]) # EOS
    BY <1>0, <1>4, ChannelPlaces DEF ChannelsOK, HostUnitFails, HasItem
  <2>2. Head(chan[N]) \in Message
    BY <2>1
  <2> QED
    BY <1>4, <2>1, <2>2, Envelopes DEF HostUnitFails, Message, LeaseStep, Gives
<1>5. CASE ~HostPull /\ ~(\E c \in Chan : Drain(c)) /\ ~DropTerminal /\ ~HostUnitFails
  BY <1>5 DEF MainStep, MainFails, Start, HostGetUnit, HostRaises, HostInterrupted,
     HostGetEos, HostGetClosed, WaitReturns, CloseNext, Join, CloseAll,
     StartFails, Close, Move, others, LeaseStep, LeasesRestFully
<1> QED
  BY <1>1, <1>2, <1>3, <1>4, <1>5

\* Every step is one of them.
LEMMA NextLeases == GraphInv /\ [Next]_vars => LeaseStep
<1>1. CASE Finished \/ UNCHANGED vars
  BY <1>1 DEF Finished, vars, others, LeaseStep, LeasesRestFully
<1> QED
  BY <1>1, EndLeases, StageLeases, MainLeases DEF Next, GraphInv

\* All slots are free.
LEMMA InitSlots == Init => SlotInv
<1> SUFFICES ASSUME Init, NEW i \in Stage
             PROVE  IF Slots[i] > 0 THEN free[i] + Cardinality(Taken(i)) = Slots[i]
                                    ELSE free[i] = 0
  BY DEF SlotInv
<1>1. Taken(i) = {}
  <2>1. \A u \in Unit : refs[<<i, u>>] = 0
    BY GraphConstants DEF Init, Lease, Stage
  <2> QED
    BY <2>1 DEF Taken
<1>2. Cardinality(Taken(i)) = 0
  BY <1>1, FS_EmptySet
<1>3. free[i] = Slots[i] /\ Slots[i] \in Nat
  BY GraphConstants DEF Init
<1> QED
  BY <1>2, <1>3

\* Every step keeps the slots.
LEMMA NextSlots == GraphInv /\ CountInv' /\ SlotInv /\ [Next]_vars => SlotInv'
<1> SUFFICES ASSUME GraphInv, CountInv', SlotInv, LeaseStep PROVE SlotInv'
  BY NextLeases
<1>0. LeasesOK
  BY DEF GraphInv, TypeInv, TypeOK
<1>1. CASE LeasesRestFully
  BY <1>1 DEF LeasesRestFully, SlotInv, Taken
<1>2. ASSUME NEW l \in Lease, Release(l) PROVE SlotInv'
  <2>1. Counted(l)'
    BY DEF CountInv
  <2>2. refs'[l] \in Nat
    <3>1. /\ Cardinality(Queued(l)') \in Nat /\ Cardinality(Hands(l)') \in Nat
          /\ Cardinality(Outs(l)') \in Nat /\ Cardinality(Kept(l)') \in Nat
      BY <2>1, FS_CardinalityType DEF Counted
    <3> QED
      BY <2>1, <3>1 DEF Counted
  <2>3. refs'[l] = refs[l] - 1 /\ refs[l] \in Int
    BY <1>0, <1>2 DEF LeasesOK, Release
  <2>4. refs[l] > 0
    BY <2>2, <2>3
  <2> QED
    BY <1>0, <1>2, <2>4, ReleaseKeepsSlots
<1>3. CASE Shares
  BY <1>0, <1>3, HandleKeepsSlots DEF Shares
<1>4. CASE Makes
  BY <1>0, <1>4, OutputTakesSlot DEF Makes
<1> QED
  BY <1>1, <1>2, <1>3, <1>4 DEF LeaseStep, Gives

\* The slots are right in every run.
LEMMA SlotsCorrect == Spec => []SlotInv
<1>1. GraphInv /\ GraphInv' /\ SlotInv /\ [Next]_vars => SlotInv'
  BY NextSlots DEF GraphInv
<1> QED
  BY <1>1, InitSlots, GraphCorrect, PTL DEF Spec

\* The two counts together.
LEMMA InvariantsCount == GraphInv /\ SlotInv => LeasesAccounted
<1> SUFFICES ASSUME GraphInv, SlotInv PROVE LeasesAccounted
  OBVIOUS
<1>1. \A l \in Lease : refs[l] = Cardinality(Holders(l))
  BY HoldersCounted DEF GraphInv, CountInv
<1>2. \A i \in Stage : Slots[i] > 0 =>
        free[i] + Cardinality({u \in Unit : refs[<<i, u>>] > 0}) = Slots[i]
  BY DEF SlotInv, Taken
<1> QED
  BY <1>1, <1>2 DEF LeasesAccounted

\* A lease is counted as often as it is held, and a slot is taken exactly while an
\* output of its operation lives (streaming.py, PayloadLease and the slot semaphores).
THEOREM LeasesAreAccounted == Spec => []LeasesAccounted
BY GraphCorrect, SlotsCorrect, InvariantsCount, PTL

\* In "closed" nothing is left in a channel or with the consumer.
EmptyAtEnd == pc[Main] = "closed" => terminal = <<>> /\ \A c \in Chan : chan[c] = <<>>

\* Every step keeps it: the drain ends when nothing is left.
LEMMA NextEmptyAtEnd == TypeInv /\ QuietInv /\ EmptyAtEnd /\ [Next]_vars => EmptyAtEnd'
<1> SUFFICES ASSUME TypeInv, QuietInv, EmptyAtEnd, [Next]_vars PROVE EmptyAtEnd'
  OBVIOUS
<1>0. ThreadsOK /\ Main \in Thread /\ (pc[Main] = "closed" => ~Running)
  BY Threads DEF TypeInv, TypeOK, Running
<1>1. CASE SourceStep \/ (\E i \in Stage : StageStep(i) \/ CourierStep(i)) \/ SinkStep
  <2>1. Running /\ pc'[Main] = pc[Main]
    BY <1>0, <1>1, Threads, StepsAreLive, SourceMoves, StageMoves, CourierMoves, SinkMoves
       DEF TerminalRests, QuietInv
  <2> QED
    BY <1>0, <2>1 DEF EmptyAtEnd
<1>2. CASE MainStep \/ MainFails \/ Close
  <2>1. CASE CloseAll
    BY <2>1 DEF CloseAll, Move, others, HasItem, EmptyAtEnd
  <2>2. CASE ~CloseAll
    <3>1. pc'[Main] # "closed"
      BY <1>0, <1>2, <2>2 DEF MainStep, MainFails, Start, HostPull, HostGetUnit,
         HostUnitFails, HostRaises, HostInterrupted, HostGetEos, HostGetClosed, WaitReturns,
         CloseNext, Join, Drain, DropTerminal, StartFails, Close, Move, Goto, Fail, Cancel,
         ThreadsOK
    <3> QED
      BY <3>1 DEF EmptyAtEnd
  <2> QED
    BY <2>1, <2>2
<1>3. CASE Finished \/ UNCHANGED vars
  BY <1>3 DEF Finished, vars, others, EmptyAtEnd
<1> QED
  BY <1>1, <1>2, <1>3 DEF Next

\* Where no thread runs and nothing is left, no lease is held.
LEMMA NothingIsHeld == GraphInv /\ SlotInv /\ EmptyAtEnd => QuietWhenClosed
<1> SUFFICES ASSUME GraphInv, SlotInv, EmptyAtEnd, pc[Main] = "closed"
             PROVE  /\ \A t \in Thread \ {Main} : pc[t] \in {"new", "done"}
                    /\ \A l \in Lease : refs[l] = 0
                    /\ free = Slots
  BY DEF QuietWhenClosed
<1>1. \A t \in Thread \ {Main} : pc[t] \in {"new", "done"}
  BY DEF GraphInv, QuietInv, Running
<1>2. \A t \in Thread : cur[t] = None
  BY <1>1 DEF GraphInv, CountInv, Empty
<1>3. \A i \in Stage : out[i] = None
  <2>1. \A i \in Stage : pc[Worker(i)] # "put"
    BY <1>1, Threads
  <2> QED
    BY <2>1 DEF GraphInv, CountInv, Empty
<1>4. ASSUME NEW l \in Lease PROVE refs[l] = 0
  <2>1. Queued(l) = {} /\ Hands(l) = {} /\ Outs(l) = {} /\ Kept(l) = {}
    BY <1>2, <1>3 DEF EmptyAtEnd, Queued, Hands, Outs, Kept, On
  <2>2. Counted(l)
    BY DEF GraphInv, CountInv
  <2> QED
    BY <2>1, <2>2, FS_EmptySet DEF Counted
<1>5. free = Slots
  <2>1. ASSUME NEW i \in Stage PROVE free[i] = Slots[i]
    <3>1. \A u \in Unit : refs[<<i, u>>] = 0
      <4>1. i \in 0..N
        BY <2>1, GraphConstants DEF Stage
      <4>2. \A u \in Unit : <<i, u>> \in Lease
        BY <4>1 DEF Lease
      <4> QED
        BY <4>2, <1>4
    <3>2. Taken(i) = {}
      BY <3>1 DEF Taken
    <3>3. Cardinality(Taken(i)) = 0
      BY <3>2, FS_EmptySet
    <3>4. free[i] \in Int /\ Slots[i] \in Nat
      BY GraphConstants DEF GraphInv, TypeInv, TypeOK, LeasesOK
    <3> QED
      BY <3>3, <3>4 DEF SlotInv
  <2>2. free \in [Stage -> Int] /\ Slots \in [Stage -> Nat]
    BY GraphConstants DEF GraphInv, TypeInv, TypeOK, LeasesOK
  <2> QED
    BY <2>1, <2>2
<1> QED
  BY <1>1, <1>4, <1>5

\* When processors are closed no thread runs, every lease is released and every slot
\* is back (streaming.py, _finish_graph before _close_all).
THEOREM ClosedIsQuiet == Spec => []QuietWhenClosed
<1>1. Init => EmptyAtEnd
  BY Threads DEF Init, EmptyAtEnd
<1>2. GraphInv /\ EmptyAtEnd /\ [Next]_vars => EmptyAtEnd'
  BY NextEmptyAtEnd DEF GraphInv
<1> QED
  BY <1>1, <1>2, GraphCorrect, SlotsCorrect, NothingIsHeld, PTL DEF Spec

\* A processor sees and emits a unit only in the state it was reset to for that
\* unit's shot (streaming.py, _stage_actor; protocol.py).
THEOREM ShotsStayApart == Spec => []ShotsDoNotMix
BY GraphCorrect, OrderKeepsShots, PTL

-----------------------------------------------------------------------------
(* Why a complete stream is complete *)

\* Actor j puts into edge j: the source, or a stage with its publisher.
Actor(j) == IF j = 0 THEN Source ELSE Worker(j)

\* The end of the stream is not past actor j.
NoEosFrom(j) ==
  /\ \A c \in Edge : j <= c => ~EosIn(c)
  /\ \A i \in Stage : j <= i => ~EosIn(PendingOf(i)) /\ cur[Courier(i)] # EOS
  /\ \A i \in Stage : j < i => ~Ending(i)

\* Actor j gave up: the end of the stream will never be past it.
CutAt(j) == Spent(Actor(j)) /\ NoEosFrom(j)

\* The actors and the channels, in the order of the stream.
LEMMA Actors ==
  /\ \A j \in 0..N : Actor(j) \in Thread /\ Actor(j) # Main /\ Actor(j) # Sink
  /\ \A j \in 0..N : \A i \in Stage : Actor(j) # Courier(i) /\ (Actor(j) = Worker(i) => i = j)
  /\ \A j \in 0..N : j # 0 => j \in Stage
BY Threads, GraphConstants DEF Actor, Stage

\* While an actor may still fail the end of the stream is not past it.
LEMMA EosIsBehind ==
  ASSUME OutcomeInv, NEW j \in 0..N, ~Spent(Actor(j)) PROVE NoEosFrom(j)
<1>1. \A c : UpstreamSpent(c) => ~(j <= c)
  BY GraphConstants DEF UpstreamSpent, Actor, Stage
<1>2. \A i \in Stage : j < i => j <= i - 1
  BY GraphConstants DEF Stage
<1> QED
  BY <1>1, <1>2 DEF NoEosFrom, OutcomeInv, EosQueued, EosHeld, Ending

\* A step in which nothing of this moves.
LEMMA CutRests ==
  ASSUME NEW j \in 0..N, NoEosFrom(j),
         \A c \in Chan : EosIn(c)' => EosIn(c),
         \A i \in Stage : cur'[Courier(i)] = cur[Courier(i)] /\ (Ending(i)' => Ending(i))
  PROVE  NoEosFrom(j)'
BY ChannelPlaces DEF NoEosFrom

\* A step of the source.
LEMMA SourceCut ==
  ASSUME TypeInv, OutcomeInv, SourceStep, NEW j \in 0..N, CutAt(j) PROVE CutAt(j)'
<1>0. /\ ThreadsOK /\ ChannelsOK /\ Source \in Thread /\ Source # Main /\ 0 \in Chan
  BY Threads, ChannelPlaces DEF TypeInv, TypeOK
<1>1. Spent(Source) => Spent(Source)' /\ chan' = chan
  BY <1>0 DEF SourceStep, SourceNext, SourceExhausted, SourcePut, SourceRefused, SourceFails,
     CloseNext, Finally, Move, others, Goto, Fail, ThreadsOK, Spent
<1>2. \A i \in Stage : StageRests(i) /\ CourierRests(i)
  BY SourceMoves
<1>3. \A i \in Stage : (Ending(i)' => Ending(i)) /\ (Spent(Worker(i)) => Spent(Worker(i))')
  BY <1>2 DEF StageRests, Ending, Spent
<1>4. Spent(Actor(j))'
  BY <1>1, <1>3, GraphConstants DEF CutAt, Actor, Spent, Stage
<1>5. \A c \in Chan : j <= c => (EosIn(c)' => EosIn(c))
  <2>1. \A c \in Chan : c # 0 => (EosIn(c)' => EosIn(c))
    BY SourceMoves DEF EosIn
  <2>2. j <= 0 => chan' = chan
    BY <1>1, GraphConstants DEF CutAt, Actor, Spent
  <2> QED
    BY <2>1, <2>2 DEF EosIn
<1>6. NoEosFrom(j)'
  <2>1. \A i \in Stage : PendingOf(i) # 0 /\ (j <= i => j <= PendingOf(i))
    BY GraphConstants DEF Stage, PendingOf
  <2> QED
    BY <1>2, <1>3, <1>5, <2>1, ChannelPlaces DEF CutAt, NoEosFrom, CourierRests
<1> QED
  BY <1>4, <1>6 DEF CutAt

\* What a step of a stage does to the end of the stream.
LEMMA StageEnds ==
  ASSUME TypeInv, NEW i \in Stage, StageStep(i)
  PROVE  /\ Spent(Worker(i)) => Spent(Worker(i))'
         /\ EosIn(PendingOf(i))' => EosIn(PendingOf(i)) \/ pc[Worker(i)] = "eos"
         /\ Ending(i)' => Ending(i) \/ EosIn(i - 1)
<1>0. /\ ThreadsOK /\ ChannelsOK /\ StagesOK /\ InHand /\ Worker(i) \in Thread /\ Worker(i) # Main
      /\ i - 1 \in Chan /\ PendingOf(i) \in Chan /\ PendingOf(i) # i - 1
  BY Threads, ChannelPlaces DEF TypeInv, TypeOK
<1>1. Spent(Worker(i)) => Spent(Worker(i))'
  BY <1>0 DEF StageStep, StageTop, StageGetEos, StageGetUnit, StageGetClosed, StageReset,
     StageProcess, StageEmit, StageTurn, StagePut, StagePutRefused, AfterPublish,
     StageSlotCancelled, StageSettle, StagePolls, StageRelease, StagePutEos, StageFails,
     StartFlush, CloseNext, Finally, Move, others, vars, Goto, Fail, ThreadsOK, Spent
<1>2. EosIn(PendingOf(i))' => EosIn(PendingOf(i)) \/ pc[Worker(i)] = "eos"
  <2>1. CASE StagePut(i)
    <3>1. out[i] # EOS
      BY <1>0, <2>1, GraphConstants DEF StagePut, InHand
    <3> QED
      BY <1>0, <2>1, <3>1, EosEnqueue DEF StagePut
  <2>2. CASE StagePutEos(i)
    BY <2>2 DEF StagePutEos
  <2>3. CASE ~StagePut(i) /\ ~StagePutEos(i)
    <3>1. chan'[PendingOf(i)] = chan[PendingOf(i)]
      BY <1>0, <2>3 DEF StageStep, StageTop, StageGetEos, StageGetUnit, StageGetClosed,
         StageReset, StageProcess, StageEmit, StageTurn, StagePutRefused, AfterPublish,
         StageSlotCancelled, StageSettle, StagePolls, StageRelease, StageFails, CloseNext,
         Finally, Move, others, vars, Dequeue, ChannelsOK
    <3> QED
      BY <3>1 DEF EosIn
  <2> QED
    BY <2>1, <2>2, <2>3
<1>3. Ending(i)' => Ending(i) \/ EosIn(i - 1)
  <2>1. CASE StageGetEos(i)
    BY <1>0, <2>1, EosHead DEF StageGetEos
  <2>2. CASE StageGetUnit(i)
    <3>1. CASE NeedsFlush(i, Head(chan[i - 1]).bnds)
      BY <1>0, <2>2, <3>1 DEF StageGetUnit, StartFlush, Goto, ThreadsOK, StagesOK, Ending
    <3>2. CASE ~NeedsFlush(i, Head(chan[i - 1]).bnds)
      BY <1>0, <2>2, <3>2 DEF StageGetUnit, Goto, ThreadsOK, Ending
    <3> QED
      BY <3>1, <3>2
  <2>3. CASE StageProcess(i) \/ AfterPublish(i) \/ StageTurn(i) \/ StageEmit(i) \/ StagePut(i)
    BY <1>0, <2>3 DEF StageProcess, AfterPublish, StageTurn, StageEmit, StagePut, Move, others,
       stageState, Goto, ThreadsOK, StagesOK, Ending
  <2>4. CASE /\ ~StageGetEos(i) /\ ~StageGetUnit(i) /\ ~StageProcess(i) /\ ~AfterPublish(i)
             /\ ~StageTurn(i) /\ ~StageEmit(i) /\ ~StagePut(i)
    BY <1>0, <2>4 DEF StageStep, StageTop, StageGetClosed, StageReset, StagePutRefused,
       StageSlotCancelled, StageSettle, StagePolls, StageRelease, StagePutEos, StageFails,
       CloseNext, Finally, Move, others, vars, stageState, Goto, Fail, ThreadsOK, Ending
  <2> QED
    BY <2>1, <2>2, <2>3, <2>4
<1> QED
  BY <1>1, <1>2, <1>3

\* A step of a stage.
LEMMA StageCut ==
  ASSUME TypeInv, OutcomeInv, NEW k \in Stage, StageStep(k), NEW j \in 0..N, CutAt(j)
  PROVE  CutAt(j)'
<1>0. /\ SourceRests /\ \A i \in Stage : i # k => StageRests(i)
      /\ \A i \in Stage : CourierRests(i)
      /\ \A c \in Chan \ {k - 1, PendingOf(k)} : chan'[c] = chan[c]
  BY StageMoves
<1>1. Spent(Actor(j))'
  <2>1. Spent(Source) => Spent(Source)'
    BY <1>0 DEF SourceRests, Spent
  <2>2. \A i \in Stage : Spent(Worker(i)) => Spent(Worker(i))'
    BY <1>0, StageEnds DEF StageRests, Spent
  <2> QED
    BY <2>1, <2>2, Actors DEF CutAt, Actor, Spent
<1>2. ASSUME NEW c \in Edge, j <= c, EosIn(c)' PROVE FALSE
  <2>1. CASE c \in Stage
    BY <1>2, <2>1, StageEdges DEF CutAt, NoEosFrom
  <2>2. CASE c \notin Stage
    <3>1. c = 0
      BY <2>2, GraphConstants DEF Edge, Stage
    <3>2. chan'[c] = chan[c] \/ (HasItem(c) /\ Dequeue(c))
      <4>1. 0 # PendingOf(k) /\ 0 \in Chan /\ k - 1 \in Chan /\ ChannelsOK
        BY ChannelPlaces DEF TypeInv, TypeOK
      <4>2. CASE k - 1 # 0
        BY <1>0, <3>1, <4>1, <4>2
      <4>3. CASE k - 1 = 0
        <5>1. (HasItem(k - 1) /\ Dequeue(k - 1)) \/ chan'[k - 1] = chan[k - 1]
          BY <4>1, ChannelPlaces DEF StageStep, StageTop, StageGetEos, StageGetUnit,
             StageGetClosed, StageReset, StageProcess, StageEmit, StageTurn, StagePut,
             StagePutRefused, AfterPublish, StageSlotCancelled, StageSettle, StagePolls,
             StageRelease, StagePutEos, StageFails, CloseNext, Finally, Move, others, vars,
             Enqueue, ChannelsOK
        <5> QED
          BY <3>1, <4>3, <5>1
      <4> QED
        BY <4>2, <4>3
    <3>3. EosIn(c)
      BY <1>2, <3>1, <3>2, EosDequeue, ChannelPlaces DEF TypeInv, TypeOK, EosIn
    <3> QED
      BY <1>2, <3>3 DEF CutAt, NoEosFrom
  <2> QED
    BY <2>1, <2>2
<1>3. ASSUME NEW i \in Stage, j <= i, EosIn(PendingOf(i))' PROVE FALSE
  <2>1. CASE i # k
    <3>1. PendingOf(i) \in Chan \ {k - 1, PendingOf(k)}
      BY <2>1, ChannelPlaces
    <3> QED
      BY <1>0, <1>3, <3>1 DEF EosIn, CutAt, NoEosFrom
  <2>2. CASE i = k
    <3>1. pc[Worker(k)] = "eos"
      BY <1>3, <2>2, StageEnds DEF CutAt, NoEosFrom
    <3>2. ~Spent(Worker(k)) /\ Ending(k)
      BY <3>1 DEF Spent, Ending
    <3>3. j = k \/ j < k
      BY <1>3, <2>2, GraphConstants DEF Stage
    <3> QED
      BY <3>2, <3>3, GraphConstants DEF CutAt, NoEosFrom, Actor, Stage
  <2> QED
    BY <2>1, <2>2
<1>4. ASSUME NEW i \in Stage, j <= i PROVE cur'[Courier(i)] # EOS
  BY <1>0, <1>4 DEF CourierRests, CutAt, NoEosFrom
<1>5. ASSUME NEW i \in Stage, j < i, Ending(i)' PROVE FALSE
  <2>1. CASE i # k
    BY <1>0, <1>5, <2>1 DEF StageRests, Ending, CutAt, NoEosFrom
  <2>2. CASE i = k
    <3>1. EosIn(k - 1)
      BY <1>5, <2>2, StageEnds DEF CutAt, NoEosFrom
    <3>2. k - 1 \in Edge /\ j <= k - 1
      BY <1>5, <2>2, GraphConstants DEF Edge, Stage
    <3> QED
      BY <3>1, <3>2 DEF CutAt, NoEosFrom
  <2> QED
    BY <2>1, <2>2
<1>6. NoEosFrom(j)'
  BY <1>2, <1>3, <1>4, <1>5 DEF NoEosFrom
<1> QED
  BY <1>1, <1>6 DEF CutAt

\* A step of a publisher.
LEMMA CourierCut ==
  ASSUME TypeInv, OutcomeInv, NEW k \in Stage, CourierStep(k), NEW j \in 0..N, CutAt(j)
  PROVE  CutAt(j)'
<1>0. /\ SourceRests /\ \A i \in Stage : StageRests(i)
      /\ \A i \in Stage : i # k => CourierRests(i)
      /\ \A c \in Chan \ {k, PendingOf(k)} : chan'[c] = chan[c]
  BY CourierMoves
<1>1. Spent(Actor(j))'
  <2>1. Spent(Source) => Spent(Source)'
    BY <1>0 DEF SourceRests, Spent
  <2>2. \A i \in Stage : Spent(Worker(i)) => Spent(Worker(i))'
    BY <1>0 DEF StageRests, Spent
  <2> QED
    BY <2>1, <2>2, Actors DEF CutAt, Actor, Spent
<1>2. \A i \in Stage : Ending(i)' => Ending(i)
  BY <1>0 DEF StageRests, Ending
<1>3. /\ ChannelsOK /\ ThreadsOK /\ k \in Chan /\ k \in Edge /\ PendingOf(k) \in Chan
      /\ PendingOf(k) # k /\ Courier(k) \in Thread
  BY Threads, ChannelPlaces DEF TypeInv, TypeOK
<1>4. j <= k => cur[Courier(k)] # EOS /\ ~EosIn(PendingOf(k)) /\ ~EosIn(k)
  BY <1>3 DEF CutAt, NoEosFrom
<1>5. /\ j <= k => ~EosIn(k)' /\ cur'[Courier(k)] # EOS
      /\ EosIn(PendingOf(k))' => EosIn(PendingOf(k))
  <2>1. CASE CourierGet(k)
    <3>1. EosIn(PendingOf(k))' => EosIn(PendingOf(k))
      BY <1>3, <2>1, EosDequeue DEF CourierGet
    <3>2. chan'[k] = chan[k]
      BY <1>3, <2>1 DEF CourierGet, Dequeue, ChannelsOK
    <3>3. cur'[Courier(k)] = EOS => EosIn(PendingOf(k))
      BY <1>3, <2>1, EosHead DEF CourierGet, ThreadsOK
    <3> QED
      BY <1>4, <3>1, <3>2, <3>3 DEF EosIn
  <2>2. CASE CourierPut(k)
    <3>1. chan'[PendingOf(k)] = chan[PendingOf(k)]
      BY <1>3, <2>2 DEF CourierPut, Enqueue, ChannelsOK
    <3>2. EosIn(k)' => EosIn(k) \/ cur[Courier(k)] = EOS
      BY <1>3, <2>2, EosEnqueue DEF CourierPut
    <3>3. cur'[Courier(k)] # EOS
      BY <1>3, <2>2, GraphConstants DEF CourierPut, ThreadsOK
    <3> QED
      BY <1>4, <3>1, <3>2, <3>3 DEF EosIn
  <2>3. CASE CourierTop(k) \/ CourierClosed(k) \/ Finally(Courier(k))
    <3>1. chan' = chan /\ (cur'[Courier(k)] = cur[Courier(k)] \/ cur'[Courier(k)] = None)
      BY <1>3, <2>3 DEF CourierTop, CourierClosed, Finally, Move, others, ThreadsOK
    <3> QED
      BY <1>4, <3>1, GraphConstants DEF EosIn
  <2> QED
    BY <2>1, <2>2, <2>3 DEF CourierStep
<1>6. \A c \in Edge : c # k => (EosIn(c)' => EosIn(c))
  BY <1>0, ChannelPlaces DEF EosIn
<1>7. \A i \in Stage : i # k => (EosIn(PendingOf(i))' => EosIn(PendingOf(i)))
                                /\ cur'[Courier(i)] = cur[Courier(i)]
  <2>1. \A i \in Stage : i # k => PendingOf(i) \in Chan \ {k, PendingOf(k)}
    BY ChannelPlaces
  <2> QED
    BY <1>0, <2>1 DEF EosIn, CourierRests
<1>8. NoEosFrom(j)'
  BY <1>2, <1>5, <1>6, <1>7 DEF CutAt, NoEosFrom
<1> QED
  BY <1>1, <1>8 DEF CutAt

\* A step of the sink or of the calling thread: they only take messages.
LEMMA TakersCut ==
  ASSUME TypeInv, OutcomeInv, SinkStep \/ MainStep \/ MainFails \/ Close, NEW j \in 0..N, CutAt(j)
  PROVE  CutAt(j)'
<1>0. /\ ThreadsOK /\ ChannelsOK /\ Phases /\ Actor(j) \in Thread /\ Actor(j) # Main
      /\ Actor(j) # Sink /\ Main \in Thread /\ Sink \in Thread
  BY Threads, Actors DEF TypeInv, TypeOK, OutcomeInv
<1>1. ~Start
  BY <1>0 DEF Start, Phases, CutAt, Spent
<1>2. \A t \in Thread : t # Main /\ t # Sink => pc'[t] = pc[t] /\ cur'[t] = cur[t]
  <2>1. CASE SinkStep
    BY <1>0, <2>1 DEF SinkStep, SinkTop, SinkGetUnit, SinkGetEos, SinkFinishFails,
       SinkGetClosed, SinkConsume, SinkStop, SinkFails, SinkFinally, CloseNext, Move,
       others, Goto, Fail, Cancel, ThreadsOK
  <2>2. CASE MainStep \/ MainFails \/ Close
    BY <1>0, <1>1, <2>2 DEF MainStep, MainFails, HostPull, HostGetUnit, HostUnitFails,
       HostRaises, HostInterrupted, HostGetEos, HostGetClosed, WaitReturns, CloseNext, Join,
       Drain, DropTerminal, CloseAll, StartFails, Close, Move, others, Goto, Fail, Cancel,
       ThreadsOK
  <2> QED
    BY <2>1, <2>2
<1>3. kind' = kind
  BY <1>1 DEF SinkStep, SinkTop, SinkGetUnit, SinkGetEos, SinkFinishFails, SinkGetClosed,
     SinkConsume, SinkStop, SinkFails, SinkFinally, MainStep, MainFails, HostPull,
     HostGetUnit, HostUnitFails, HostRaises, HostInterrupted, HostGetEos, HostGetClosed,
     WaitReturns, CloseNext, Join, Drain, DropTerminal, CloseAll, StartFails, Close, Move,
     others, stageState
<1>4. chan' = chan \/ \E c \in Chan : HasItem(c) /\ Dequeue(c)
  BY ChannelPlaces DEF SinkStep, SinkTop, SinkGetUnit, SinkGetEos, SinkFinishFails,
     SinkGetClosed, SinkConsume, SinkStop, SinkFails, SinkFinally, MainStep, MainFails,
     Start, HostPull, HostGetUnit, HostUnitFails, HostRaises, HostInterrupted, HostGetEos,
     HostGetClosed, WaitReturns, CloseNext, Join, Drain, DropTerminal, CloseAll, StartFails,
     Close, Move, others
<1>5. \A c \in Chan : EosIn(c)' => EosIn(c)
  BY <1>0, <1>4, EosDequeue DEF EosIn
<1>6. \A i \in Stage : cur'[Courier(i)] = cur[Courier(i)] /\ (Ending(i)' => Ending(i))
  BY <1>2, <1>3, Threads DEF Ending
<1> QED
  BY <1>0, <1>2, <1>5, <1>6, CutRests DEF CutAt, Spent

\* Why a run is cancelled: it was closed, the sink is through, or an actor gave up.
BlameInv ==
  cancelled =>
    \/ outcome = "cancelled"
    \/ pc[Sink] \in {"new", "closing", "finally", "done"}
    \/ \E j \in 0..N : CutAt(j)

\* What the calling thread does while the sink is at work, and after close().
TurnsInv ==
  /\ outcome = "cancelled" => pc[Main] \in {"closing", "join", "drain", "closed"}
  /\ pc[Sink] \notin {"new", "done"} => pc[Main] \notin {"new", "idle", "get"}
  /\ finished = "eos" => Spent(Sink) /\ pc[Main] \notin {"new", "idle", "get"}

\* A sink that finished at the end of the stream had seen every unit.
FinishInv == finished = "eos" => outcome = "cancelled" \/ Over(LastSeen, N)

\* The units that no processor swallows, and those that the consumer has seen.
Keeps == Unit \ UNION {Drops[i] : i \in Stage}
Prefix == {delivered[k].unit : k \in DOMAIN delivered} = {u \in Keeps : u <= LastSeen}

EndInv == BlameInv /\ TurnsInv /\ FinishInv /\ Prefix

\* The calling thread alone decides the outcome.
LEMMA OutcomeIsMains ==
  ASSUME [Next]_vars, ~(MainStep \/ MainFails \/ Close) PROVE outcome' = outcome
<1>1. SinkStep => outcome' = outcome
  BY DEF SinkStep, SinkTop, SinkGetUnit, SinkGetEos, SinkFinishFails, SinkGetClosed,
     SinkConsume, SinkStop, SinkFails, SinkFinally, CloseNext, Move, others, result
<1>2. Finished \/ UNCHANGED vars => outcome' = outcome
  BY DEF Finished, vars, others, result
<1> QED
  BY <1>1, <1>2, ResultRests DEF Next

\* The source, the stages and the publishers.
LEMMA ActorsKeepBlame ==
  ASSUME TypeInv, OutcomeInv, BlameInv,
         SourceStep \/ \E i \in Stage : StageStep(i) \/ CourierStep(i)
  PROVE  BlameInv'
<1> SUFFICES ASSUME cancelled'
             PROVE  \/ outcome' = "cancelled"
                    \/ pc'[Sink] \in {"new", "closing", "finally", "done"}
                    \/ \E j \in 0..N : CutAt(j)'
  BY DEF BlameInv
<1>1. pc'[Sink] = pc[Sink] /\ outcome' = outcome
  BY SourceMoves, StageMoves, CourierMoves, ResultRests DEF TerminalRests
<1>2. CASE cancelled
  BY <1>1, <1>2, SourceCut, StageCut, CourierCut DEF BlameInv
<1>3. CASE ~cancelled
  <2>1. SourceFails \/ \E i \in Stage : StageFails(i)
    <3>1. SourceStep => SourceFails \/ cancelled' = cancelled
      BY DEF SourceStep, SourceNext, SourceExhausted, SourcePut, SourceRefused, CloseNext,
         Finally, Move, others, supervision
    <3>2. \A i \in Stage : StageStep(i) => StageFails(i) \/ cancelled' = cancelled
      BY StageLeaves
    <3>3. \A i \in Stage : CourierStep(i) => cancelled' = cancelled
      BY DEF CourierStep, CourierTop, CourierGet, CourierPut, CourierClosed, Finally, Move,
         others, supervision
    <3> QED
      BY <1>3, <3>1, <3>2, <3>3
  <2>2. \E j \in 0..N : ~Spent(Actor(j)) /\ pc' = [pc EXCEPT ![Actor(j)] = "closing"]
    <3>1. CASE SourceFails
      <4>1. 0 \in 0..N /\ Actor(0) = Source
        BY GraphConstants DEF Actor
      <4> QED
        BY <1>3, <3>1, <4>1 DEF SourceFails, Fail, Goto, Spent
    <3>2. ASSUME NEW i \in Stage, StageFails(i)
          PROVE  \E j \in 0..N : ~Spent(Actor(j)) /\ pc' = [pc EXCEPT ![Actor(j)] = "closing"]
      <4>1. i \in 0..N /\ Actor(i) = Worker(i)
        BY GraphConstants DEF Actor, Stage
      <4> QED
        BY <1>3, <3>2, <4>1 DEF StageFails, Fail, Goto, Spent
    <3> QED
      BY <2>1, <3>1, <3>2
  <2>3. PICK j \in 0..N : ~Spent(Actor(j)) /\ pc' = [pc EXCEPT ![Actor(j)] = "closing"]
    BY <2>2
  <2>4. NoEosFrom(j)
    BY <2>3, EosIsBehind
  <2>5. chan' = chan /\ cur' = cur /\ kind' = kind
    BY <2>1 DEF SourceFails, StageFails, stageState
  <2>6. ThreadsOK /\ Actor(j) \in Thread
    BY Actors DEF TypeInv, TypeOK
  <2>7. \A i \in Stage : Ending(i)' => Ending(i)
    BY <2>3, <2>5, <2>6, Threads DEF Ending, ThreadsOK
  <2>8. NoEosFrom(j)'
    BY <2>4, <2>5, <2>7 DEF NoEosFrom, EosIn
  <2>9. Spent(Actor(j))'
    BY <2>3, <2>6 DEF ThreadsOK, Spent
  <2> QED
    BY <2>8, <2>9 DEF CutAt
<1> QED
  BY <1>2, <1>3

\* The sink and the calling thread.
LEMMA TakersKeepBlame ==
  ASSUME TypeInv, OutcomeInv, BlameInv, TurnsInv, SinkStep \/ MainStep \/ MainFails \/ Close
  PROVE  BlameInv'
<1> SUFFICES ASSUME cancelled'
             PROVE  \/ outcome' = "cancelled"
                    \/ pc'[Sink] \in {"new", "closing", "finally", "done"}
                    \/ \E j \in 0..N : CutAt(j)'
  BY DEF BlameInv
<1>0. /\ ThreadsOK /\ Phases /\ Main \in Thread /\ Sink \in Thread /\ Sink # Main
      /\ (outcome = "cancelled" => pc[Main] \in {"closing", "join", "drain", "closed"})
  BY Threads DEF TypeInv, TypeOK, OutcomeInv, TurnsInv
<1>1. outcome = "cancelled" => outcome' = "cancelled"
  BY <1>0 DEF SinkStep, SinkTop, SinkGetUnit, SinkGetEos, SinkFinishFails, SinkGetClosed,
     SinkConsume, SinkStop, SinkFails, SinkFinally, MainStep, MainFails, Start, HostPull,
     HostGetUnit, HostUnitFails, HostRaises, HostInterrupted, HostGetEos, HostGetClosed,
     WaitReturns, CloseNext, Join, Drain, DropTerminal, CloseAll, StartFails, Close, Move,
     others, result
<1>2. CASE SinkStep
  <2>1. pc[Sink] \in {"closing", "finally", "done"} => pc'[Sink] \in {"closing", "finally", "done"}
    BY <1>0, <1>2 DEF SinkStep, SinkTop, SinkGetUnit, SinkGetEos, SinkFinishFails,
       SinkGetClosed, SinkConsume, SinkStop, SinkFails, SinkFinally, CloseNext, Move, Goto,
       Fail, Cancel, ThreadsOK
  <2>2. cancelled \/ pc'[Sink] = "closing"
    BY <1>0, <1>2 DEF SinkStep, SinkTop, SinkGetUnit, SinkGetEos, SinkFinishFails,
       SinkGetClosed, SinkConsume, SinkStop, SinkFails, SinkFinally, CloseNext, Move,
       others, supervision, Goto, Fail, Cancel, ThreadsOK
  <2>3. pc[Sink] # "new"
    BY <1>2, StepsAreLive
  <2> QED
    BY <1>1, <1>2, <2>1, <2>2, <2>3, TakersCut DEF BlameInv
<1>3. CASE MainStep \/ MainFails \/ Close
  <2>1. CASE Start
    BY <1>0, <2>1 DEF Start, Phases, others, supervision
  <2>2. CASE ~Start
    <3>1. pc'[Sink] = pc[Sink]
      BY <1>0, <1>3, <2>2 DEF MainStep, MainFails, HostPull, HostGetUnit, HostUnitFails,
         HostRaises, HostInterrupted, HostGetEos, HostGetClosed, WaitReturns, CloseNext,
         Join, Drain, DropTerminal, CloseAll, StartFails, Close, Move, Goto, Fail, Cancel,
         ThreadsOK, others
    <3>2. cancelled \/ outcome' = "cancelled" \/ pc[Sink] \in {"new", "done"}
      BY <1>0, <1>3, <2>2 DEF MainStep, MainFails, HostPull, HostGetUnit, HostUnitFails,
         HostRaises, HostInterrupted, HostGetEos, HostGetClosed, WaitReturns, CloseNext,
         Join, Drain, DropTerminal, CloseAll, StartFails, Close, Move, others, supervision,
         Phases
    <3> QED
      BY <1>1, <1>3, <3>1, <3>2, TakersCut DEF BlameInv
  <2> QED
    BY <2>1, <2>2
<1> QED
  BY <1>2, <1>3

\* Where the calling thread can be.
LEMMA NextTurns == GraphInv /\ TurnsInv /\ [Next]_vars => TurnsInv'
<1> SUFFICES ASSUME GraphInv, TurnsInv, [Next]_vars PROVE TurnsInv'
  OBVIOUS
<1>0. /\ TypeInv /\ ThreadsOK /\ Phases /\ Main \in Thread /\ Sink \in Thread /\ Sink # Main
  BY Threads DEF GraphInv, TypeInv, TypeOK, OutcomeInv
<1>1. CASE SourceStep \/ \E i \in Stage : StageStep(i) \/ CourierStep(i)
  <2>1. pc'[Sink] = pc[Sink] /\ pc'[Main] = pc[Main]
    BY <1>0, <1>1, SourceMoves, StageMoves, CourierMoves DEF TerminalRests
  <2>2. outcome' = outcome /\ finished' = finished
    BY <1>1, ResultRests
  <2> QED
    BY <2>1, <2>2 DEF TurnsInv, Spent
<1>2. CASE SinkStep
  <2>1. pc'[Main] = pc[Main] /\ outcome' = outcome /\ pc[Sink] \notin {"new", "done"}
    BY <1>0, <1>2, SinkMoves, StepsAreLive DEF SinkStep, SinkTop, SinkGetUnit, SinkGetEos,
       SinkFinishFails, SinkGetClosed, SinkConsume, SinkStop, SinkFails, SinkFinally,
       CloseNext, Move, others, result
  <2>2. pc[Sink] \in {"closing", "finally", "done"} => pc'[Sink] \in {"closing", "finally", "done"}
    BY <1>0, <1>2 DEF SinkStep, SinkTop, SinkGetUnit, SinkGetEos, SinkFinishFails,
       SinkGetClosed, SinkConsume, SinkStop, SinkFails, SinkFinally, CloseNext, Move, Goto,
       Fail, Cancel, ThreadsOK
  <2>3. finished' = "eos" => finished = "eos" \/ pc'[Sink] = "finally"
    BY <1>0, <1>2 DEF SinkStep, SinkTop, SinkGetUnit, SinkGetEos, SinkFinishFails,
       SinkGetClosed, SinkConsume, SinkStop, SinkFails, SinkFinally, CloseNext, Move,
       others, result, Goto, ThreadsOK
  <2> QED
    BY <2>1, <2>2, <2>3 DEF TurnsInv, Spent
<1>3. CASE MainStep \/ MainFails \/ Close
  <2>1. CASE Start
    <3>1. /\ pc[Main] = "new" /\ outcome' = outcome /\ finished' = finished
          /\ pc'[Sink] \in {"top", "done"}
          /\ pc'[Main] = (IF pc'[Sink] = "top" THEN "wait" ELSE "get")
      BY <2>1, Threads DEF Start, others, result
    <3> QED
      BY <1>0, <3>1 DEF TurnsInv
  <2>2. CASE ~Start
    <3>1. pc'[Sink] = pc[Sink] /\ finished' = finished
      BY <1>0, <1>3, <2>2 DEF MainStep, MainFails, HostPull, HostGetUnit, HostUnitFails,
         HostRaises, HostInterrupted, HostGetEos, HostGetClosed, WaitReturns, CloseNext,
         Join, Drain, DropTerminal, CloseAll, StartFails, Close, Move, Goto, Fail, Cancel,
         ThreadsOK, others, result
    <3>2. pc'[Main] \in {"new", "idle", "get"} => pc[Main] \in {"new", "idle", "get"}
      BY <1>0, <1>3, <2>2 DEF MainStep, MainFails, HostPull, HostGetUnit, HostUnitFails,
         HostRaises, HostInterrupted, HostGetEos, HostGetClosed, WaitReturns, CloseNext,
         Join, Drain, DropTerminal, CloseAll, StartFails, Close, Move, Goto, Fail, Cancel,
         ThreadsOK, others
    <3>3. outcome' = "cancelled" => pc'[Main] \in {"closing", "join", "drain", "closed"}
      BY <1>0, <1>3, <2>2 DEF MainStep, MainFails, HostPull, HostGetUnit, HostUnitFails,
         HostRaises, HostInterrupted, HostGetEos, HostGetClosed, WaitReturns, CloseNext,
         Join, Drain, DropTerminal, CloseAll, StartFails, Close, Move, Goto, Fail, Cancel,
         ThreadsOK, others, result, TurnsInv
    <3> QED
      BY <3>1, <3>2, <3>3 DEF TurnsInv, Spent
  <2> QED
    BY <2>1, <2>2
<1>4. CASE Finished \/ UNCHANGED vars
  BY <1>4 DEF Finished, vars, others, result, TurnsInv, Spent
<1> QED
  BY <1>1, <1>2, <1>3, <1>4 DEF Next

\* A sink that gets the end of the stream has seen every unit, unless the host closed.
LEMMA NextFinish ==
  GraphInv /\ BlameInv /\ TurnsInv /\ FinishInv /\ [Next]_vars => FinishInv'
<1> SUFFICES ASSUME GraphInv, BlameInv, TurnsInv, FinishInv, [Next]_vars,
                    finished' = "eos", outcome' # "cancelled"
             PROVE  Over(LastSeen, N)'
  BY DEF FinishInv
<1>0. /\ TypeInv /\ ThreadsOK /\ ChannelsOK /\ N \in Chan /\ N \in Edge /\ Sink \in Thread
      /\ (~Running => pc[Sink] \in {"new", "done"})
  BY Threads, ChannelPlaces DEF GraphInv, TypeInv, TypeOK, QuietInv
<1>1. outcome = "cancelled" => outcome' = "cancelled"
  <2>1. outcome = "cancelled" => pc[Main] \in {"closing", "join", "drain", "closed"}
    BY DEF TurnsInv
  <2>2. MainStep \/ MainFails \/ Close => (outcome = "cancelled" => outcome' = "cancelled")
    BY <2>1 DEF MainStep, MainFails, Start, HostPull, HostGetUnit, HostUnitFails,
       HostRaises, HostInterrupted, HostGetEos, HostGetClosed, WaitReturns, CloseNext, Join,
       Drain, DropTerminal, CloseAll, StartFails, Close, Move, others, result
  <2> QED
    BY <2>2, OutcomeIsMains
<1>2. CASE SinkGetEos
  <2>1. EosIn(N) /\ pc[Sink] = "get"
    BY <1>0, <1>2, EosHead DEF SinkGetEos
  <2>2. ~cancelled
    <3>1. \A j \in 0..N : ~CutAt(j)
      BY <1>0, <2>1, GraphConstants DEF CutAt, NoEosFrom
    <3> QED
      BY <1>1, <2>1, <3>1 DEF BlameInv
  <2>3. Running
    BY <1>0, <2>1
  <2>4. PICK g, s : Flows(N, g, s, N) /\ g = LastSeen
    BY <1>0, <2>1, <2>3 DEF GraphInv, OrderInv, InLine, AtTerminal
  <2>5. Onward
    BY <2>2 DEF Onward
  <2>6. Over(LastSeen, N)
    BY <1>0, <1>2, <2>2, <2>4, <2>5, EosTaken DEF SinkGetEos
  <2>7. delivered' = delivered
    BY <1>2 DEF SinkGetEos
  <2> QED
    BY <2>6, <2>7 DEF Over, LastSeen
<1>3. CASE ~SinkGetEos
  <2>1. finished = "eos"
    <3>1. SourceStep \/ (\E i \in Stage : StageStep(i) \/ CourierStep(i)) => finished' = finished
      BY ResultRests
    <3>4. SinkStep => finished' = finished \/ finished' = "early"
      BY <1>3 DEF SinkStep, SinkTop, SinkGetUnit, SinkFinishFails, SinkGetClosed, SinkConsume,
         SinkStop, SinkFails, SinkFinally, CloseNext, Move, others, result
    <3>5. MainStep \/ MainFails \/ Close => finished' = finished
      BY DEF MainStep, MainFails, Start, HostPull, HostGetUnit, HostUnitFails, HostRaises,
         HostInterrupted, HostGetEos, HostGetClosed, WaitReturns, CloseNext, Join, Drain,
         DropTerminal, CloseAll, StartFails, Close, Move, others, result
    <3>6. Finished \/ UNCHANGED vars => finished' = finished
      BY DEF Finished, vars, others, result
    <3> QED
      BY <3>1, <3>4, <3>5, <3>6 DEF Next
  <2>2. Spent(Sink) /\ pc[Main] \notin {"new", "idle", "get"}
    BY <2>1 DEF TurnsInv
  <2>3. delivered' = delivered
    <3>1. SourceStep \/ (\E i \in Stage : StageStep(i) \/ CourierStep(i)) => delivered' = delivered
      BY <1>0, SourceMoves, StageMoves, CourierMoves DEF TerminalRests
    <3>2. SinkStep => delivered' = delivered
      BY <2>2 DEF SinkStep, SinkTop, SinkGetUnit, SinkGetEos, SinkFinishFails,
         SinkGetClosed, SinkConsume, SinkStop, SinkFails, SinkFinally, CloseNext, Move,
         others, result, Spent
    <3>3. MainStep \/ MainFails \/ Close => delivered' = delivered
      BY <2>2 DEF MainStep, MainFails, Start, HostPull, HostGetUnit, HostUnitFails,
         HostRaises, HostInterrupted, HostGetEos, HostGetClosed, WaitReturns, CloseNext,
         Join, Drain, DropTerminal, CloseAll, StartFails, Close, Move, others, result
    <3>4. Finished \/ UNCHANGED vars => delivered' = delivered
      BY DEF Finished, vars, others, result
    <3> QED
      BY <3>1, <3>2, <3>3, <3>4 DEF Next
  <2>4. Over(LastSeen, N)
    BY <1>1, <2>1 DEF FinishInv
  <2> QED
    BY <2>3, <2>4 DEF Over, LastSeen
<1> QED
  BY <1>2, <1>3

\* What the consumer has seen is a prefix of what the processors keep: the next one
\* is the least that remains.
LEMMA NextPrefix == GraphInv /\ GraphInv' /\ Prefix /\ [Next]_vars => Prefix'
<1> SUFFICES ASSUME GraphInv, GraphInv', Prefix, [Next]_vars PROVE Prefix'
  OBVIOUS
<1>1. CASE delivered' = delivered
  BY <1>1 DEF Prefix, LastSeen
<1>2. CASE delivered' # delivered
  <2>1. Contract!Deliver
    BY <1>2, StepsKeepContract DEF Contract!Next, Contract!End, Contract!Stop
  <2> DEFINE S == [unit : Unit, bnds : Seq(Unit)]
             n == Len(delivered)
             new == delivered'[n + 1]
  <2>2. delivered \in Seq(S) /\ delivered' \in Seq(S)
    BY DEF GraphInv, TypeInv, TypeOK, ResultOK
  <2>3. /\ Len(delivered') = n + 1 /\ SubSeq(delivered', 1, n) = delivered
        /\ new.unit \in Contract!Remaining /\ \A u \in Contract!Remaining : new.unit <= u
    BY <2>1 DEF Contract!Deliver
  <2>4. \A u : u \in Contract!Remaining <=> u \in Keeps /\ u > LastSeen
    BY DEF Contract!Remaining, Contract!Last, LastSeen, Keeps
  <2>5. n \in Nat /\ LastSeen \in Int /\ \A u \in Keeps : u \in Int
    BY <2>2, LastSeenTyped, MarksOK DEF GraphInv, Keeps
  <2>6. DOMAIN delivered = 1..n /\ DOMAIN delivered' = 1..(n + 1)
    BY <2>2, <2>3
  <2>7. \A k \in 1..n : delivered'[k] = delivered[k]
    BY <2>2, <2>3, <2>5, <2>6
  <2>8. LastSeen' = new.unit
    <3>1. delivered' # <<>>
      BY <2>2, <2>3, <2>5
    <3> QED
      BY <2>3, <3>1 DEF LastSeen
  <2>9. {delivered'[k].unit : k \in DOMAIN delivered'}
          = {delivered[k].unit : k \in DOMAIN delivered} \cup {new.unit}
    <3>1. \A k : k \in 1..(n + 1) <=> k \in 1..n \/ k = n + 1
      BY <2>5
    <3> HIDE DEF new, n
    <3>2. \A k \in 1..(n + 1) : delivered'[k].unit \in
            {delivered[m].unit : m \in DOMAIN delivered} \cup {new.unit}
      BY <2>6, <2>7, <3>1 DEF new
    <3>3. \A k \in 1..n : delivered[k].unit \in {delivered'[m].unit : m \in DOMAIN delivered'}
      BY <2>6, <2>7, <3>1
    <3>4. new.unit \in {delivered'[m].unit : m \in DOMAIN delivered'}
      BY <2>6, <3>1 DEF new
    <3> QED
      BY <2>6, <3>2, <3>3, <3>4
  <2> HIDE DEF new, n, S
  <2>10. {u \in Keeps : u <= new.unit} = {u \in Keeps : u <= LastSeen} \cup {new.unit}
    <3>1. new.unit \in Keeps /\ new.unit > LastSeen /\ new.unit \in Int
      BY <2>3, <2>4, <2>5
    <3>2. ASSUME NEW u \in Keeps, u <= new.unit, ~(u <= LastSeen) PROVE u = new.unit
      <4>1. u \in Int /\ u > LastSeen
        BY <2>5, <3>2
      <4>2. new.unit <= u
        BY <2>3, <2>4, <4>1
      <4> QED
        BY <3>1, <3>2, <4>1, <4>2
    <3>3. \A u \in Keeps : u <= LastSeen => u <= new.unit
      BY <2>5, <3>1
    <3>4. new.unit <= new.unit
      BY <3>1
    <3> QED
      BY <3>1, <3>2, <3>3, <3>4
  <2>11. Keeps' = Keeps
    BY DEF Keeps
  <2> QED
    BY <2>8, <2>9, <2>10, <2>11 DEF Prefix
<1> QED
  BY <1>1, <1>2

\* The initial state, and every step.
LEMMA InitEnd == Init => EndInv
<1> SUFFICES ASSUME Init PROVE EndInv
  OBVIOUS
<1>1. BlameInv /\ TurnsInv /\ FinishInv
  BY Threads DEF Init, BlameInv, TurnsInv, FinishInv
<1>2. LastSeen = 0 /\ delivered = <<>>
  BY DEF Init, LastSeen
<1>3. \A u \in Keeps : u \in Int /\ u > 0
  BY GraphConstants DEF Keeps, Unit
<1>4. Prefix
  BY <1>2, <1>3 DEF Prefix
<1> QED
  BY <1>1, <1>4 DEF EndInv

\* Every step keeps it.
LEMMA NextEnd == GraphInv /\ GraphInv' /\ EndInv /\ [Next]_vars => EndInv'
<1> SUFFICES ASSUME GraphInv, GraphInv', EndInv, [Next]_vars PROVE EndInv'
  OBVIOUS
<1>0. TypeInv /\ OutcomeInv /\ BlameInv /\ TurnsInv /\ FinishInv /\ Prefix
  BY DEF GraphInv, EndInv
<1>1. BlameInv'
  <2>1. CASE Finished \/ UNCHANGED vars
    <3>1. UNCHANGED <<cancelled, outcome, pc, chan, cur, kind>>
      BY <2>1 DEF Finished, vars, others, supervision, result, stageState
    <3>2. \A j \in 0..N : CutAt(j) => CutAt(j)'
      BY <3>1 DEF CutAt, Spent, NoEosFrom, EosIn, Ending
    <3> QED
      BY <1>0, <3>1, <3>2 DEF BlameInv
  <2> QED
    BY <1>0, <2>1, ActorsKeepBlame, TakersKeepBlame DEF Next
<1>2. TurnsInv' /\ FinishInv' /\ Prefix'
  BY <1>0, NextTurns, NextFinish, NextPrefix
<1> QED
  BY <1>1, <1>2 DEF EndInv

\* finish() is called after the last unit that the processors keep, whatever fails:
\* an actor that fails keeps the end of the stream from everyone behind it
\* (streaming.py, _sink_actor).  A host that closes the run can have it earlier.
THEOREM FinishFollowsStream == Spec => [](outcome # "cancelled" => FinishIsComplete)
<1>1. TypeInv /\ EndInv => (outcome # "cancelled" => FinishIsComplete)
  <2> SUFFICES ASSUME TypeInv, EndInv, outcome # "cancelled", finished = "eos"
               PROVE  {delivered[k].unit : k \in DOMAIN delivered} = Keeps
    BY DEF FinishIsComplete, Keeps
  <2>1. Over(LastSeen, N) /\ Prefix
    BY DEF EndInv, FinishInv
  <2>2. DroppedBy(N) = UNION {Drops[i] : i \in Stage}
    BY DEF DroppedBy, Stage
  <2>3. LastSeen \in Int /\ \A u \in Unit : u \in Int
    BY LastSeenTyped, MarksOK
  <2>4. \A u \in Keeps : u <= LastSeen
    BY <2>1, <2>2, <2>3 DEF Over, Keeps
  <2> QED
    BY <2>1, <2>4 DEF Prefix
<1>2. GraphInv => TypeInv
  BY DEF GraphInv
<1> QED
  BY <1>1, <1>2, InitEnd, NextEnd, GraphCorrect, PTL DEF Spec

\* A run that nobody closes is not cancelled.
LEMMA NobodyCloses ==
  ASSUME ~MayCancel, outcome # "cancelled", [Next]_vars PROVE outcome' # "cancelled"
<1>1. MainStep \/ MainFails => outcome' # "cancelled"
  BY Threads DEF MainStep, MainFails, Start, HostPull, HostGetUnit, HostUnitFails,
     HostRaises, HostInterrupted, HostGetEos, HostGetClosed, WaitReturns, CloseNext, Join,
     Drain, DropTerminal, CloseAll, StartFails, Move, others, result
<1>2. ~Close
  BY DEF Close
<1> QED
  BY <1>1, <1>2, OutcomeIsMains

\* Where the host cannot close the run, finish() is always called after the whole
\* stream (streaming.py, _sink_actor).
THEOREM FinishIsWhole == ASSUME ~MayCancel PROVE Spec => []FinishIsComplete
<1> DEFINE Open == outcome # "cancelled"
<1>1. Init => Open
  BY DEF Init
<1>2. Open /\ [Next]_vars => Open'
  BY NobodyCloses
<1>3. Spec => [](Open => FinishIsComplete)
  BY FinishFollowsStream
<1> HIDE DEF Open
<1> QED
  BY <1>1, <1>2, <1>3, PTL DEF Spec

-----------------------------------------------------------------------------
(* The frames that a comparison tee retains *)

\* A set of numbers has a least one.
LEMMA LeastNumber ==
  ASSUME NEW T, T \subseteq Nat, T # {}
  PROVE  \E x \in T : \A y \in T : x <= y
<1> DEFINE R == {ss \in Nat \X Nat : ss[1] < ss[2]}
<1>1. IsWellFoundedOn(R, Nat)
  BY NatLessThanWellFounded DEF OpToRel
<1>2. PICK x \in T : \A y \in T : ~(<<y, x>> \in R)
  <2> HIDE DEF R
  <2> QED
    BY <1>1, WFMin
<1>3. \A y \in T : ~(y < x)
  BY <1>2
<1> QED
  BY <1>3

\* Places that f gives at the members of S.
PlacesAt(f, S) == UNION {{i} \X (1..f[i]) : i \in S}

\* One member more brings its places.
LEMMA PlacesGrow ==
  ASSUME NEW f, NEW S, IsFiniteSet(PlacesAt(f, S)), NEW x, x \notin S, f[x] \in Nat
  PROVE  /\ IsFiniteSet(PlacesAt(f, S \cup {x}))
         /\ Cardinality(PlacesAt(f, S \cup {x})) = Cardinality(PlacesAt(f, S)) + f[x]
<1> DEFINE here == {x} \X (1..f[x])
<1>1. PlacesAt(f, S \cup {x}) = PlacesAt(f, S) \cup here
  <2>1. \A p : p \in PlacesAt(f, S \cup {x}) <=> \E i \in S \cup {x} : p \in {i} \X (1..f[i])
    BY DEF PlacesAt
  <2>2. \A p : p \in PlacesAt(f, S) <=> \E i \in S : p \in {i} \X (1..f[i])
    BY DEF PlacesAt
  <2> HIDE DEF here
  <2>3. \A p : p \in here <=> p \in {x} \X (1..f[x])
    BY DEF here
  <2> QED
    BY <2>1, <2>2, <2>3
<1>2. PlacesAt(f, S) \cap here = {}
  <2>1. \A p \in PlacesAt(f, S) : p[1] \in S
    BY DEF PlacesAt
  <2>2. \A p \in here : p[1] = x
    OBVIOUS
  <2> HIDE DEF here
  <2> QED
    BY <2>1, <2>2
<1>3. IsFiniteSet(here) /\ Cardinality(here) = f[x]
  <2>1. IsFiniteSet(1..f[x]) /\ Cardinality(1..f[x]) = f[x]
    BY FS_Interval
  <2>2. IsFiniteSet({x}) /\ Cardinality({x}) = 1
    BY FS_Singleton
  <2>3. IsFiniteSet(here) /\ Cardinality(here) = Cardinality({x}) * Cardinality(1..f[x])
    BY <2>1, <2>2, FS_Product, Zenon
  <2> HIDE DEF here
  <2>4. Cardinality(here) = 1 * f[x]
    BY <2>1, <2>2, <2>3
  <2> QED
    BY <2>3, <2>4
<1> HIDE DEF here
<1> QED
  BY <1>1, <1>2, <1>3, Disjoint

\* And no member has none.
LEMMA NoPlaces == \A f : IsFiniteSet(PlacesAt(f, {})) /\ Cardinality(PlacesAt(f, {})) = 0
<1> TAKE f
<1>1. PlacesAt(f, {}) = {}
  BY DEF PlacesAt
<1> QED
  BY <1>1, FS_EmptySet

\* The stages and the channels up to stage n.
UpTo(n)   == 1..n
Behind(n) == (0..n) \cup ((N + 1)..(N + n))

\* A line of marks: what lies between the first and the last is what lies between each
\* and the next.
LEMMA Telescope ==
  ASSUME NEW r \in [Stage -> Nat], NEW q \in [Chan -> Nat], NEW g \in [1..(N + 1) -> Int],
         \A i \in Stage : g[i] - g[i + 1] <= r[i] + q[N + i] + q[i] + 1
  PROVE  /\ Total(r) \in Nat /\ Total(q) \in Nat
         /\ g[1] - g[N + 1] <= Total(r) + (Total(q) - q[0]) + N
<1> DEFINE inside(n) == Cardinality(PlacesAt(r, UpTo(n)))
           queued(n) == Cardinality(PlacesAt(q, Behind(n)))
           Good(n) == /\ IsFiniteSet(PlacesAt(r, UpTo(n))) /\ IsFiniteSet(PlacesAt(q, Behind(n)))
                      /\ g[1] - g[n + 1] <= inside(n) + (queued(n) - q[0]) + n
<1>0. N \in Nat /\ Stage = 1..N /\ Chan = 0..(2 * N)
  BY GraphConstants DEF Stage, Chan
<1>1. Good(0)
  <2>1. UpTo(0) = {} /\ Behind(0) = {} \cup {0}
    BY <1>0 DEF UpTo, Behind
  <2>2. q[0] \in Nat /\ g[1] \in Int
    BY <1>0
  <2>3. /\ IsFiniteSet(PlacesAt(q, {} \cup {0}))
        /\ Cardinality(PlacesAt(q, {} \cup {0})) = 0 + q[0]
    <3>1. IsFiniteSet(PlacesAt(q, {})) /\ Cardinality(PlacesAt(q, {})) = 0 /\ 0 \notin {}
      BY NoPlaces
    <3>2. /\ IsFiniteSet(PlacesAt(q, {} \cup {0}))
          /\ Cardinality(PlacesAt(q, {} \cup {0})) = Cardinality(PlacesAt(q, {})) + q[0]
      BY <2>2, <3>1, PlacesGrow, Zenon
    <3> QED
      BY <3>1, <3>2
  <2>4. IsFiniteSet(PlacesAt(r, {})) /\ Cardinality(PlacesAt(r, {})) = 0
    BY NoPlaces
  <2>5. inside(0) = 0 /\ queued(0) = 0 + q[0]
    BY <2>1, <2>3, <2>4
  <2>6. IsFiniteSet(PlacesAt(r, UpTo(0))) /\ IsFiniteSet(PlacesAt(q, Behind(0)))
    BY <2>1, <2>3, <2>4
  <2> HIDE DEF inside, queued
  <2>7. g[1] - g[0 + 1] <= inside(0) + (queued(0) - q[0]) + 0
    BY <2>2, <2>5
  <2> QED
    BY <2>6, <2>7
<1>2. ASSUME NEW n \in Nat, n < N, Good(n) PROVE Good(n + 1)
  <2>1. /\ UpTo(n + 1) = UpTo(n) \cup {n + 1} /\ n + 1 \notin UpTo(n) /\ n + 1 \in Stage
        /\ Behind(n + 1) = (Behind(n) \cup {n + 1}) \cup {N + (n + 1)}
        /\ n + 1 \notin Behind(n) /\ N + (n + 1) \notin Behind(n) \cup {n + 1}
    <3>1. n \in Nat /\ n < N /\ N \in Nat /\ Stage = 1..N
      BY <1>0, <1>2
    <3>2. \A k : k \in UpTo(n + 1) <=> k \in UpTo(n) \cup {n + 1}
      BY ONLY <3>1 DEF UpTo
    <3>4. \A k : k \in 0..(n + 1) <=> k \in 0..n \/ k = n + 1
      BY ONLY <3>1
    <3>5. \A k : k \in (N + 1)..(N + (n + 1)) <=> k \in (N + 1)..(N + n) \/ k = N + (n + 1)
      <4>1. PICK a, b, c \in Int : a = N + 1 /\ b = N + n /\ c = N + (n + 1) /\ c = b + 1 /\ a <= c
        BY <3>1
      <4>2. \A k : k \in a..c <=> k \in a..b \/ k = c
        BY ONLY <4>1
      <4> QED
        BY <4>1, <4>2
    <3>6. \A k : k \in Behind(n + 1) <=> k \in (Behind(n) \cup {n + 1}) \cup {N + (n + 1)}
      BY ONLY <3>4, <3>5, Zenon DEF Behind
    <3>3. /\ n + 1 \notin UpTo(n) /\ n + 1 \in Stage
          /\ n + 1 \notin Behind(n) /\ N + (n + 1) \notin Behind(n) \cup {n + 1}
      BY ONLY <3>1 DEF UpTo, Behind
    <3> QED
      BY <3>2, <3>3, <3>6
  <2>2. /\ r[n + 1] \in Nat /\ q[n + 1] \in Nat /\ q[N + (n + 1)] \in Nat /\ q[0] \in Nat
        /\ g[1] \in Int /\ g[n + 1] \in Int /\ g[(n + 1) + 1] \in Int
    BY <1>0, <1>2
  <2>3. /\ IsFiniteSet(PlacesAt(r, UpTo(n + 1))) /\ inside(n + 1) = inside(n) + r[n + 1]
    BY <1>2, <2>1, <2>2, PlacesGrow
  <2>4. /\ IsFiniteSet(PlacesAt(q, Behind(n) \cup {n + 1}))
        /\ Cardinality(PlacesAt(q, Behind(n) \cup {n + 1})) = queued(n) + q[n + 1]
    BY <1>2, <2>1, <2>2, PlacesGrow
  <2>5. /\ IsFiniteSet(PlacesAt(q, Behind(n + 1)))
        /\ queued(n + 1) = (queued(n) + q[n + 1]) + q[N + (n + 1)]
    <3> DEFINE S == Behind(n) \cup {n + 1}
    <3>1. /\ Behind(n + 1) = S \cup {N + (n + 1)} /\ N + (n + 1) \notin S
          /\ IsFiniteSet(PlacesAt(q, S)) /\ Cardinality(PlacesAt(q, S)) = queued(n) + q[n + 1]
      BY <2>1, <2>4
    <3> HIDE DEF S
    <3>2. /\ IsFiniteSet(PlacesAt(q, S \cup {N + (n + 1)}))
          /\ Cardinality(PlacesAt(q, S \cup {N + (n + 1)}))
               = Cardinality(PlacesAt(q, S)) + q[N + (n + 1)]
      BY <2>2, <3>1, PlacesGrow
    <3> QED
      BY <3>1, <3>2
  <2>6. inside(n) \in Nat /\ queued(n) \in Nat
    BY <1>2, FS_CardinalityType
  <2>7. g[n + 1] - g[(n + 1) + 1] <= r[n + 1] + q[N + (n + 1)] + q[n + 1] + 1
    BY <2>1
  <2>8. g[1] - g[n + 1] <= inside(n) + (queued(n) - q[0]) + n
    BY <1>2
  <2> HIDE DEF inside, queued
  <2>9. g[1] - g[(n + 1) + 1] <= inside(n + 1) + (queued(n + 1) - q[0]) + (n + 1)
    <3>1. PICK u, v, w, x, y, z : /\ u = r[n + 1] /\ v = q[n + 1] /\ w = q[N + (n + 1)]
                                  /\ x = g[1] /\ y = g[n + 1] /\ z = g[(n + 1) + 1]
      OBVIOUS
    <3>2. PICK c, d, e : c = inside(n) /\ d = queued(n) /\ e = q[0]
      OBVIOUS
    <3>3. /\ u \in Nat /\ v \in Nat /\ w \in Nat /\ c \in Nat /\ d \in Nat /\ e \in Nat
          /\ x \in Int /\ y \in Int /\ z \in Int
          /\ y - z <= u + w + v + 1 /\ x - y <= c + (d - e) + n
      BY <2>2, <2>6, <2>7, <2>8, <3>1, <3>2
    <3>4. x - z <= (c + u) + (((d + v) + w) - e) + (n + 1)
      BY ONLY <1>2, <3>3
    <3> QED
      BY <2>3, <2>5, <3>1, <3>2, <3>4
  <2> QED
    BY <2>3, <2>5, <2>9
<1>3. Good(N)
  <2> DEFINE Bad == {n \in 0..N : ~Good(n)}
  <2> HIDE DEF Good
  <2>1. SUFFICES ASSUME Bad # {} PROVE FALSE
    <3>1. N \in 0..N
      BY <1>0
    <3> QED
      BY <3>1
  <2>7. Bad \subseteq Nat
    BY <1>0
  <2>2. PICK n \in Bad : \A y \in Bad : n <= y
    <3> HIDE DEF Bad
    <3> QED
      BY <2>1, <2>7, LeastNumber
  <2>3. n \in 0..N /\ ~Good(n) /\ n # 0
    BY <1>1, <2>2
  <2>4. n - 1 \in Nat /\ n - 1 < N /\ n - 1 \in 0..N /\ (n - 1) + 1 = n /\ ~(n <= n - 1)
    BY <1>0, <2>3
  <2>5. Good(n - 1)
    BY <2>2, <2>4
  <2>6. Good((n - 1) + 1)
    BY ONLY <1>2, <2>4, <2>5
  <2> QED
    BY <2>3, <2>4, <2>6
<1>4. UpTo(N) = DOMAIN r /\ Behind(N) = DOMAIN q
  BY <1>0 DEF UpTo, Behind
<1>5. Total(r) = inside(N) /\ Total(q) = queued(N)
  BY <1>4 DEF Total, PlacesAt
<1>6. inside(N) \in Nat /\ queued(N) \in Nat
  BY <1>3, FS_CardinalityType
<1> QED
  BY <1>3, <1>5, <1>6

\* No operation swallows a unit.
KeepEverything == \A i \in Stage : Drops[i] = {}

\* Then nothing is dropped before any point of the line.
LEMMA NothingSwallowed == KeepEverything => \A i \in 0..N : DroppedBy(i) = {}
BY GraphConstants DEF KeepEverything, DroppedBy, Stage

\* Then what follows a unit is the next one.
LEMMA NextUnit ==
  ASSUME KeepEverything, NEW i \in 0..N, NEW a \in Mark, NEW e \in Envelope, Follows(e, a, i)
  PROVE  e.unit = a + 1 /\ e.unit \in Mark
<1>1. DroppedBy(i) = {}
  BY NothingSwallowed
<1>2. e.unit \in Unit /\ a < e.unit /\ \A u \in Unit : ~(a < u /\ u < e.unit)
  BY <1>1, Envelopes DEF Follows
<1>3. NumUnits \in Nat /\ Unit = 1..NumUnits /\ Mark = 0..NumUnits
  BY GraphConstants DEF Unit, Mark
<1>4. e.unit \in Int /\ a \in Int /\ a >= 0 /\ e.unit >= 1 /\ e.unit <= NumUnits
  BY <1>2, <1>3
<1>5. a + 1 < e.unit => a + 1 \in Unit /\ a < a + 1
  BY <1>3, <1>4
<1>6. ~(a + 1 < e.unit)
  BY <1>2, <1>5
<1> QED
  BY <1>2, <1>3, <1>4, <1>6

\* And a channel holds as many units as lie between the marks at its ends.
LEMMA ChainLength ==
  ASSUME KeepEverything, NEW i \in 0..N, NEW a \in Mark, NEW q \in Seq(Message),
         \A k \in DOMAIN q : q[k] # EOS, NEW b, Chain(q, a, b, i)
  PROVE  b = a + Len(q)
<1> DEFINE Good(k) == k = 0 \/ (q[k].unit = a + k /\ q[k].unit \in Mark)
           Bad == {k \in 0..Len(q) : ~Good(k)}
<1>0. Len(q) \in Nat /\ DOMAIN q = 1..Len(q) /\ a \in Int /\ \A k \in DOMAIN q : q[k] \in Message
  BY MarksOK
<1>1. ASSUME NEW k \in 1..Len(q), Good(k - 1) PROVE Good(k)
  <2>1. PICK c : c = IF k = 1 THEN a ELSE q[k - 1].unit
    OBVIOUS
  <2>2. c \in Mark /\ c = a + (k - 1)
    BY <1>0, <1>1, <2>1
  <2>3. k \in DOMAIN q /\ q[k] # EOS /\ q[k] \in Envelope
    BY <1>0, <1>1 DEF Message
  <2>4. Follows(q[k], c, i)
    BY <2>1, <2>3 DEF Chain
  <2>5. q[k].unit = c + 1 /\ q[k].unit \in Mark
    BY <2>2, <2>3, <2>4, NextUnit
  <2> QED
    BY <1>0, <1>1, <2>2, <2>5
<1>2. \A k \in 0..Len(q) : Good(k)
  <2> HIDE DEF Good
  <2>1. SUFFICES ASSUME Bad # {} PROVE FALSE
    OBVIOUS
  <2>2. Bad \subseteq Nat
    BY <1>0
  <2>3. PICK k \in Bad : \A y \in Bad : k <= y
    <3> HIDE DEF Bad
    <3> QED
      BY <2>1, <2>2, LeastNumber
  <2>4. Good(0)
    BY DEF Good
  <2>5. k \in 1..Len(q) /\ k - 1 \in 0..Len(q) /\ ~(k <= k - 1) /\ ~Good(k)
    BY <1>0, <2>3, <2>4
  <2>6. Good(k - 1)
    BY <2>3, <2>5
  <2>7. Good(k)
    BY ONLY <1>1, <2>5, <2>6
  <2> QED
    BY <2>5, <2>7
<1>3. CASE q = <<>>
  BY <1>0, <1>3 DEF Chain, LastOf
<1>4. CASE q # <<>>
  <2>1. Len(q) \in DOMAIN q /\ Len(q) # 0
    BY <1>0, <1>4
  <2>2. Good(Len(q))
    BY <1>0, <1>2
  <2> HIDE DEF Good
  <2>3. b = q[Len(q)].unit
    BY <1>4, <2>1 DEF Chain, LastOf
  <2> QED
    BY <2>1, <2>2, <2>3 DEF Good
<1> QED
  BY <1>3, <1>4

-----------------------------------------------------------------------------
(* What an operation holds *)

\* With a delay of d units: w in the window and t in the iterator, at a label, in a
\* callback of some kind.
Busy(label, why) ==
  label \in {"process", "settle", "reset"} \/ (label \in {"publish", "emit", "put"} /\ why = "boundary")
Fits(label, why, w, t, d) ==
  label \notin {"closing", "finally", "done"} =>
    /\ w <= d /\ (label \notin {"publish", "emit", "put"} => t = 0)
    /\ w + t + One(label = "put") + One(Busy(label, why)) <= d + 1

\* A processor holds as many units as its delay, and one more on its way out; while it
\* turns to the next shot, or has the next unit still to process, that is the one.
HoldsFew(i) == Fits(pc[Worker(i)], kind[i], Len(window[i]), Len(iter[i]), Delay[i])
HoldInv == \A i \in Stage : HoldsFew(i)

\* A step of its stage.
LEMMA StageHoldsFew ==
  ASSUME TypeInv, NEW i \in Stage, HoldsFew(i), StageStep(i) PROVE HoldsFew(i)'
<1>0. /\ pc \in [Thread -> Label] /\ Worker(i) \in Thread
      /\ window \in [Stage -> Seq(Unit)] /\ iter \in [Stage -> Seq(Unit)]
      /\ kind \in [Stage -> {"process", "boundary", "eos"}]
      /\ cur \in [Thread -> Message \cup {None}]
  BY Threads DEF TypeInv, TypeOK, ThreadsOK, StagesOK
<1>1. window[i] \in Seq(Unit) /\ iter[i] \in Seq(Unit) /\ Len(<<>>) = 0
  BY <1>0
<1>2. PICK l, y, w, t, d : l = pc[Worker(i)] /\ y = kind[i] /\ w = Len(window[i])
                           /\ t = Len(iter[i]) /\ d = Delay[i]
  OBVIOUS
<1>3. w \in Nat /\ t \in Nat /\ d \in Nat /\ Fits(l, y, w, t, d)
  BY <1>1, <1>2, GraphConstants DEF HoldsFew
<1>4. ASSUME NEW m, NEW x, NEW v, NEW s, Fits(m, x, v, s, d), pc'[Worker(i)] = m, kind'[i] = x,
             Len(window'[i]) = v, Len(iter'[i]) = s
      PROVE  HoldsFew(i)'
  BY <1>2, <1>4 DEF HoldsFew
<1>5. CASE StageTop(i) \/ StageTurn(i) \/ StageGetClosed(i) \/ StageSlotCancelled(i) \/ StageSettle(i)
           \/ StageRelease(i) \/ StagePutEos(i) \/ StageFails(i) \/ CloseNext(Worker(i))
           \/ Finally(Worker(i))
  <2>1. UNCHANGED <<window, iter, kind>>
    BY <1>5 DEF StageTop, StageTurn, StageGetClosed, StageSlotCancelled, StageSettle, StageRelease,
       StagePutEos, StageFails, CloseNext, Finally, Move, others, stageState
  <2>2. PICK m : m = pc'[Worker(i)]
    OBVIOUS
  <2>3. \/ m \in {"closing", "finally", "done"}
        \/ l = "top" /\ m = "get"
        \/ l = "publish" /\ m = "emit"
        \/ l = "settle" /\ m = "reset"
        \/ l = "release" /\ m = "top"
    BY <1>0, <1>2, <1>5, <2>2, Threads DEF StageTop, StageTurn, StageGetClosed, StageSlotCancelled,
       StageSettle, StageRelease, StagePutEos, StageFails, CloseNext, Finally, Move, Goto, Fail
  <2>4. Fits(m, y, w, t, d)
    BY ONLY <1>3, <2>3 DEF Fits, Busy, One
  <2> QED
    BY <1>2, <1>4, <2>1, <2>2, <2>4
<1>6. CASE StageGetEos(i)
  <2>1. /\ l = "get" /\ iter' = [iter EXCEPT ![i] = window[i]] /\ window' = [window EXCEPT ![i] = <<>>]
        /\ kind' = [kind EXCEPT ![i] = "eos"] /\ pc' = [pc EXCEPT ![Worker(i)] = "publish"]
    BY <1>2, <1>6 DEF StageGetEos, StartFlush, Goto
  <2>2. Fits("publish", "eos", 0, w, d)
    BY ONLY <1>3, <2>1 DEF Fits, Busy, One
  <2> QED
    BY <1>0, <1>1, <1>2, <1>4, <2>1, <2>2
<1>7. CASE StageGetUnit(i) /\ ~UNCHANGED stageState
  <2>1. /\ l = "get" /\ iter' = [iter EXCEPT ![i] = window[i]] /\ window' = [window EXCEPT ![i] = <<>>]
        /\ kind' = [kind EXCEPT ![i] = "boundary"] /\ pc' = [pc EXCEPT ![Worker(i)] = "publish"]
    BY <1>2, <1>7 DEF StageGetUnit, StartFlush, Goto
  <2>2. Fits("publish", "boundary", 0, w, d)
    BY ONLY <1>3, <2>1 DEF Fits, Busy, One
  <2> QED
    BY <1>0, <1>1, <1>2, <1>4, <2>1, <2>2
<1>8. CASE StageGetUnit(i) /\ UNCHANGED stageState
  <2>1. PICK m : m = pc'[Worker(i)]
    OBVIOUS
  <2>2. l = "get" /\ m \in {"reset", "process", "publish"} /\ UNCHANGED <<iter, window, kind>>
    BY <1>0, <1>2, <1>8, <2>1 DEF StageGetUnit, StartFlush, Goto, stageState
  <2>3. Fits(m, y, w, t, d)
    BY ONLY <1>3, <2>2 DEF Fits, Busy, One
  <2> QED
    BY <1>2, <1>4, <2>1, <2>2, <2>3
<1>9. CASE StageReset(i)
  <2>1. /\ l = "reset" /\ pc' = [pc EXCEPT ![Worker(i)] = "process"]
        /\ window' = [window EXCEPT ![i] = <<>>] /\ iter' = iter /\ kind' = kind
    BY <1>2, <1>9 DEF StageReset, Goto
  <2>2. Fits("process", y, 0, t, d)
    BY ONLY <1>3, <2>1 DEF Fits, Busy, One
  <2> QED
    BY <1>0, <1>1, <1>2, <1>4, <2>1, <2>2
<1>10. CASE StageProcess(i)
  <2>1. PICK held : held = IF cur[Worker(i)].unit \in Drops[i] THEN window[i]
                           ELSE Append(window[i], cur[Worker(i)].unit)
    OBVIOUS
  <2>2. l = "process" /\ cur[Worker(i)].unit \in Unit
    BY <1>2, <1>10, Envelopes DEF StageProcess, TypeInv, InHand
  <2>3. held \in Seq(Unit) /\ Len(held) \in Nat /\ Len(held) <= w + 1
    BY <1>1, <1>2, <1>3, <2>1, <2>2
  <2>4. /\ iter' = [iter EXCEPT ![i] = IF Len(held) > d THEN <<Head(held)>> ELSE <<>>]
        /\ window' = [window EXCEPT ![i] = IF Len(held) > d THEN Tail(held) ELSE held]
        /\ pc' = [pc EXCEPT ![Worker(i)] = "publish"]
        /\ kind' = [kind EXCEPT ![i] = "process"]
    BY <1>2, <1>10, <2>1 DEF StageProcess, Goto
  <2>5. CASE Len(held) > d
    <3>1. Len(Tail(held)) = Len(held) - 1 /\ \A x : Len(<<x>>) = 1
      BY <1>3, <2>3, <2>5
    <3>2. Fits("publish", "process", Len(held) - 1, 1, d)
      BY ONLY <1>3, <2>2, <2>3, <2>5 DEF Fits, Busy, One
    <3> QED
      BY <1>0, <1>4, <2>4, <2>5, <3>1, <3>2
  <2>6. CASE ~(Len(held) > d)
    <3>1. Fits("publish", "process", Len(held), 0, d)
      BY ONLY <1>3, <2>2, <2>3, <2>6 DEF Fits, Busy, One
    <3> QED
      BY <1>0, <1>1, <1>4, <2>4, <2>6, <3>1
  <2> QED
    BY <2>5, <2>6
<1>11. CASE StageEmit(i)
  <2>1. /\ l = "emit" /\ iter[i] # <<>> /\ iter' = [iter EXCEPT ![i] = Tail(iter[i])]
        /\ pc' = [pc EXCEPT ![Worker(i)] = "put"] /\ window' = window /\ kind' = kind
    BY <1>2, <1>11 DEF StageEmit, Goto
  <2>2. Len(Tail(iter[i])) = t - 1
    BY <1>1, <1>2, <2>1
  <2>3. Fits("put", y, w, t - 1, d)
    BY ONLY <1>3, <2>1 DEF Fits, Busy, One
  <2> QED
    BY <1>0, <1>2, <1>4, <2>1, <2>2, <2>3
<1>12. CASE StagePut(i) \/ StagePutRefused(i)
  <2>1. PICK m : m = pc'[Worker(i)]
    OBVIOUS
  <2>2. l = "put" /\ m \in {"publish", "finally"} /\ UNCHANGED <<iter, window, kind>>
    BY <1>0, <1>2, <1>12, <2>1 DEF StagePut, StagePutRefused, Goto
  <2>3. Fits(m, y, w, t, d)
    BY ONLY <1>3, <2>2 DEF Fits, Busy, One
  <2> QED
    BY <1>2, <1>4, <2>1, <2>2, <2>3
<1>13. CASE AfterPublish(i)
  <2>1. PICK m : m = pc'[Worker(i)]
    OBVIOUS
  <2>2. y \in {"process", "boundary", "eos"}
    BY <1>0, <1>2
  <2>3. /\ l \in {"publish", "emit"} /\ iter' = [iter EXCEPT ![i] = <<>>] /\ window' = window /\ kind' = kind
        /\ m = IF y = "process" THEN "release" ELSE IF y = "boundary" THEN "settle" ELSE "eos"
    BY <1>0, <1>2, <1>13, <2>1, <2>2 DEF AfterPublish, Goto
  <2>4. \/ (m = "release" /\ y = "process")
        \/ (m = "settle" /\ y = "boundary")
        \/ (m = "eos" /\ y = "eos")
    BY <2>2, <2>3
  <2>5. Fits(m, y, w, 0, d)
    BY ONLY <1>3, <2>3, <2>4 DEF Fits, Busy, One
  <2> QED
    BY <1>0, <1>1, <1>2, <1>4, <2>1, <2>3, <2>5
<1>14. CASE StagePolls(i)
  BY <1>14 DEF HoldsFew, StagePolls, vars, others, stageState
<1> QED
  BY <1>5, <1>6, <1>7, <1>8, <1>9, <1>10, <1>11, <1>12, <1>13, <1>14 DEF StageStep

\* A stage that rests, or starts.
LEMMA RestHoldsFew ==
  ASSUME NEW i \in Stage, HoldsFew(i), StageRests(i) PROVE HoldsFew(i)'
BY DEF HoldsFew, StageRests

\* Every step keeps what the operations hold within their delays.
LEMMA NextHold == GraphInv /\ HoldInv /\ [Next]_vars => HoldInv'
<1> SUFFICES ASSUME GraphInv, HoldInv, [Next]_vars, NEW i \in Stage PROVE HoldsFew(i)'
  BY DEF HoldInv
<1>0. HoldsFew(i) /\ Worker(i) \in Thread \ {Main} /\ TypeInv /\ Phases
  BY Threads DEF HoldInv, GraphInv, OutcomeInv
<1>1. CASE StageStep(i)
  BY <1>0, <1>1, StageHoldsFew
<1>2. CASE Start
  <2>1. pc'[Worker(i)] = "top" /\ pc[Worker(i)] = "new" /\ UNCHANGED <<kind, window, iter>>
    BY <1>0, <1>2, Threads DEF Start, others, stageState, Phases
  <2> QED
    BY <1>0, <2>1 DEF HoldsFew, Fits, Busy
<1>3. CASE ~StageStep(i) /\ ~Start
  <2>1. CASE SourceStep
    BY <1>0, <2>1, SourceMoves, RestHoldsFew
  <2>2. CASE SinkStep
    BY <1>0, <2>2, SinkMoves, RestHoldsFew
  <2>3. CASE \E j \in Stage : StageStep(j)
    BY <1>0, <1>3, <2>3, StageMoves, RestHoldsFew
  <2>4. CASE \E j \in Stage : CourierStep(j)
    BY <1>0, <2>4, CourierMoves, RestHoldsFew
  <2>5. CASE MainStep \/ MainFails \/ Close
    <3>1. CASE Calls
      BY <1>0, <3>1, CallMoves, RestHoldsFew
    <3>2. CASE ~Calls
      <4>1. UNCHANGED <<kind, window, iter>> /\ pc'[Worker(i)] = pc[Worker(i)]
        BY <1>0, <1>3, <2>5, <3>2, Threads DEF MainStep, MainFails, Calls, Join, Drain,
           DropTerminal, CloseAll, Move, Goto, others, stageState, TypeInv, TypeOK,
           ThreadsOK
      <4> QED
        BY <1>0, <4>1 DEF HoldsFew
    <3> QED
      BY <3>1, <3>2
  <2>6. CASE Finished \/ UNCHANGED vars
    BY <1>0, <2>6, RestHoldsFew DEF Finished, vars, others, stageState, StageRests
  <2> QED
    BY <2>1, <2>2, <2>3, <2>4, <2>5, <2>6 DEF Next
<1> QED
  BY <1>1, <1>2, <1>3

-----------------------------------------------------------------------------
(* Who is through *)

\* Unless the run is cancelled nobody is through before the source.
EndsInv ==
  ~cancelled =>
    /\ \A i \in Stage : Spent(Worker(i)) \/ Spent(Courier(i)) => Spent(Source)
    /\ pc[Main] = "join" => Spent(Source)
    /\ finished # "early"

\* Every step keeps that.
LEMMA NextEnds == GraphInv /\ EndsInv /\ [Next]_vars => EndsInv'
<1> SUFFICES ASSUME GraphInv, EndsInv, [Next]_vars, ~cancelled'
             PROVE  /\ \A i \in Stage : (Spent(Worker(i)) \/ Spent(Courier(i)) => Spent(Source))'
                    /\ pc'[Main] = "join" => Spent(Source)'
                    /\ finished' # "early"
  BY DEF EndsInv
<1>0. /\ TypeInv /\ ThreadsOK /\ ChannelsOK /\ Phases /\ EosQueued /\ EosHeld /\ SinkEnd
      /\ Source \in Thread /\ Main \in Thread /\ N \in Chan /\ N \in Edge
      /\ \A t \in Thread \ {Main} : pc[t] \notin {"new", "done"} => Running
  BY Threads, ChannelPlaces DEF GraphInv, TypeInv, TypeOK, OutcomeInv, QuietInv
<1>1. cancelled => cancelled'
  <2>1. MainStep \/ MainFails \/ Close => (cancelled => cancelled')
    BY DEF MainStep, MainFails, Start, HostPull, HostGetUnit, HostUnitFails, HostRaises,
       HostInterrupted, HostGetEos, HostGetClosed, WaitReturns, CloseNext, Join, Drain,
       DropTerminal, CloseAll, StartFails, Close, Move, Fail, Cancel, others, supervision
  <2>2. Finished \/ UNCHANGED vars => (cancelled => cancelled')
    BY DEF Finished, vars, others, supervision
  <2> QED
    BY <1>0, <2>1, <2>2, SourceMoves, StageMoves, CourierMoves, SinkMoves DEF Next, Onward
<1>2. /\ ~cancelled /\ finished # "early" /\ (pc[Main] = "join" => Spent(Source))
      /\ \A i \in Stage : Spent(Worker(i)) \/ Spent(Courier(i)) => Spent(Source)
  BY <1>1 DEF EndsInv
<1>3. Running => closed = {}
  BY <1>0, <1>2 DEF Phases, Running
<1>4. CASE SourceStep
  <2>1. Spent(Source) => Spent(Source)'
    BY <1>0, <1>2, <1>4, Threads DEF SourceStep, SourceNext, SourceExhausted, SourcePut,
       SourceRefused, SourceFails, CloseNext, Finally, Spent, Goto, ThreadsOK
  <2>2. /\ \A i \in Stage : pc'[Worker(i)] = pc[Worker(i)] /\ pc'[Courier(i)] = pc[Courier(i)]
        /\ pc'[Main] = pc[Main] /\ finished' = finished
    BY <1>0, <1>4, SourceMoves, ResultRests DEF StageRests, CourierRests, TerminalRests
  <2> QED
    BY <1>2, <2>1, <2>2 DEF Spent
<1>5. ASSUME NEW i \in Stage, StageStep(i)
      PROVE  /\ \A j \in Stage : (Spent(Worker(j)) \/ Spent(Courier(j)) => Spent(Source))'
             /\ pc'[Main] = pc[Main] /\ finished' = finished /\ Spent(Source)' = Spent(Source)
  <2>1. /\ \A j \in Stage : j # i => pc'[Worker(j)] = pc[Worker(j)]
        /\ \A j \in Stage : pc'[Courier(j)] = pc[Courier(j)]
        /\ pc'[Source] = pc[Source] /\ pc'[Main] = pc[Main] /\ finished' = finished
    BY <1>0, <1>5, StageMoves, ResultRests DEF StageRests, CourierRests, TerminalRests, SourceRests
  <2>2. Worker(i) \in Thread \ {Main} /\ pc[Worker(i)] \notin {"new", "done"}
    BY <1>0, <1>5, Threads, StepsAreLive
  <2>3. Spent(Worker(i))' => Spent(Worker(i)) \/ pc[Worker(i)] = "eos"
    <3> USE DEF Move, Goto, Spent, ThreadsOK
    <3>1. ~StageGetClosed(i) /\ ~StagePutRefused(i) /\ ~StageSlotCancelled(i) /\ ~StageFails(i)
      BY <1>0, <1>2, <1>3, <2>2 DEF StageGetClosed, StagePutRefused, StageSlotCancelled,
         StageFails, Ended, Fail
    <3>2. CASE StageTop(i) \/ StageGetEos(i) \/ StageGetUnit(i) \/ StageReset(i) \/ StageProcess(i)
      BY <1>0, <1>2, <2>2, <3>2 DEF StageTop, StageGetEos, StageGetUnit, StageReset, StageProcess,
         StartFlush
    <3>3. CASE \/ StageTurn(i) \/ StageEmit(i) \/ StagePut(i) \/ StageSettle(i) \/ StagePolls(i)
             \/ StageRelease(i)
      BY <1>0, <2>2, <3>3 DEF StageTurn, StageEmit, StagePut, StageSettle, StagePolls, StageRelease, vars
    <3>4. CASE AfterPublish(i)
      <4>1. kind[i] \in {"process", "boundary", "eos"}
        BY <1>0 DEF TypeInv, TypeOK, StagesOK
      <4> QED
        BY <1>0, <2>2, <3>4, <4>1 DEF AfterPublish
    <3>5. CASE StagePutEos(i) \/ CloseNext(Worker(i)) \/ Finally(Worker(i))
      BY <3>5 DEF StagePutEos, CloseNext, Finally
    <3> QED
      BY <1>5, <3>1, <3>2, <3>3, <3>4, <3>5 DEF StageStep
  <2>4. pc[Worker(i)] = "eos" => Spent(Source)
    BY <1>0 DEF EosHeld, UpstreamSpent
  <2> QED
    BY <1>2, <2>1, <2>3, <2>4 DEF Spent
<1>6. ASSUME NEW i \in Stage, CourierStep(i)
      PROVE  /\ \A j \in Stage : (Spent(Worker(j)) \/ Spent(Courier(j)) => Spent(Source))'
             /\ pc'[Main] = pc[Main] /\ finished' = finished /\ Spent(Source)' = Spent(Source)
  <2>1. /\ \A j \in Stage : j # i => pc'[Courier(j)] = pc[Courier(j)]
        /\ \A j \in Stage : pc'[Worker(j)] = pc[Worker(j)]
        /\ pc'[Source] = pc[Source] /\ pc'[Main] = pc[Main] /\ finished' = finished
    BY <1>0, <1>6, CourierMoves, ResultRests DEF StageRests, CourierRests, TerminalRests, SourceRests
  <2>2. Courier(i) \in Thread \ {Main} /\ pc[Courier(i)] \notin {"new", "done"}
    BY <1>0, <1>6, Threads, StepsAreLive
  <2>3. Spent(Courier(i))' => Spent(Courier(i)) \/ cur[Courier(i)] = EOS
    BY <1>0, <1>2, <1>3, <1>6, <2>2 DEF CourierStep, CourierTop, CourierGet, CourierPut,
       CourierClosed, Finally, Ended, Move, Goto, Spent, ThreadsOK
  <2>4. cur[Courier(i)] = EOS => Spent(Source)
    BY <1>0 DEF EosHeld, UpstreamSpent
  <2> QED
    BY <1>2, <2>1, <2>3, <2>4 DEF Spent
<1>7. CASE SinkStep
  <2>1. /\ \A i \in Stage : pc'[Worker(i)] = pc[Worker(i)] /\ pc'[Courier(i)] = pc[Courier(i)]
        /\ pc'[Main] = pc[Main] /\ pc'[Source] = pc[Source]
    BY <1>0, <1>7, SinkMoves DEF StageRests, CourierRests, SourceRests
  <2>2. finished' # "early"
    BY <1>2, <1>7 DEF SinkStep, SinkTop, SinkGetUnit, SinkGetEos, SinkFinishFails,
       SinkGetClosed, SinkConsume, SinkStop, SinkFails, SinkFinally, CloseNext, Cancel,
       Move, others, result
  <2> QED
    BY <1>2, <2>1, <2>2 DEF Spent
<1>8. CASE MainStep \/ MainFails \/ Close
  <2>1. finished' = finished
    BY <1>8 DEF MainStep, MainFails, Start, HostPull, HostGetUnit, HostUnitFails,
       HostRaises, HostInterrupted, HostGetEos, HostGetClosed, WaitReturns, CloseNext, Join,
       Drain, DropTerminal, CloseAll, StartFails, Close, Move, others, result
  <2>2. CASE Start
    <3>1. /\ \A i \in Stage : pc'[Worker(i)] = "top" /\ pc'[Courier(i)] = "top"
          /\ pc'[Main] # "join"
      BY <2>2, Threads DEF Start
    <3> QED
      BY <1>2, <2>1, <3>1 DEF Spent
  <2>3. CASE ~Start
    <3>1. \A t \in Thread \ {Main} : pc'[t] = pc[t]
      BY <1>0, <1>8, <2>3 DEF MainStep, MainFails, HostPull, HostGetUnit, HostUnitFails,
         HostRaises, HostInterrupted, HostGetEos, HostGetClosed, WaitReturns, CloseNext,
         Join, Drain, DropTerminal, CloseAll, StartFails, Close, Move, Goto, Fail, Cancel,
         ThreadsOK, others
    <3>2. pc'[Main] = "join" => pc[Main] = "join" \/ HostGetEos \/ WaitReturns \/ pc[Main] = "closing"
      BY <1>0, <1>8, <2>3 DEF MainStep, MainFails, HostPull, HostGetUnit, HostUnitFails,
         HostRaises, HostInterrupted, HostGetClosed, CloseNext, Join, Drain, DropTerminal,
         CloseAll, StartFails, Close, Move, Goto, Fail, Cancel, ThreadsOK, others
    <3>3. HostGetEos => Spent(Source)
      BY <1>0, EosHead DEF HostGetEos, EosQueued, UpstreamSpent
    <3>4. WaitReturns => Spent(Source)
      BY <1>0, <1>2 DEF WaitReturns, Cancel, SinkEnd, UpstreamSpent
    <3>5. pc[Main] # "closing"
      BY <1>0, <1>2 DEF Phases
    <3> QED
      BY <1>2, <2>1, <3>1, <3>2, <3>3, <3>4, <3>5, Threads DEF Spent
  <2> QED
    BY <2>2, <2>3
<1>9. CASE Finished \/ UNCHANGED vars
  BY <1>2, <1>9 DEF Finished, vars, others, result, Spent
<1> QED
  BY <1>2, <1>4, <1>5, <1>6, <1>7, <1>8, <1>9 DEF Next

-----------------------------------------------------------------------------
(* What is between the source and the consumer *)

\* A sequence has no more members than places.
LEMMA MembersFit ==
  ASSUME NEW S, NEW q \in Seq(S)
  PROVE  IsFiniteSet(UnitsOf(q)) /\ Cardinality(UnitsOf(q)) <= Len(q)
<1>1. Len(q) \in Nat /\ DOMAIN q = 1..Len(q) /\ q \in [1..Len(q) -> S]
  OBVIOUS
<1>2. \A u : u \in UnitsOf(q) <=> \E k \in 1..Len(q) : u = q[k]
  BY <1>1 DEF UnitsOf
<1>3. q \in [1..Len(q) -> UnitsOf(q)]
  BY <1>1, <1>2
<1>4. q \in Surjection(1..Len(q), UnitsOf(q))
  BY <1>2, <1>3 DEF Surjection
<1>5. IsFiniteSet(1..Len(q)) /\ Cardinality(1..Len(q)) = Len(q)
  BY <1>1, FS_Interval
<1> QED
  BY <1>4, <1>5, FS_Surjection

\* As many units are inside an operation as it holds.
LEMMA StageSpan ==
  ASSUME TypeInv, KeepEverything, ~cancelled, NEW i \in Stage, HoldsFew(i), Alive(Worker(i)),
         NEW g \in Mark, NEW m \in Mark, NEW p \in Mark, Inside(i, g, m, p)
  PROVE  g - p <= Delay[i] + 1 /\ (pc[Worker(i)] = "get" => g - p <= Delay[i])
<1>0. /\ window[i] \in Seq(Unit) /\ iter[i] \in Seq(Unit) /\ Delay[i] \in Nat
      /\ g \in Int /\ m \in Int /\ p \in Int /\ i \in 0..N /\ Mark = 0..NumUnits
      /\ NumUnits \in Nat /\ Unit = 1..NumUnits
  BY MarksOK, GraphConstants DEF TypeInv, TypeOK, StagesOK, Stage, Unit, Mark
<1>1. PICK w, t : w = Len(window[i]) /\ t = Len(iter[i])
  OBVIOUS
<1>2. w \in Nat /\ t \in Nat
  BY <1>0, <1>1
<1>3. /\ w <= Delay[i] /\ (pc[Worker(i)] \notin {"publish", "emit", "put"} => t = 0)
      /\ w + t + One(pc[Worker(i)] = "put") + One(Unseen(i)) <= Delay[i] + 1
  <2>1. Unseen(i) <=> Busy(pc[Worker(i)], kind[i])
    BY DEF Unseen, Turning, Flushing, Busy
  <2>2. One(Unseen(i)) = One(Busy(pc[Worker(i)], kind[i]))
    BY <2>1 DEF One
  <2> QED
    BY <1>1, <2>2 DEF HoldsFew, Fits, Alive
<1>4. g - m <= w + t + One(Unseen(i))
  <2> DEFINE next1 == IF Unseen(i) THEN {g} ELSE {}
  <2>1. DroppedBy(i) = {}
    BY <1>0, NothingSwallowed
  <2>2. m <= g /\ \A u \in Unit : m < u /\ u <= g => u \in Held(i) \/ (Unseen(i) /\ u = g)
    BY <2>1 DEF Inside, InOrder
  <2>3. (m + 1)..g \subseteq Held(i) \cup next1
    <3> SUFFICES ASSUME NEW u \in (m + 1)..g PROVE u \in Held(i) \/ (Unseen(i) /\ u = g)
      OBVIOUS
    <3>1. u \in Unit /\ m < u /\ u <= g
      BY <1>0
    <3> QED
      BY <2>2, <3>1
  <2>4. IsFiniteSet(next1) /\ Cardinality(next1) = One(Unseen(i))
    BY FS_Singleton, FS_EmptySet DEF One
  <2>5. /\ IsFiniteSet(UnitsOf(iter[i])) /\ Cardinality(UnitsOf(iter[i])) <= t
        /\ IsFiniteSet(UnitsOf(window[i])) /\ Cardinality(UnitsOf(window[i])) <= w
    BY <1>0, <1>1, MembersFit
  <2>6. \A S, T : IsFiniteSet(S) /\ IsFiniteSet(T) =>
          IsFiniteSet(S \cup T) /\ Cardinality(S \cup T) <= Cardinality(S) + Cardinality(T)
    <3> SUFFICES ASSUME NEW S, NEW T, IsFiniteSet(S), IsFiniteSet(T)
                 PROVE  /\ IsFiniteSet(S \cup T)
                        /\ Cardinality(S \cup T) <= Cardinality(S) + Cardinality(T)
      OBVIOUS
    <3>1. /\ IsFiniteSet(S \cup T) /\ IsFiniteSet(S \cap T)
          /\ Cardinality(S \cup T) = Cardinality(S) + Cardinality(T) - Cardinality(S \cap T)
      BY FS_Union, FS_Intersection
    <3>2. Cardinality(S) \in Nat /\ Cardinality(T) \in Nat /\ Cardinality(S \cap T) \in Nat
      BY <3>1, FS_CardinalityType
    <3> QED
      BY <3>1, <3>2
  <2> HIDE DEF next1
  <2>7. IsFiniteSet(Held(i)) /\ Cardinality(Held(i)) <= t + w
    <3>1. /\ IsFiniteSet(Held(i))
          /\ Cardinality(Held(i)) <= Cardinality(UnitsOf(iter[i])) + Cardinality(UnitsOf(window[i]))
      BY <2>5, <2>6 DEF Held
    <3>2. /\ Cardinality(UnitsOf(iter[i])) \in Nat /\ Cardinality(UnitsOf(window[i])) \in Nat
          /\ Cardinality(Held(i)) \in Nat
      BY <2>5, <3>1, FS_CardinalityType
    <3> QED
      BY <1>2, <2>5, <3>1, <3>2
  <2>8. /\ IsFiniteSet(Held(i) \cup next1)
        /\ Cardinality(Held(i) \cup next1) <= Cardinality(Held(i)) + One(Unseen(i))
    BY <2>4, <2>6, <2>7
  <2>9. Cardinality((m + 1)..g) <= Cardinality(Held(i) \cup next1)
    BY <2>3, <2>8, FS_Subset
  <2>10. Cardinality((m + 1)..g) = g - m
    <3>1. m + 1 \in Int /\ m <= g
      BY <1>0, <2>2
    <3>2. Cardinality((m + 1)..g) = IF m + 1 > g THEN 0 ELSE g - (m + 1) + 1
      BY <1>0, <3>1, FS_Interval
    <3> QED
      BY <1>0, <3>1, <3>2
  <2>11. /\ Cardinality(Held(i) \cup next1) \in Nat /\ Cardinality(Held(i)) \in Nat
         /\ One(Unseen(i)) \in Nat
    BY <2>7, <2>8, FS_CardinalityType DEF One
  <2> QED
    BY <1>0, <1>2, <2>7, <2>8, <2>9, <2>10, <2>11
<1>5. m - p = One(pc[Worker(i)] = "put")
  <2>1. CASE pc[Worker(i)] = "put"
    <3>1. out[i] \in Envelope /\ m = out[i].unit /\ Follows(out[i], p, i)
      BY <2>1 DEF Inside, TypeInv, InHand
    <3>2. m = p + 1
      BY <1>0, <3>1, NextUnit
    <3> QED
      BY <1>0, <2>1, <3>2 DEF One
  <2>2. CASE pc[Worker(i)] # "put"
    BY <1>0, <2>2 DEF Inside, One
  <2> QED
    BY <2>1, <2>2
<1>6. /\ One(pc[Worker(i)] = "put") \in Nat /\ One(Unseen(i)) \in Nat
      /\ pc[Worker(i)] = "get" => One(pc[Worker(i)] = "put") = 0 /\ One(Unseen(i)) = 0
  BY DEF One, Unseen, Turning, Flushing
<1> QED
  <2>1. PICK a, b : a = One(pc[Worker(i)] = "put") /\ b = One(Unseen(i))
    OBVIOUS
  <2>2. /\ a \in Nat /\ b \in Nat /\ m - p = a /\ g - m <= w + t + b
        /\ w + t + a + b <= Delay[i] + 1 /\ w <= Delay[i]
        /\ pc[Worker(i)] = "get" => a = 0 /\ b = 0 /\ t = 0
    BY <1>3, <1>4, <1>5, <1>6, <2>1
  <2> QED
    BY ONLY <1>0, <1>2, <2>2

\* The places between the source and the consumer: in the channels, in the operations,
\* in the publishers' hands, and one hand at each end.
Bounds == [c \in Chan |-> Capacity(c)]
Windows == [i \in Stage |-> Delay[i] + 1]
Room == Total(Windows) + Total(Bounds) + N + 2

\* What was delivered last is a mark.
LEMMA LastSeenMark == TypeInv => LastSeen \in Mark
<1> SUFFICES ASSUME TypeInv, delivered # <<>> PROVE delivered[Len(delivered)].unit \in Unit
  BY MarksOK DEF LastSeen
<1>1. delivered \in Seq([unit : Unit, bnds : Seq(Unit)])
  BY DEF TypeInv, TypeOK, ResultOK
<1>2. delivered[Len(delivered)] \in [unit : Unit, bnds : Seq(Unit)]
  BY <1>1, LastIn
<1> QED
  BY <1>2

\* What the consumer got last.
LEMMA ConsumerSpan ==
  ASSUME GraphInv, EndsInv, KeepEverything, ~cancelled, pc[Source] \in {"next", "put"},
         NEW g \in Mark, AtTerminal(g)
  PROVE  g - LastSeen <= 1 \/ LastSeen >= NumUnits
<1>0. /\ TypeInv /\ Labels /\ InHand /\ Phases /\ LastSeen \in Mark /\ LastSeen \in Int /\ g \in Int /\ N \in 0..N
      /\ Source \in Thread /\ Source # Main /\ Main \in Thread /\ N \in Nat
      /\ (~Running => pc[Source] \in {"new", "done"})
  BY LastSeenMark, MarksOK, GraphConstants, Threads DEF GraphInv, TypeInv, OutcomeInv, QuietInv
<1>1. pc[Main] \notin {"new", "closing", "join", "drain", "closed"}
  BY <1>0 DEF Phases, Running, EndsInv, Spent
<1>2. pc[Main] \in {"idle", "get", "wait", "raise"}
  BY <1>0, <1>1 DEF Labels
<1>3. CASE pc[Sink] \in {"new", "top", "get", "stop"} \/ pc[Main] \in {"idle", "get"}
  BY <1>0, <1>3 DEF AtTerminal
<1>4. CASE pc[Sink] = "consume"
  <2>1. cur[Sink] \in Envelope /\ g = cur[Sink].unit /\ Follows(cur[Sink], LastSeen, N)
    BY <1>0, <1>4 DEF AtTerminal, InHand
  <2> QED
    BY <1>0, <2>1, NextUnit
<1>5. CASE pc[Main] = "wait" /\ pc[Sink] \in {"finally", "done"}
  <2>1. \A u \in Unit : ~(LastSeen < u)
    BY <1>0, <1>5, NothingSwallowed DEF AtTerminal, Over
  <2>2. NumUnits \in Nat /\ Unit = 1..NumUnits /\ LastSeen \in 0..NumUnits
    BY <1>0, GraphConstants DEF Unit, Mark
  <2>3. NumUnits # 0 => NumUnits \in Unit
    BY <2>2
  <2> QED
    BY <2>1, <2>2, <2>3
<1>6. pc[Sink] # "closing"
  BY <1>0, Threads DEF Phases
<1>7. CASE pc[Main] = "raise"
  <2>1. PICK e \in Envelope : g = e.unit /\ Follows(e, LastSeen, N)
    BY <1>7 DEF AtTerminal
  <2> QED
    BY <1>0, <2>1, NextUnit
<1> QED
  BY <1>0, <1>2, <1>3, <1>4, <1>5, <1>6, <1>7 DEF Labels

\* Until the run is cancelled the units between the source and the consumer have their
\* places, and one is free when the source has none in its hand, when the first channel
\* has room, or when the first operation waits for a unit.
LEMMA InFlight ==
  ASSUME GraphInv, HoldInv, EndsInv, KeepEverything, N # 0, ~cancelled,
         pc[Source] \in {"next", "put"}
  PROVE  /\ next - 1 - LastSeen <= Room
         /\ pc[Source] = "next" \/ Len(chan[0]) < Capacity(0) \/ pc[Worker(1)] = "get"
              => next - 1 - LastSeen <= Room - 1
<1>0. /\ TypeInv /\ InHand /\ ChannelsOK /\ Labels /\ OutcomeInv /\ N \in Nat /\ next \in Int
      /\ next <= NumUnits + 1 /\ NumUnits \in Nat /\ LastSeen \in Mark /\ LastSeen \in Int
      /\ (\A c \in Chan : Capacity(c) \in Nat)
      /\ (~Running => pc[Source] \in {"new", "done"})
  BY GraphConstants, Threads, LastSeenMark, LastSeenTyped, Capacities
  DEF GraphInv, TypeInv, TypeOK, ThreadsOK, QuietInv
<1>1. Running /\ ~Spent(Source)
  BY <1>0 DEF Spent
<1>2. PICK made \in [0..N -> Mark], sent \in [0..N -> Mark], got \in [1..(N + 1) -> Mark],
           pend \in [Stage -> Mark], took \in [Stage -> Mark] :
        InLine(made, pend, took, sent, got)
  BY <1>1 DEF GraphInv, OrderInv
<1>3. /\ \A c \in Edge : ~EosIn(c)
      /\ \A i \in Stage : ~EosIn(PendingOf(i)) /\ cur[Courier(i)] # EOS
  <2>1. 0 \in 0..N /\ Actor(0) = Source
    BY <1>0 DEF Actor
  <2>2. NoEosFrom(0)
    BY <1>0, <1>1, <2>1, EosIsBehind
  <2> QED
    BY <1>0, <2>2 DEF NoEosFrom, Edge, Stage
<1>4. \A i \in Stage : Alive(Worker(i)) /\ Alive(Courier(i)) /\ HoldsFew(i)
  BY <1>1 DEF EndsInv, Spent, Alive, HoldInv
<1>5. \A m \in Mark : m \in Int
  BY MarksOK
<1>6. /\ made[0] = next - 1 /\ made[0] - sent[0] <= One(pc[Source] = "put")
      /\ 0 \in 0..N /\ made[0] \in Int /\ sent[0] \in Mark /\ sent[0] \in Int
  <2>1. 0 \in 0..N /\ made[0] \in Int /\ sent[0] \in Mark /\ sent[0] \in Int
    <3>1. 0 \in 0..N
      BY <1>0
    <3>2. made \in [0..N -> Mark] /\ sent \in [0..N -> Mark]
      BY <1>2
    <3>3. made[0] \in Mark /\ sent[0] \in Mark
      BY <3>1, <3>2
    <3> QED
      BY <1>5, <3>1, <3>3
  <2>2. next = made[0] + 1 /\ Hand(Source, made[0], sent[0], 0) /\ Alive(Source)
    BY <1>1, <1>2 DEF InLine, AtSource, Spent, Alive
  <2>3. CASE pc[Source] = "put" /\ cur[Source] # EOS
    <3>1. cur[Source] \in Envelope /\ made[0] = cur[Source].unit /\ Follows(cur[Source], sent[0], 0)
      BY <1>0, <2>2, <2>3 DEF Hand, InHand, Message
    <3>2. made[0] = sent[0] + 1
      BY <2>1, <3>1, NextUnit
    <3> QED
      BY <1>0, <2>1, <2>2, <2>3, <3>2 DEF One
  <2>4. CASE ~(pc[Source] = "put" /\ cur[Source] # EOS)
    <3>1. made[0] = sent[0]
      BY <2>2, <2>4 DEF Hand
    <3> QED
      BY <1>0, <2>1, <2>2, <3>1 DEF One
  <2> QED
    BY <2>3, <2>4
<1>7. ASSUME NEW c \in Edge
      PROVE  /\ sent[c] \in Int /\ got[c + 1] \in Int /\ Len(chan[c]) \in Nat
             /\ sent[c] - got[c + 1] = Len(chan[c]) /\ Len(chan[c]) <= Capacity(c)
  <2>1. /\ c \in 0..N /\ c + 1 \in 1..(N + 1) /\ c \in Chan
        /\ chan[c] \in Seq(Message) /\ Len(chan[c]) <= Capacity(c)
    BY <1>0, ChannelPlaces DEF Edge, ChannelsOK
  <2>2. sent[c] \in Mark /\ got[c + 1] \in Mark
    BY <1>2, <2>1
  <2>3. Chain(chan[c], got[c + 1], sent[c], c)
    BY <1>2 DEF InLine, Flows
  <2>4. \A k \in DOMAIN chan[c] : chan[c][k] # EOS
    BY <1>3 DEF EosIn
  <2>5. sent[c] = got[c + 1] + Len(chan[c])
    BY <2>1, <2>2, <2>3, <2>4, ChainLength
  <2> QED
    BY <1>5, <2>1, <2>2, <2>5
<1>8. ASSUME NEW i \in Stage
      PROVE  /\ pend[i] \in Int /\ took[i] \in Int
             /\ pend[i] - took[i] <= Capacity(N + i)
  <2>0. N + i \in Chan /\ PendingOf(i) = N + i /\ i \in 0..N
    BY <1>0, <1>8 DEF PendingOf, Stage, Chan
  <2>1. /\ chan[N + i] \in Seq(Message) /\ Len(chan[N + i]) <= Capacity(N + i)
        /\ Len(chan[N + i]) \in Nat /\ Capacity(N + i) \in Nat
    BY <1>0, <2>0 DEF ChannelsOK
  <2>2. pend[i] \in Mark /\ took[i] \in Mark
    BY <1>2
  <2>3. Chain(chan[N + i], took[i], pend[i], i)
    BY <1>2, <1>8, <2>0 DEF InLine, Flows
  <2>4. \A k \in DOMAIN chan[N + i] : chan[N + i][k] # EOS
    BY <1>3, <1>8, <2>0 DEF EosIn
  <2>5. pend[i] = took[i] + Len(chan[N + i])
    BY <2>0, <2>1, <2>2, <2>3, <2>4, ChainLength
  <2> QED
    <3>1. PICK a, b, c, d : a = pend[i] /\ b = took[i] /\ c = Len(chan[N + i]) /\ d = Capacity(N + i)
      OBVIOUS
    <3>2. a \in Int /\ b \in Int /\ c \in Nat /\ d \in Nat /\ c <= d /\ a = b + c
      BY <1>5, <2>1, <2>2, <2>5, <3>1
    <3>3. a - b <= d
      BY ONLY <3>2
    <3> QED
      BY <3>1, <3>2, <3>3
<1>9. ASSUME NEW i \in Stage PROVE took[i] - sent[i] <= 1
  <2>0. i \in 0..N
    BY <1>0, <1>9 DEF Stage
  <2>1. /\ i \in 0..N /\ took[i] \in Mark /\ sent[i] \in Mark
        /\ took[i] \in Int /\ sent[i] \in Int
    BY <1>2, <1>5, <1>9, <2>0
  <2>2. Hand(Courier(i), took[i], sent[i], i) /\ Alive(Courier(i))
    BY <1>2, <1>4 DEF InLine
  <2>3. CASE pc[Courier(i)] = "put"
    <3>1. /\ cur[Courier(i)] \in Envelope /\ took[i] = cur[Courier(i)].unit
          /\ Follows(cur[Courier(i)], sent[i], i)
      BY <1>0, <1>3, <2>2, <2>3 DEF Hand, InHand, Message
    <3>2. took[i] = sent[i] + 1
      BY <2>1, <3>1, NextUnit
    <3> QED
      BY <2>1, <3>2
  <2>4. CASE pc[Courier(i)] # "put"
    BY <2>1, <2>2, <2>4 DEF Hand
  <2> QED
    BY <2>3, <2>4
<1>10. ASSUME NEW i \in Stage
       PROVE  /\ got[i] \in Int /\ got[i] - pend[i] <= Delay[i] + 1 /\ Delay[i] \in Nat
              /\ pc[Worker(i)] = "get" => got[i] - pend[i] <= Delay[i]
  <2>1. /\ got[i] \in Mark /\ made[i] \in Mark /\ pend[i] \in Mark /\ Delay[i] \in Nat
    BY <1>0, <1>2, GraphConstants DEF Stage
  <2>2. Inside(i, got[i], made[i], pend[i])
    BY <1>2 DEF InLine
  <2> QED
    BY <1>0, <1>4, <1>5, <2>1, <2>2, StageSpan
<1>11. got[N + 1] \in Int /\ (got[N + 1] - LastSeen <= 1 \/ LastSeen >= NumUnits)
  <2>1. got[N + 1] \in Mark /\ AtTerminal(got[N + 1])
    BY <1>0, <1>2 DEF InLine
  <2> QED
    BY <1>5, <2>1, ConsumerSpan
<1>12. PICK slack \in {0, 1} : slack = One(pc[Worker(1)] = "get")
  BY DEF One
<1>13. /\ Total(Windows) \in Nat /\ Total(Bounds) \in Nat
       /\ (got[1] + slack) - got[N + 1] <= Total(Windows) + (Total(Bounds) - Capacity(0)) + N
  <2> DEFINE g == [k \in 1..(N + 1) |-> IF k = 1 THEN got[1] + slack ELSE got[k]]
  <2>1. /\ 1 \in Stage /\ 1 \in 1..(N + 1) /\ N + 1 \in 1..(N + 1) /\ N + 1 # 1 /\ 0 \in Chan
        /\ \A i \in Stage : i \in 1..(N + 1) /\ i + 1 \in 1..(N + 1) /\ i + 1 # 1
        /\ \A i \in Stage : i \in Chan /\ N + i \in Chan
    BY <1>0 DEF Stage, Chan
  <2>2. g \in [1..(N + 1) -> Int]
    BY <1>2, <1>5, <2>1
  <2>3. Windows \in [Stage -> Nat] /\ Bounds \in [Chan -> Nat]
    BY <1>0, <1>10 DEF Windows, Bounds
  <2>4. ASSUME NEW i \in Stage PROVE g[i] - g[i + 1] <= Windows[i] + Bounds[N + i] + Bounds[i] + 1
    <3>1. PICK a, b, c, d, e, r, q, s : /\ a = got[i] /\ b = pend[i] /\ c = took[i] /\ d = sent[i]
                                     /\ e = got[i + 1] /\ r = Delay[i] /\ q = Capacity(N + i)
                                     /\ s = Capacity(i)
      OBVIOUS
    <3>2. i \in Edge
      BY ChannelPlaces
    <3>3. /\ a \in Int /\ b \in Int /\ c \in Int /\ d \in Int /\ e \in Int /\ r \in Nat
          /\ q \in Nat /\ s \in Nat
          /\ a - b <= r + 1 /\ b - c <= q /\ c - d <= 1 /\ d - e <= s
      <4>1. q \in Nat /\ s \in Nat
        BY <1>0, <2>1, <3>1
      <4>2. d \in Int /\ e \in Int /\ d - e <= s
        <5>1. d - e = Len(chan[i]) /\ Len(chan[i]) <= s /\ d \in Int /\ e \in Int
          BY <1>7, <3>1, <3>2
        <5> QED
          BY <5>1
      <4> QED
        BY <1>8, <1>9, <1>10, <3>1, <4>1, <4>2
    <3>4. i = 1 /\ slack = 1 => a - b <= r
      BY <1>10, <1>12, <3>1 DEF One
    <3>5. /\ g[i] = (IF i = 1 THEN a + slack ELSE a) /\ g[i + 1] = e
          /\ Windows[i] = r + 1 /\ Bounds[N + i] = q /\ Bounds[i] = s
      BY <2>1, <3>1 DEF Windows, Bounds
    <3> HIDE DEF g
    <3>6. CASE i = 1
      BY <1>12, <3>3, <3>4, <3>5, <3>6
    <3>7. CASE i # 1
      BY <3>3, <3>5, <3>7
    <3> QED
      BY <3>6, <3>7
  <2>5. g[1] = got[1] + slack /\ g[N + 1] = got[N + 1] /\ Bounds[0] = Capacity(0)
    BY <2>1 DEF Bounds
  <2> HIDE DEF g
  <2> QED
    BY <2>2, <2>3, <2>4, <2>5, Telescope
<1> QED
  <2>1. 0 \in Edge /\ 0 + 1 = 1
    BY ChannelPlaces
  <2>2. PICK a, b, c, d, e, h, k, t, u : /\ a = next - 1 /\ b = sent[0] /\ c = got[1]
                                         /\ d = got[N + 1] /\ e = LastSeen
                                         /\ h = One(pc[Source] = "put") /\ k = Len(chan[0])
                                         /\ t = Total(Windows) /\ u = Total(Bounds)
    OBVIOUS
  <2>3. PICK z : z = Capacity(0)
    OBVIOUS
  <2>4. /\ b - c = k /\ k <= z /\ k \in Nat /\ b \in Int /\ c \in Int
    BY <1>7, <2>1, <2>2, <2>3
  <2>5. z \in Nat
    BY <1>0, <2>1, <2>3, ChannelPlaces
  <2>6. /\ a \in Int /\ d \in Int /\ e \in Int /\ t \in Nat /\ u \in Nat /\ h \in {0, 1}
        /\ a - b <= h /\ (c + slack) - d <= t + (u - z) + N
        /\ d - e <= 1 \/ e >= a
        /\ pc[Source] = "next" => h = 0
    <3>1. a \in Int /\ e \in Int /\ (e >= NumUnits => e >= a)
      BY <1>0, <2>2
    <3>2. d \in Int /\ (d - e <= 1 \/ e >= NumUnits)
      BY <1>11, <2>2
    <3>3. t \in Nat /\ u \in Nat /\ (c + slack) - d <= t + (u - z) + N
      BY <1>13, <2>2, <2>3
    <3>4. h \in {0, 1} /\ (pc[Source] = "next" => h = 0)
      BY <2>2 DEF One
    <3>5. a - b <= h
      BY <1>6, <2>2
    <3> QED
      BY <3>1, <3>2, <3>3, <3>4, <3>5
  <2>7. Room = t + u + N + 2
    BY <2>2 DEF Room
  <2>8. pc[Worker(1)] = "get" => slack = 1
    BY <1>12 DEF One
  <2>9. PICK o : o = pc[Source] /\ (pc[Worker(1)] = "get" => slack = 1) /\ (o = "next" => h = 0)
    BY <2>6, <2>8
  <2>10. /\ a - e <= t + u + N + 2
         /\ h = 0 \/ k < z \/ slack = 1 => a - e <= t + u + N + 1
    BY ONLY <1>0, <1>12, <2>4, <2>5, <2>6
  <2>11. Room \in Int
    BY <1>0, <2>6, <2>7
  <2> QED
    <3>1. Room - 1 = t + u + N + 1
      BY <1>0, <2>6, <2>7
    <3> QED
      BY <2>2, <2>3, <2>6, <2>7, <2>8, <2>10, <3>1

-----------------------------------------------------------------------------
(* The invariant and the theorem *)

\* What is between the source and the consumer has its places, and still has them when
\* the cancelled source takes or queues one unit more.
InPlaces ==
  /\ pc[Source] = "next" => next - 1 - LastSeen <= Room - 1
  /\ pc[Source] = "put" =>
       \/ next - 1 - LastSeen <= Room - 1
       \/ Len(chan[0]) = Capacity(0) /\ pc[Worker(1)] # "get"
CaptureInv == next - 1 - LastSeen <= Room /\ (cancelled => InPlaces)

\* Before a cancellation there is a place for every unit as well.
LEMMA PlacesForAll ==
  ASSUME GraphInv, HoldInv, EndsInv, CaptureInv, KeepEverything, N # 0 PROVE InPlaces
<1>1. CASE cancelled
  BY <1>1 DEF CaptureInv
<1>2. CASE ~cancelled /\ pc[Source] \in {"next", "put"}
  <2>1. Len(chan[0]) \in Nat /\ Capacity(0) \in Nat /\ Len(chan[0]) <= Capacity(0)
    BY ChannelPlaces, Capacities DEF GraphInv, TypeInv, TypeOK, ChannelsOK
  <2>2. pc[Source] = "next" \/ Len(chan[0]) < Capacity(0) \/ pc[Worker(1)] = "get"
          => next - 1 - LastSeen <= Room - 1
    BY <1>2, InFlight
  <2>3. Len(chan[0]) < Capacity(0) \/ Len(chan[0]) = Capacity(0)
    BY <2>1
  <2> QED
    BY <2>2, <2>3 DEF InPlaces
<1>3. CASE pc[Source] \notin {"next", "put"}
  BY <1>3 DEF InPlaces
<1> QED
  BY <1>1, <1>2, <1>3

\* What was delivered last only grows.
LEMMA LastSeenGrows ==
  ASSUME GraphInv, GraphInv', [Next]_vars
  PROVE  LastSeen \in Int /\ LastSeen' \in Int /\ LastSeen <= LastSeen'
<1>1. LastSeen \in Int
  BY LastSeenTyped DEF GraphInv
<1>2. CASE delivered' = delivered
  BY <1>1, <1>2 DEF LastSeen
<1>3. CASE delivered' # delivered
  <2>1. Contract!Deliver
    BY <1>3, StepsKeepContract DEF Contract!Next, Contract!End, Contract!Stop
  <2> DEFINE S == [unit : Unit, bnds : Seq(Unit)]
             n == Len(delivered)
             new == delivered'[n + 1]
  <2>2. delivered \in Seq(S) /\ delivered' \in Seq(S)
    BY DEF GraphInv, TypeInv, TypeOK, ResultOK
  <2>3. Len(delivered') = n + 1 /\ new.unit \in Contract!Remaining /\ n \in Nat
    BY <2>1, <2>2 DEF Contract!Deliver
  <2>4. new.unit \in Unit /\ new.unit > LastSeen
    BY <2>3 DEF Contract!Remaining, Contract!Last, LastSeen
  <2>5. LastSeen' = new.unit
    <3>1. delivered' # <<>>
      BY <2>2, <2>3
    <3> QED
      BY <2>3, <3>1 DEF LastSeen
  <2> HIDE DEF new, n, S
  <2>6. new.unit \in Int
    BY <2>4, MarksOK
  <2> QED
    BY <1>1, <2>4, <2>5, <2>6
<1> QED
  BY <1>2, <1>3

\* While the source has a unit in its hand, the first channel loses one only to a
\* first operation that waits for it, and no operation waits for one once cancelled.
LEMMA FirstChannel ==
  ASSUME GraphInv, N # 0, [Next]_vars, ~SourceStep, cancelled', pc[Source] = "put",
         pc[Worker(1)] # "get"
  PROVE  chan'[0] = chan[0] /\ pc'[Worker(1)] # "get"
<1>0. /\ TypeInv /\ ThreadsOK /\ ChannelsOK /\ Phases /\ Running /\ pc[Main] # "new"
      /\ 1 \in Stage /\ 0 \in Chan /\ 0 # N /\ Worker(1) \in Thread /\ Worker(1) # Main
      /\ pc[Source] # "new" /\ Source \in Thread \ {Main} /\ N \in Chan
  <2>1. TypeInv /\ ThreadsOK /\ ChannelsOK /\ Phases /\ QuietInv
    BY DEF GraphInv, TypeInv, TypeOK, OutcomeInv
  <2>2. 1 \in Stage /\ 0 \in Chan /\ 0 # N /\ N \in Chan
    BY GraphConstants DEF Stage, Chan
  <2>3. Source \in Thread \ {Main} /\ Worker(1) \in Thread /\ Worker(1) # Main
    BY <2>2, Threads
  <2> QED
    BY <2>1, <2>2, <2>3 DEF QuietInv, Phases
<1>1. ASSUME NEW i \in Stage, StageStep(i), i # 1 PROVE chan'[0] = chan[0] /\ pc'[Worker(1)] # "get"
  <2>1. 0 \in Chan \ {i - 1, PendingOf(i)}
    BY <1>0, <1>1, GraphConstants DEF Stage, PendingOf
  <2> QED
    BY <1>0, <1>1, <2>1, StageMoves DEF StageRests
<1>2. CASE StageStep(1)
  <2>1. PendingOf(1) # 0 /\ 1 - 1 = 0 /\ PendingOf(1) \in Chan
    BY <1>0, GraphConstants, ChannelPlaces DEF PendingOf
  <2>2. ~StageGetEos(1) /\ ~StageGetUnit(1) /\ ~StageGetClosed(1)
    BY DEF StageGetEos, StageGetUnit, StageGetClosed
  <2>3. CASE StageTop(1)
    BY <1>0, <2>3 DEF StageTop, Move, Goto, others, supervision, ThreadsOK
  <2>4. CASE StagePut(1)
    BY <1>0, <2>1, <2>4 DEF StagePut, Enqueue, Goto, ThreadsOK, ChannelsOK
  <2>5. CASE StagePutEos(1)
    BY <1>0, <2>1, <2>5 DEF StagePutEos, Enqueue, Goto, ThreadsOK, ChannelsOK
  <2>6. CASE StageReset(1) \/ StageProcess(1) \/ StageTurn(1) \/ StageEmit(1) \/ StagePutRefused(1)
    BY <1>0, <2>6 DEF StageReset, StageProcess, StageTurn, StageEmit, StagePutRefused, Move, others,
       Goto, ThreadsOK
  <2>7. CASE AfterPublish(1)
    <3>1. kind[1] \in {"process", "boundary", "eos"}
      BY <1>0 DEF TypeInv, TypeOK, StagesOK
    <3> QED
      BY <1>0, <2>7, <3>1 DEF AfterPublish, Goto, ThreadsOK
  <2>8. CASE StageSlotCancelled(1) \/ StageSettle(1) \/ StagePolls(1) \/ StageRelease(1)
             \/ StageFails(1) \/ CloseNext(Worker(1)) \/ Finally(Worker(1))
    BY <1>0, <2>8 DEF StageSlotCancelled, StageSettle, StagePolls, StageRelease, StageFails,
       CloseNext, Finally, Move, Goto, Fail, others, vars, ThreadsOK
  <2> QED
    BY <1>2, <2>2, <2>3, <2>4, <2>5, <2>6, <2>7, <2>8 DEF StageStep
<1>3. ASSUME NEW i \in Stage, CourierStep(i) PROVE chan'[0] = chan[0] /\ pc'[Worker(1)] # "get"
  <2>1. 0 \in Chan \ {i, PendingOf(i)}
    BY <1>0, <1>3, GraphConstants DEF Stage, PendingOf
  <2> QED
    BY <1>0, <1>3, <2>1, CourierMoves DEF StageRests
<1>4. CASE SinkStep
  BY <1>0, <1>4, SinkMoves DEF StageRests
<1>5. CASE MainStep \/ MainFails \/ Close
  <2>1. ~Start /\ ~StartFails /\ (\A c \in Chan : ~Drain(c))
    BY <1>0 DEF Start, StartFails, Drain, Running
  <2> QED
    BY <1>0, <1>5, <2>1 DEF MainStep, MainFails, HostPull, HostGetUnit, HostUnitFails,
       HostRaises, HostInterrupted, HostGetEos, HostGetClosed, WaitReturns, CloseNext, Join,
       DropTerminal, CloseAll, Close, Move, Goto, Cancel, Fail, Dequeue, ThreadsOK, ChannelsOK,
       others
<1>6. CASE Finished \/ UNCHANGED vars
  BY <1>6 DEF Finished, vars, others
<1> QED
  BY <1>1, <1>2, <1>3, <1>4, <1>5, <1>6 DEF Next

\* The sums are numbers, and one place at each stage makes N of them.
LEMMA SumsTyped ==
  /\ Total(Windows) \in Nat /\ Total(Bounds) \in Nat /\ Total(PendingCap) \in Nat
  /\ Total(Native) \in Nat /\ Total(PendingCap) >= N
<1>0. N \in Nat /\ Stage = 1..N
  BY GraphConstants DEF Stage
<1>1. /\ Windows \in [Stage -> Nat] /\ Bounds \in [Chan -> Nat] /\ PendingCap \in [Stage -> Nat]
      /\ \A i \in Stage : PendingCap[i] \in Nat /\ PendingCap[i] >= 1
  BY GraphConstants, Capacities DEF Windows, Bounds
<1>2. ASSUME NEW r \in [Stage -> Nat] PROVE Total(r) \in Nat /\ Total(Bounds) \in Nat
  <2> DEFINE g == [k \in 1..(N + 1) |-> 0]
  <2>1. g \in [1..(N + 1) -> Int]
    OBVIOUS
  <2>2. ASSUME NEW i \in Stage
        PROVE  g[i] - g[i + 1] <= r[i] + Bounds[N + i] + Bounds[i] + 1
    <3>1. i \in 1..(N + 1) /\ i + 1 \in 1..(N + 1) /\ i \in Chan /\ N + i \in Chan
      BY <1>0, <2>2 DEF Chan
    <3>2. /\ g[i] = 0 /\ g[i + 1] = 0
          /\ r[i] \in Nat /\ Bounds[N + i] \in Nat /\ Bounds[i] \in Nat
      BY <1>1, <1>2, <2>2, <3>1
    <3> HIDE DEF g
    <3> QED
      BY <3>2
  <2> HIDE DEF g
  <2> QED
    BY <1>1, <1>2, <2>1, <2>2, Telescope
<1>3. Total(PendingCap) \in Nat /\ Total(PendingCap) >= N
  <2> DEFINE g == [k \in 1..(N + 1) |-> 0 - 2 * k]
             q == [c \in Chan |-> 0]
  <2>1. g \in [1..(N + 1) -> Int] /\ q \in [Chan -> Nat]
    BY <1>0
  <2>2. ASSUME NEW i \in Stage
        PROVE  g[i] - g[i + 1] <= PendingCap[i] + q[N + i] + q[i] + 1
    <3>1. i \in 1..(N + 1) /\ i + 1 \in 1..(N + 1) /\ i \in Chan /\ N + i \in Chan /\ i \in Int
      BY <1>0, <2>2 DEF Chan
    <3>2. /\ g[i] = 0 - 2 * i /\ g[i + 1] = 0 - 2 * (i + 1) /\ q[N + i] = 0 /\ q[i] = 0
          /\ PendingCap[i] \in Nat /\ PendingCap[i] >= 1
      BY <1>1, <2>2, <3>1
    <3> HIDE DEF g, q
    <3> QED
      BY <3>1, <3>2
  <2>3. /\ g[1] = 0 - 2 * 1 /\ g[N + 1] = 0 - 2 * (N + 1) /\ q[0] = 0
    BY <1>0 DEF Chan
  <2> HIDE DEF g, q
  <2>4. /\ Total(PendingCap) \in Nat /\ Total(q) \in Nat
        /\ g[1] - g[N + 1] <= Total(PendingCap) + (Total(q) - q[0]) + N
    BY <1>1, <2>1, <2>2, Telescope
  <2>5. Total(q) = 0
    <3>1. \A c \in DOMAIN q : {c} \X (1..q[c]) = {}
      BY DEF q
    <3>2. UNION {{c} \X (1..q[c]) : c \in DOMAIN q} = {}
      BY <3>1
    <3> QED
      BY <3>2, FS_EmptySet DEF Total
  <2> QED
    BY <1>0, <2>3, <2>4, <2>5
<1>4. Total(Windows) \in Nat /\ Total(Native) \in Nat /\ Total(Bounds) \in Nat
  BY <1>1, <1>2, NativeSlots
<1> QED
  BY <1>3, <1>4

\* Every step keeps the places.
LEMMA NextCapture ==
  ASSUME GraphInv, GraphInv', HoldInv, EndsInv, CaptureInv, KeepEverything, N # 0, [Next]_vars
  PROVE  CaptureInv'
<1>0. /\ TypeInv /\ ThreadsOK /\ Phases /\ Source \in Thread /\ Source # Main /\ next \in Int
      /\ InPlaces /\ LastSeen \in Int /\ LastSeen' \in Int /\ LastSeen <= LastSeen'
      /\ next - 1 - LastSeen <= Room
  <2>1. InPlaces
    BY PlacesForAll
  <2>2. LastSeen \in Int /\ LastSeen' \in Int /\ LastSeen <= LastSeen'
    BY LastSeenGrows
  <2>3. next \in Int
    BY GraphConstants DEF GraphInv, TypeInv, TypeOK, ThreadsOK
  <2> QED
    BY <2>1, <2>2, <2>3, Threads DEF GraphInv, TypeInv, TypeOK, OutcomeInv, CaptureInv
<1>1. Room \in Int /\ Room' = Room /\ Capacity(0)' = Capacity(0)
  BY SumsTyped, GraphConstants DEF Room, Capacity
<1>2. CASE SourceStep
  <2>1. LastSeen' = LastSeen
    BY <1>0, <1>2, SourceMoves DEF TerminalRests, LastSeen
  <2>2. CASE SourceNext
    <3>1. next' = next + 1 /\ pc[Source] = "next" /\ (cancelled' => pc'[Source] = "finally")
      BY <1>0, <2>2 DEF SourceNext, Goto, ThreadsOK, supervision
    <3>2. next' - 1 - LastSeen' <= Room
      BY <1>0, <1>1, <2>1, <3>1 DEF InPlaces
    <3> QED
      BY <1>1, <3>1, <3>2 DEF CaptureInv, InPlaces
  <2>3. CASE SourceExhausted
    <3>1. next' = next /\ pc[Source] = "next" /\ pc'[Source] = "put"
      BY <1>0, <2>3 DEF SourceExhausted, Goto, ThreadsOK
    <3> QED
      BY <1>0, <1>1, <2>1, <3>1 DEF CaptureInv, InPlaces
  <2>4. CASE SourcePut
    <3>1. next' = next /\ pc[Source] = "put" /\ pc'[Source] # "put" /\ Len(chan[0]) < Capacity(0)
      BY <1>0, <2>4 DEF SourcePut, CanPut, Goto, ThreadsOK
    <3>2. Len(chan[0]) # Capacity(0)
      BY <1>0, <3>1, ChannelPlaces, Capacities DEF TypeInv, TypeOK, ChannelsOK
    <3> QED
      BY <1>0, <1>1, <2>1, <3>1, <3>2 DEF CaptureInv, InPlaces
  <2>5. CASE SourceRefused \/ SourceFails \/ CloseNext(Source) \/ Finally(Source)
    <3>1. next' = next /\ pc'[Source] \notin {"next", "put"}
      BY <1>0, <2>5 DEF SourceRefused, SourceFails, CloseNext, Finally, Move, Goto, Fail, others,
         ThreadsOK
    <3> QED
      BY <1>0, <1>1, <2>1, <3>1 DEF CaptureInv, InPlaces
  <2> QED
    BY <1>2, <2>2, <2>3, <2>4, <2>5 DEF SourceStep
<1>3. CASE ~SourceStep
  <2>1. next' = next
    <3>1. MainStep \/ MainFails \/ Close => next' = next
      BY DEF MainStep, MainFails, Start, StartFails, HostPull, HostGetUnit, HostUnitFails,
         HostRaises, HostInterrupted, HostGetEos, HostGetClosed, WaitReturns, CloseNext,
         Join, Drain, DropTerminal, CloseAll, Close, Move, others
    <3>2. Finished \/ UNCHANGED vars => next' = next
      BY DEF Finished, vars, others
    <3> QED
      BY <1>0, <1>3, <3>1, <3>2, StageMoves, CourierMoves, SinkMoves DEF Next, SourceRests
  <2>2. /\ next' - 1 - LastSeen' <= Room
        /\ next - 1 - LastSeen <= Room - 1 => next' - 1 - LastSeen' <= Room - 1
    <3>1. PICK n, a, b, r : n = next /\ a = LastSeen /\ b = LastSeen' /\ r = Room
      OBVIOUS
    <3>2. n \in Int /\ a \in Int /\ b \in Int /\ r \in Int /\ a <= b /\ n - 1 - a <= r
      BY <1>0, <1>1, <3>1
    <3>3. n - 1 - b <= r /\ (n - 1 - a <= r - 1 => n - 1 - b <= r - 1)
      BY ONLY <3>2
    <3> QED
      BY <2>1, <3>1, <3>3
  <2>4. cancelled' => pc'[Source] = pc[Source]
    <3>1. CASE MainStep \/ MainFails \/ Close
      <4>1. ~(Start /\ cancelled')
        BY <1>0 DEF Start, Phases, others, supervision
      <4> QED
        BY <1>0, <3>1, <4>1 DEF MainStep, MainFails, HostPull, HostGetUnit, HostUnitFails,
           HostRaises, HostInterrupted, HostGetEos, HostGetClosed, WaitReturns, CloseNext,
           Join, Drain, DropTerminal, CloseAll, StartFails, Close, Move, Goto, Fail, Cancel,
           ThreadsOK, others
    <3>2. Finished \/ UNCHANGED vars => pc'[Source] = pc[Source]
      BY DEF Finished, vars
    <3> QED
      BY <1>0, <1>3, <3>1, <3>2, StageMoves, CourierMoves, SinkMoves DEF Next, SourceRests
  <2>5. ASSUME cancelled', pc[Source] = "put"
        PROVE  \/ next' - 1 - LastSeen' <= Room - 1
               \/ Len(chan'[0]) = Capacity(0) /\ pc'[Worker(1)] # "get"
    <3>1. CASE next - 1 - LastSeen <= Room - 1
      BY <2>2, <3>1
    <3>2. CASE Len(chan[0]) = Capacity(0) /\ pc[Worker(1)] # "get"
      BY <1>3, <2>5, <3>2, FirstChannel
    <3> QED
      BY <1>0, <2>5, <3>1, <3>2 DEF InPlaces
  <2>6. pc[Source] = "next" => next' - 1 - LastSeen' <= Room - 1
    BY <1>0, <2>2 DEF InPlaces
  <2> QED
    BY <1>1, <2>2, <2>4, <2>5, <2>6 DEF CaptureInv, InPlaces
<1> QED
  BY <1>2, <1>3

\* And the places are what the bound counts, but for the operations' hands and the
\* pending channels, which it counts once more.
LEMMA CaptureFits ==
  ASSUME TypeInv, CaptureInv, Prefix, KeepEverything, Context + N <= Total(PendingCap) + Total(Native) + 2
  PROVE  CaptureWithinLimit
<1>0. /\ N \in Nat /\ Context \in Nat /\ next \in Int /\ LastSeen \in Mark /\ LastSeen \in Int
      /\ LastSeen >= 0 /\ Total(Windows) \in Nat /\ Total(Bounds) \in Nat
      /\ Total(PendingCap) \in Nat /\ Total(Native) \in Nat /\ Total(PendingCap) >= N
  <2>1. N \in Nat /\ Context \in Nat
    BY GraphConstants, ContextIsPrefix
  <2>2. next \in Int
    BY GraphConstants DEF TypeInv, TypeOK, ThreadsOK
  <2>3. LastSeen \in Mark /\ LastSeen \in Int /\ LastSeen >= 0
    BY LastSeenMark, MarksOK
  <2> QED
    BY <2>1, <2>2, <2>3, SumsTyped
<1>1. CaptureLimit = Total(Windows) + Total(PendingCap) + Total(Native) + Total(Bounds) + 2 + 2
  BY DEF CaptureLimit, Windows, Bounds
<1>2. Keeps = Unit
  BY DEF Keeps, KeepEverything
<1> DEFINE outputs == {delivered[k].unit : k \in DOMAIN delivered} \ (1..Context)
<1>3. outputs = {u \in Unit : u <= LastSeen /\ ~(u <= Context)}
  BY <1>0, <1>2, GraphConstants DEF Prefix, Unit
<1>4. Paired = IF outputs = {} THEN 1 ELSE CHOOSE u \in outputs : \A v \in outputs : v <= u
  BY DEF Paired
<1> HIDE DEF outputs
<1>5. CASE LastSeen > Context
  <2>1. LastSeen \in outputs /\ \A v \in outputs : v <= LastSeen /\ v \in Int
    BY <1>0, <1>3, <1>5, GraphConstants, MarksOK DEF Unit, Mark
  <2>2. \A u \in outputs : (\A v \in outputs : v <= u) => u = LastSeen
    BY <1>0, <2>1
  <2>3. Paired = LastSeen
    BY <1>4, <2>1, <2>2
  <2> QED
    BY <1>0, <1>1, <2>3 DEF CaptureWithinLimit, CaptureInv, Room
<1>6. CASE LastSeen <= Context
  <2>1. outputs = {}
    BY <1>0, <1>3, <1>6, MarksOK
  <2>2. Paired = 1
    BY <1>4, <2>1
  <2> QED
    BY <1>0, <1>1, <1>6, <2>2 DEF CaptureWithinLimit, CaptureInv, Room
<1> QED
  BY <1>0, <1>5, <1>6

\* capture() never refuses a frame (run.py, the comparison tee): where the operations
\* swallow nothing, what lies between the source and the consumer fits the places the
\* bound counts, and the frames before the start of the run fit those it counts twice.
THEOREM CaptureIsBounded ==
  ASSUME KeepEverything, N # 0, Context + N <= Total(PendingCap) + Total(Native) + 2
  PROVE  Spec => []CaptureWithinLimit
<1>1. Init => EndInv /\ HoldInv /\ EndsInv /\ CaptureInv
  <2> SUFFICES ASSUME Init PROVE HoldInv /\ EndsInv /\ CaptureInv
    BY InitEnd
  <2>1. LastSeen = 0 /\ next = 1 /\ ~cancelled /\ finished = "no" /\ pc[Main] = "new"
    BY Threads DEF Init, LastSeen
  <2>2. EndsInv
    BY <2>1, Threads DEF Init, EndsInv, Spent
  <2>3. HoldInv
    BY GraphConstants, Threads DEF Init, HoldInv, HoldsFew, Fits, Busy, One
  <2>4. CaptureInv
    BY <2>1, SumsTyped, GraphConstants DEF CaptureInv, Room
  <2> QED
    BY <2>2, <2>3, <2>4
<1>2. GraphInv /\ GraphInv' /\ (EndInv /\ HoldInv /\ EndsInv /\ CaptureInv) /\ [Next]_vars
        => (EndInv /\ HoldInv /\ EndsInv /\ CaptureInv)'
  BY NextEnd, NextHold, NextEnds, NextCapture
<1>3. GraphInv /\ EndInv /\ CaptureInv => CaptureWithinLimit
  BY CaptureFits DEF GraphInv, EndInv
<1> QED
  BY <1>1, <1>2, <1>3, GraphCorrect, PTL DEF Spec
=============================================================================
