------------------------- MODULE StreamGraphProofs --------------------------
(***************************************************************************)
(* Theorems about the actor graph, for every number of operations, stream, *)
(* capacity and choice of failing actors: its types, and that a failure is *)
(* never reported as a complete stream.                                    *)
(*                                                                         *)
(* The end of the stream follows the last unit through the graph, so       *)
(* whoever receives it knows that every actor before it is past the point  *)
(* where it could fail; and a sink that stopped without it was stopped by  *)
(* a failure, by its consumer, or by the calling thread.                   *)
(***************************************************************************)
EXTENDS StreamGraphProps, TLAPS

\* Where each kind of thread can be.
Labels ==
  /\ pc[Source] \in {"new", "next", "put", "closing", "finally", "done"}
  /\ pc[Sink] \in {"new", "top", "get", "consume", "stop", "closing", "finally", "done"}
  /\ pc[Main] \in {"new", "idle", "get", "wait", "raise", "closing", "join", "drain", "closed"}
  /\ \A i \in Stage :
       /\ pc[Worker(i)] \in {"new", "top", "get", "reset", "process", "publish", "emit", "put",
                             "settle", "release", "eos", "closing", "finally", "done"}
       /\ pc[Courier(i)] \in {"new", "top", "get", "put", "finally", "done"}

\* What each thread has in its hands at the points where it uses it.
InHand ==
  /\ pc[Source] = "put" => cur[Source] \in Message
  /\ cur[Sink] \in Envelope \cup {None}
  /\ pc[Sink] = "consume" => cur[Sink] \in Envelope
  /\ \A i \in Stage :
       /\ pc[Courier(i)] = "put" => cur[Courier(i)] \in Message
       /\ pc[Worker(i)] \in {"reset", "process", "release", "settle"}
            => cur[Worker(i)] \in Envelope
       /\ pc[Worker(i)] \in {"publish", "emit", "put"} /\ kind[i] # "eos"
            => cur[Worker(i)] \in Envelope
       /\ pc[Worker(i)] = "put" => out[i] \in Envelope
       /\ pc[Worker(i)] \in {"reset", "settle"} => cur[Worker(i)].bnds # <<>>
       /\ pc[Worker(i)] \in {"publish", "emit", "put"} /\ kind[i] = "boundary"
            => cur[Worker(i)].bnds # <<>>

TypeInv == TypeOK /\ Labels /\ InHand

-----------------------------------------------------------------------------
(* The threads, and the operators the actions are built from *)

\* The threads are pairwise different.
LEMMA Threads ==
  /\ {Source, Sink, Main} \subseteq Thread
  /\ \A i \in Stage : Worker(i) \in Thread /\ Courier(i) \in Thread
  /\ Source # Sink /\ Source # Main /\ Sink # Main
  /\ \A i, j : /\ Worker(i) # Courier(j)
               /\ (Worker(i) = Worker(j) <=> i = j)
               /\ (Courier(i) = Courier(j) <=> i = j)
  /\ \A i : /\ Worker(i) # Source /\ Worker(i) # Sink /\ Worker(i) # Main
            /\ Courier(i) # Source /\ Courier(i) # Sink /\ Courier(i) # Main
BY DEF Thread, Workers, Couriers, Source, Sink, Main, Worker, Courier

\* Every thread is one of the three ends or belongs to a stage.
LEMMA ThreadCases ==
  \A t \in Thread : \/ t \in {Source, Sink, Main}
                    \/ \E i \in Stage : t = Worker(i) \/ t = Courier(i)
BY DEF Thread, Workers, Couriers

\* An envelope has a unit, its boundaries and a lease.
LEMMA Envelopes ==
  /\ \A e \in Envelope : e.unit \in Unit /\ e.bnds \in Seq(Unit) /\ e.lease \in Lease
BY DEF Envelope

\* Every channel has room for at least one message.
LEMMA Capacities == \A c \in Chan : Capacity(c) \in Nat \ {0}
<1> SUFFICES ASSUME NEW c \in Chan PROVE Capacity(c) \in Nat \ {0}
  OBVIOUS
<1>1. CASE c \in Edge
  BY <1>1, GraphConstants DEF Capacity
<1>2. CASE c \notin Edge
  <2>1. c - N \in Stage
    BY <1>2, GraphConstants DEF Chan, Edge, Stage
  <2> QED
    BY <1>2, <2>1, GraphConstants DEF Capacity
<1> QED
  BY <1>1, <1>2

\* A put keeps the channels within their bounds.
LEMMA EnqueueOK ==
  ASSUME ChannelsOK, NEW c \in Chan, NEW m \in Message, CanPut(c), Enqueue(c, m)
  PROVE  ChannelsOK'
<1>1. chan' \in [Chan -> Seq(Message)]
  BY DEF ChannelsOK, Enqueue
<1>2. \A d \in Chan : Len(chan'[d]) <= Capacity(d)
  BY Capacities DEF ChannelsOK, CanPut, Enqueue
<1> QED
  BY <1>1, <1>2 DEF ChannelsOK

\* A get takes a message out of a channel that has one.
LEMMA DequeueOK ==
  ASSUME ChannelsOK, NEW c \in Chan, HasItem(c), Dequeue(c)
  PROVE  ChannelsOK' /\ Head(chan[c]) \in Message
<1>1. chan[c] \in Seq(Message) /\ chan[c] # <<>>
  BY DEF ChannelsOK, HasItem
<1>2. Tail(chan[c]) \in Seq(Message) /\ Len(Tail(chan[c])) = Len(chan[c]) - 1
  BY <1>1
<1>3. chan' \in [Chan -> Seq(Message)]
  BY <1>2 DEF ChannelsOK, Dequeue
<1>4. \A d \in Chan : Len(chan'[d]) <= Capacity(d)
  BY <1>1, <1>2, Capacities DEF ChannelsOK, Dequeue
<1> QED
  BY <1>1, <1>3, <1>4 DEF ChannelsOK

\* Releasing and retaining keep the types of the counters.
LEMMA ReleaseOK ==
  ASSUME LeasesOK, NEW l \in Lease, Release(l)
  PROVE  refs' \in [Lease -> Int] /\ free' \in [Stage -> Int]
BY DEF LeasesOK, Release

\* Adding a handle keeps the counters integers.
LEMMA AddHandleOK ==
  ASSUME LeasesOK, NEW l \in Lease, AddHandle(l)
  PROVE  refs' \in [Lease -> Int]
BY DEF LeasesOK, AddHandle

\* The last of a sequence of units, and the oldest one.
LEMMA LastUnit ==
  ASSUME NEW b \in Seq(Unit), b # <<>>
  PROVE  b[Len(b)] \in 0..NumUnits
<1>1. Len(b) \in 1..Len(b)
  OBVIOUS
<1>2. b[Len(b)] \in Unit
  BY <1>1
<1> QED
  BY <1>2, GraphConstants DEF Unit

\* Beyond its delay a processor holds a unit it can yield.
LEMMA OldestHeld ==
  ASSUME NEW held \in Seq(Unit), NEW i \in Stage, Len(held) > Delay[i]
  PROVE  <<Head(held)>> \in Seq(Unit) /\ Tail(held) \in Seq(Unit)
<1>1. held # <<>>
  BY GraphConstants
<1> QED
  BY <1>1

\* A flush moves what the processor holds into its iterator.
LEMMA StartFlushOK ==
  ASSUME StagesOK, NEW i \in Stage, NEW why \in {"process", "boundary", "eos"},
         StartFlush(i, why)
  PROVE  StagesOK'
<1>1. <<>> \in Seq(Unit) /\ window[i] \in Seq(Unit)
  BY DEF StagesOK
<1> QED
  BY <1>1 DEF StagesOK, StartFlush

\* fail() and cancel() keep the supervisor's state typed.
LEMMA FailOK ==
  ASSUME SupervisionOK, NEW t \in Thread, Fail(t) \/ Cancel(t)
  PROVE  SupervisionOK'
<1>1. closing' \in [Thread -> 0..(2 * N + 1)]
  <2>1. 0 \in 0..(2 * N + 1)
    BY GraphConstants
  <2> QED
    BY <2>1 DEF SupervisionOK, Fail, Cancel
<1>2. closed' \subseteq Chan /\ cancelled' \in BOOLEAN /\ failed' \in BOOLEAN
  BY DEF SupervisionOK, Fail, Cancel
<1> QED
  BY <1>1, <1>2 DEF SupervisionOK

\* The channels a stage reads and writes.
LEMMA StageChannels ==
  ASSUME NEW i \in Stage
  PROVE  i - 1 \in Chan /\ PendingOf(i) \in Chan /\ i \in Chan /\ 0 \in Chan /\ N \in Chan
BY GraphConstants DEF Stage, Chan, PendingOf

\* The first and the last edge are channels.
LEMMA EndChannels == 0 \in Chan /\ N \in Chan
BY GraphConstants DEF Chan

-----------------------------------------------------------------------------
(* Every step keeps the types *)

\* Closing one more channel, or leaving fail() and cancel().
LEMMA CloseNextTyped ==
  ASSUME TypeInv, NEW t \in Thread, CloseNext(t) PROVE TypeInv'
<1> USE DEF TypeInv, TypeOK
<1>1. CASE CloseNext(t)
  <2>1. closing[t] \in Chan => closing[t] + 1 \in 0..(2 * N + 1)
    BY GraphConstants DEF Chan
  <2>2. closing[t] \in Chan => closing' \in [Thread -> 0..(2 * N + 1)]
    BY <1>1, <2>1 DEF CloseNext, SupervisionOK
  <2>3. ChannelsOK' /\ StagesOK' /\ LeasesOK' /\ ResultOK'
    BY <1>1 DEF CloseNext, others, supervision, stageState, result, ChannelsOK, StagesOK,
       LeasesOK, ResultOK
  <2>4. SupervisionOK'
    BY <1>1, <2>1, <2>2 DEF CloseNext, SupervisionOK
  <2>5. ThreadsOK'
    BY <1>1, Threads DEF CloseNext, ThreadsOK, Label, Goto
  <2>6. Labels'
    BY <1>1, Threads, ThreadCases DEF CloseNext, ThreadsOK, Labels, Goto
  <2>7. InHand'
    BY <1>1, Threads, ThreadCases DEF CloseNext, ThreadsOK, Labels, InHand, Goto, stageState
  <2> QED
    BY <2>3, <2>4, <2>5, <2>6, <2>7
<1> QED
  BY <1>1

\* The finally clause of a worker.
LEMMA FinallyTyped ==
  ASSUME TypeInv, NEW t \in Thread, Finally(t) PROVE TypeInv'
<1> USE DEF TypeInv, TypeOK
<1>1. CASE Finally(t)
  <2>1. cur[t] \notin {None, EOS} => cur[t].lease \in Lease
    BY <1>1, Envelopes DEF ThreadsOK, Message
  <2>2. ChannelsOK' /\ SupervisionOK' /\ StagesOK' /\ ResultOK'
    BY <1>1 DEF Finally, others, supervision, stageState, result, ChannelsOK, SupervisionOK,
       StagesOK, ResultOK
  <2>3. ThreadsOK'
    BY <1>1, Threads DEF Finally, ThreadsOK, Label, Goto
  <2>4. LeasesOK'
    BY <1>1, <2>1, ReleaseOK DEF Finally, LeasesOK
  <2>5. Labels'
    BY <1>1, Threads, ThreadCases DEF Finally, ThreadsOK, Labels, Goto
  <2>6. InHand'
    BY <1>1, Threads, ThreadCases DEF Finally, ThreadsOK, Labels, InHand, Goto, stageState
  <2> QED
    BY <2>2, <2>3, <2>4, <2>5, <2>6
<1> QED
  BY <1>1

\* The source actor.
LEMMA SourceTyped ==
  ASSUME TypeInv, SourceStep PROVE TypeInv'
<1> USE DEF TypeInv, TypeOK
<1>1. CASE SourceNext
  <2>1. next \in Unit
    BY <1>1, GraphConstants DEF SourceNext, ThreadsOK, Unit
  <2>2. <<0, next>> \in Lease
    BY <2>1, GraphConstants DEF Lease
  <2>3. SourceBnds(next) \in Seq(Unit)
    BY <2>1 DEF SourceBnds
  <2>4. Wrap(next, SourceBnds(next), <<0, next>>) \in Envelope
    BY <2>1, <2>2, <2>3 DEF Wrap, Envelope
  <2>5. ChannelsOK' /\ SupervisionOK' /\ StagesOK' /\ ResultOK'
    BY <1>1 DEF SourceNext, others, supervision, stageState, result, ChannelsOK,
       SupervisionOK, StagesOK, ResultOK
  <2>6. ThreadsOK'
    BY <1>1, <2>1, <2>4, GraphConstants, Threads DEF SourceNext, ThreadsOK, Label, Goto,
       Message, Unit
  <2>7. LeasesOK'
    BY <1>1, <2>2, AddHandleOK DEF SourceNext, LeasesOK
  <2>8. Labels'
    BY <1>1, Threads DEF SourceNext, ThreadsOK, Labels, Goto
  <2>9. InHand'
    BY <1>1, <2>4, Threads DEF SourceNext, ThreadsOK, InHand, Goto, Message, stageState
  <2> QED
    BY <2>5, <2>6, <2>7, <2>8, <2>9
<1>2. CASE SourceExhausted
  <2>1. ChannelsOK' /\ SupervisionOK' /\ StagesOK' /\ LeasesOK' /\ ResultOK'
    BY <1>2 DEF SourceExhausted, others, supervision, stageState, result, ChannelsOK,
       SupervisionOK, StagesOK, LeasesOK, ResultOK
  <2>2. ThreadsOK'
    BY <1>2, Threads DEF SourceExhausted, ThreadsOK, Label, Goto, Message
  <2>3. Labels'
    BY <1>2, Threads DEF SourceExhausted, ThreadsOK, Labels, Goto
  <2>4. InHand'
    BY <1>2, Threads DEF SourceExhausted, ThreadsOK, StagesOK, InHand, Goto, Message, others,
       supervision, stageState, result
  <2> QED
    BY <2>1, <2>2, <2>3, <2>4
<1>3. CASE SourcePut
  <2>1. SupervisionOK' /\ StagesOK' /\ LeasesOK' /\ ResultOK'
    BY <1>3 DEF SourcePut, others, supervision, stageState, result, SupervisionOK, StagesOK,
       LeasesOK, ResultOK
  <2>2. ChannelsOK'
    BY <1>3, EnqueueOK, EndChannels DEF SourcePut, InHand
  <2>3. ThreadsOK'
    BY <1>3, Threads DEF SourcePut, ThreadsOK, Label, Goto, Message
  <2>4. Labels'
    BY <1>3, Threads DEF SourcePut, ThreadsOK, Labels, Goto
  <2>5. InHand'
    BY <1>3, Threads DEF SourcePut, ThreadsOK, StagesOK, InHand, Goto, Message, others,
       supervision, stageState, result
  <2> QED
    BY <2>1, <2>2, <2>3, <2>4, <2>5
<1>4. CASE SourceRefused
  <2>1. ChannelsOK' /\ SupervisionOK' /\ StagesOK' /\ LeasesOK' /\ ResultOK'
    BY <1>4 DEF SourceRefused, Move, others, supervision, stageState, result, ChannelsOK,
       SupervisionOK, StagesOK, LeasesOK, ResultOK
  <2>2. ThreadsOK'
    BY <1>4, Threads DEF SourceRefused, Move, ThreadsOK, Label, Goto, Message, others
  <2>3. Labels'
    BY <1>4, Threads DEF SourceRefused, Move, ThreadsOK, Labels, Goto, others
  <2>4. InHand'
    BY <1>4, Threads DEF SourceRefused, Move, ThreadsOK, StagesOK, InHand, Goto, Message,
       others, supervision, stageState, result
  <2> QED
    BY <2>1, <2>2, <2>3, <2>4
<1>5. CASE SourceFails
  <2>1. ChannelsOK' /\ StagesOK' /\ LeasesOK' /\ ResultOK'
    BY <1>5 DEF SourceFails, others, supervision, stageState, result, ChannelsOK, StagesOK,
       LeasesOK, ResultOK
  <2>2. SupervisionOK'
    BY <1>5, Threads, FailOK DEF SourceFails, SupervisionOK
  <2>3. ThreadsOK'
    BY <1>5, Threads DEF SourceFails, ThreadsOK, Label, Goto, Fail
  <2>4. Labels'
    BY <1>5, Threads DEF SourceFails, ThreadsOK, Labels, Goto, Fail
  <2>5. InHand'
    BY <1>5, Threads DEF SourceFails, ThreadsOK, InHand, Goto, Fail, stageState
  <2> QED
    BY <2>1, <2>2, <2>3, <2>4, <2>5
<1>6. CASE CloseNext(Source)
  BY <1>6, CloseNextTyped, Threads
<1>7. CASE Finally(Source)
  BY <1>7, FinallyTyped, Threads
<1> QED
  BY <1>1, <1>2, <1>3, <1>4, <1>5, <1>6, <1>7 DEF SourceStep

\* A stage actor.
LEMMA StageTyped ==
  ASSUME TypeInv, NEW i \in Stage, StageStep(i) PROVE TypeInv'
<1> USE DEF TypeInv, TypeOK
<1>1. CASE StageTop(i)
  <2>1. ChannelsOK' /\ SupervisionOK' /\ StagesOK' /\ LeasesOK' /\ ResultOK'
    BY <1>1 DEF StageTop, Move, others, supervision, stageState, result, ChannelsOK,
       SupervisionOK, StagesOK, LeasesOK, ResultOK
  <2>2. ThreadsOK'
    BY <1>1, Threads DEF StageTop, Move, ThreadsOK, Label, Goto, Message, others
  <2>3. Labels'
    BY <1>1, Threads DEF StageTop, Move, ThreadsOK, Labels, Goto, others
  <2>4. InHand'
    BY <1>1, Threads DEF StageTop, Move, ThreadsOK, StagesOK, InHand, Goto, Message, others,
       supervision, stageState, result
  <2> QED
    BY <2>1, <2>2, <2>3, <2>4
<1>2. CASE StageGetEos(i)
  <2>1. SupervisionOK' /\ LeasesOK' /\ ResultOK'
    BY <1>2 DEF StageGetEos, StartFlush, others, supervision, stageState, result,
       SupervisionOK, LeasesOK, ResultOK
  <2>2. ChannelsOK'
    BY <1>2, DequeueOK, StageChannels DEF StageGetEos
  <2>3. ThreadsOK'
    BY <1>2, Threads DEF StageGetEos, StartFlush, ThreadsOK, Label, Goto, Message
  <2>4. StagesOK'
    BY <1>2 DEF StageGetEos, StartFlush, StagesOK
  <2>5. Labels'
    BY <1>2, Threads DEF StageGetEos, StartFlush, ThreadsOK, Labels, Goto
  <2>6. InHand'
    BY <1>2, Threads DEF StageGetEos, StartFlush, ThreadsOK, StagesOK, InHand, Goto, Message,
       others, supervision, stageState, result
  <2> QED
    BY <2>1, <2>2, <2>3, <2>4, <2>5, <2>6
<1>3. CASE StageGetUnit(i)
  <2>1. ChannelsOK' /\ Head(chan[i - 1]) \in Envelope
    BY <1>3, DequeueOK, StageChannels DEF StageGetUnit, Message
  <2>2. StartFlush(i, "boundary") \/ UNCHANGED stageState
    BY <1>3 DEF StageGetUnit
  <2>3. SupervisionOK' /\ LeasesOK' /\ ResultOK'
    BY <1>3 DEF StageGetUnit, StartFlush, others, supervision, stageState, result,
       SupervisionOK, LeasesOK, ResultOK
  <2>4. ChannelsOK'
    BY <2>1
  <2>5. ThreadsOK'
    BY <1>3, <2>1, <2>2, Threads DEF StageGetUnit, StartFlush, ThreadsOK, Label, Goto, Message
  <2>6. StagesOK'
    BY <2>2, StartFlushOK DEF StagesOK, stageState
  <2>7. Labels'
    BY <1>3, <2>1, <2>2, Threads DEF StageGetUnit, StartFlush, ThreadsOK, Labels, Goto
  <2>8. InHand'
    BY <1>3, <2>1, Threads DEF StageGetUnit, StartFlush, ThreadsOK, StagesOK, InHand,
       NeedsFlush, Goto, stageState
  <2> QED
    BY <2>3, <2>4, <2>5, <2>6, <2>7, <2>8
<1>4. CASE StageGetClosed(i)
  <2>1. ChannelsOK' /\ SupervisionOK' /\ StagesOK' /\ LeasesOK' /\ ResultOK'
    BY <1>4 DEF StageGetClosed, Move, others, supervision, stageState, result, ChannelsOK,
       SupervisionOK, StagesOK, LeasesOK, ResultOK
  <2>2. ThreadsOK'
    BY <1>4, Threads DEF StageGetClosed, Move, ThreadsOK, Label, Goto, Message, others
  <2>3. Labels'
    BY <1>4, Threads DEF StageGetClosed, Move, ThreadsOK, Labels, Goto, others
  <2>4. InHand'
    BY <1>4, Threads DEF StageGetClosed, Move, ThreadsOK, StagesOK, InHand, Goto, Message,
       others, supervision, stageState, result
  <2> QED
    BY <2>1, <2>2, <2>3, <2>4
<1>5. CASE StageReset(i)
  <2>1. cur[Worker(i)] \in Envelope /\ cur[Worker(i)].bnds # <<>>
    BY <1>5 DEF StageReset, InHand
  <2>2. cur[Worker(i)].bnds \in Seq(Unit)
    BY <2>1, Envelopes
  <2>3. cur[Worker(i)].bnds[Len(cur[Worker(i)].bnds)] \in 0..NumUnits
    BY <2>1, <2>2, LastUnit
  <2>4. ChannelsOK' /\ SupervisionOK' /\ LeasesOK' /\ ResultOK'
    BY <1>5 DEF StageReset, others, supervision, stageState, result, ChannelsOK,
       SupervisionOK, LeasesOK, ResultOK
  <2>5. ThreadsOK'
    BY <1>5, <2>1, <2>2, <2>3, Threads DEF StageReset, ThreadsOK, Label, Goto, Message
  <2>6. StagesOK'
    BY <1>5, <2>1, <2>2, <2>3 DEF StageReset, StagesOK
  <2>7. Labels'
    BY <1>5, <2>1, <2>2, <2>3, Threads DEF StageReset, ThreadsOK, Labels, Goto
  <2>8. InHand'
    BY <1>5, <2>1, Threads DEF StageReset, ThreadsOK, StagesOK, InHand, Goto
  <2> QED
    BY <2>4, <2>5, <2>6, <2>7, <2>8
<1>6. CASE StageProcess(i)
  <2>1. cur[Worker(i)] \in Envelope
    BY <1>6 DEF StageProcess, InHand
  <2>2. cur[Worker(i)].unit \in Unit
    BY <2>1, Envelopes
  <2>3. window[i] \in Seq(Unit) /\ Append(window[i], cur[Worker(i)].unit) \in Seq(Unit)
    BY <2>2 DEF StagesOK
  <2>4. PICK held \in Seq(Unit) :
      /\ Len(held) > Delay[i] =>
           /\ iter' = [iter EXCEPT ![i] = <<Head(held)>>]
           /\ window' = [window EXCEPT ![i] = Tail(held)]
      /\ ~(Len(held) > Delay[i]) =>
           /\ iter' = [iter EXCEPT ![i] = <<>>]
           /\ window' = [window EXCEPT ![i] = held]
    <3> DEFINE u == cur[Worker(i)].unit
                h == IF u \in Drops[i] THEN window[i] ELSE Append(window[i], u)
    <3>1. h \in Seq(Unit)
      BY <2>3
    <3> QED
      BY <1>6, <3>1 DEF StageProcess
  <2>5. iter' \in [Stage -> Seq(Unit)] /\ window' \in [Stage -> Seq(Unit)]
    <3>1. CASE Len(held) > Delay[i]
      <4>1. <<Head(held)>> \in Seq(Unit) /\ Tail(held) \in Seq(Unit)
        BY <3>1, OldestHeld
      <4>2. iter \in [Stage -> Seq(Unit)] /\ window \in [Stage -> Seq(Unit)]
        BY DEF StagesOK
      <4> QED
        BY ONLY <2>4, <3>1, <4>1, <4>2
    <3>2. CASE ~(Len(held) > Delay[i])
      <4>1. <<>> \in Seq(Unit)
        OBVIOUS
      <4> QED
        BY <4>1, <3>2, <2>4 DEF StagesOK
    <3> QED
      BY <3>1, <3>2
  <2>6. ChannelsOK' /\ SupervisionOK' /\ LeasesOK' /\ ResultOK'
    BY <1>6 DEF StageProcess, others, supervision, stageState, result, ChannelsOK,
       SupervisionOK, LeasesOK, ResultOK
  <2>7. ThreadsOK'
    BY <1>6, <2>1, <2>2, <2>3, <2>4, <2>5, Threads DEF StageProcess, ThreadsOK, Label, Goto,
       Message
  <2>8. StagesOK'
    BY <1>6, <2>5 DEF StageProcess, StagesOK
  <2>9. Labels'
    BY <1>6, <2>1, <2>2, <2>3, <2>4, <2>5, Threads DEF StageProcess, ThreadsOK, Labels, Goto
  <2>10. InHand'
    <3>1. /\ pc' = [pc EXCEPT ![Worker(i)] = "publish"]
          /\ kind' = [kind EXCEPT ![i] = "process"]
          /\ UNCHANGED <<cur, out, closing, failed, cancelled, closed, chan, next>>
      BY <1>6 DEF StageProcess, Goto, supervision
    <3> QED
      BY <3>1, <2>1, <2>2, <2>3, <2>4, <2>5, Threads DEF ThreadsOK, StagesOK, InHand, Message
  <2> QED
    BY <2>6, <2>7, <2>8, <2>9, <2>10
<1>7. CASE StageEmit(i)
  <2>1. Head(iter[i]) \in Unit /\ Tail(iter[i]) \in Seq(Unit) /\ marks[i] \in Seq(Unit)
    BY <1>7 DEF StageEmit, StagesOK
  <2>2. pc[Worker(i)] = "emit" /\ kind[i] # "eos" => cur[Worker(i)].lease \in Lease
    BY Envelopes DEF InHand
  <2>3. <<i, Head(iter[i])>> \in Lease
    BY <2>1, GraphConstants DEF Lease, Stage
  <2>4. PICK l \in Lease :
      /\ out' = [out EXCEPT ![i] = Wrap(Head(iter[i]), marks[i], l)]
      /\ AddHandle(l)
      /\ drained' = [drained EXCEPT ![i] = IF kind[i] = "boundary" THEN @ \cup {l} ELSE @]
    BY <1>7, <2>2, <2>3 DEF StageEmit
  <2>5. Wrap(Head(iter[i]), marks[i], l) \in Envelope
    BY <2>1 DEF Wrap, Envelope
  <2>6. out' \in [Stage -> Envelope \cup {None}] /\ out'[i] \in Envelope
    BY <2>4, <2>5 DEF StagesOK
  <2>7. drained' \in [Stage -> SUBSET Lease]
    BY <2>4 DEF StagesOK
  <2>8. ChannelsOK' /\ SupervisionOK' /\ ResultOK'
    BY <1>7 DEF StageEmit, others, supervision, stageState, result, ChannelsOK, SupervisionOK,
       ResultOK
  <2>9. ThreadsOK'
    BY <1>7, Threads DEF StageEmit, ThreadsOK, Label, Goto
  <2>10. StagesOK'
    BY <1>7, <2>1, <2>6, <2>7 DEF StageEmit, StagesOK
  <2>11. LeasesOK'
    BY <1>7, <2>4, AddHandleOK DEF StageEmit, LeasesOK
  <2>12. Labels'
    BY <1>7, <2>1, <2>2, <2>3, <2>4, <2>5, <2>6, <2>7, Threads DEF StageEmit, ThreadsOK,
       Labels, Goto
  <2>13. InHand'
    BY <1>7, <2>4, <2>5, Threads DEF StageEmit, ThreadsOK, StagesOK, InHand, Goto
  <2> QED
    BY <2>8, <2>9, <2>10, <2>11, <2>12, <2>13
<1>8. CASE StagePut(i)
  <2>1. SupervisionOK' /\ LeasesOK' /\ ResultOK'
    BY <1>8 DEF StagePut, others, supervision, stageState, result, SupervisionOK, LeasesOK,
       ResultOK
  <2>2. ChannelsOK'
    BY <1>8, EnqueueOK, StageChannels DEF StagePut, InHand, Message
  <2>3. ThreadsOK'
    BY <1>8, Threads DEF StagePut, ThreadsOK, Label, Goto, Message
  <2>4. StagesOK'
    BY <1>8 DEF StagePut, StagesOK
  <2>5. Labels'
    BY <1>8, Threads DEF StagePut, ThreadsOK, Labels, Goto
  <2>6. InHand'
    BY <1>8, Threads DEF StagePut, ThreadsOK, StagesOK, InHand, Goto, Message, others,
       supervision, stageState, result
  <2> QED
    BY <2>1, <2>2, <2>3, <2>4, <2>5, <2>6
<1>9. CASE StagePutRefused(i)
  <2>1. out[i].lease \in Lease
    BY <1>9, Envelopes DEF StagePutRefused, InHand
  <2>2. ChannelsOK' /\ SupervisionOK' /\ ResultOK'
    BY <1>9 DEF StagePutRefused, others, supervision, stageState, result, ChannelsOK,
       SupervisionOK, ResultOK
  <2>3. ThreadsOK'
    BY <1>9, <2>1, Threads DEF StagePutRefused, ThreadsOK, Label, Goto, Message
  <2>4. StagesOK'
    BY <1>9, <2>1 DEF StagePutRefused, StagesOK
  <2>5. LeasesOK'
    BY <1>9, <2>1, ReleaseOK, AddHandleOK DEF StagePutRefused, LeasesOK
  <2>6. Labels'
    BY <1>9, <2>1, Threads DEF StagePutRefused, ThreadsOK, Labels, Goto
  <2>7. InHand'
    BY <1>9, <2>1, Threads DEF StagePutRefused, ThreadsOK, StagesOK, InHand, Goto, Message,
       others, supervision, stageState, result
  <2> QED
    BY <2>2, <2>3, <2>4, <2>5, <2>6, <2>7
<1>10. CASE AfterPublish(i)
  <2>1. kind[i] \in {"process", "boundary", "eos"}
    BY DEF StagesOK
  <2>2. ChannelsOK' /\ SupervisionOK' /\ LeasesOK' /\ ResultOK'
    BY <1>10 DEF AfterPublish, others, supervision, stageState, result, ChannelsOK,
       SupervisionOK, LeasesOK, ResultOK
  <2>3. ThreadsOK'
    BY <1>10, <2>1, Threads DEF AfterPublish, ThreadsOK, Label, Goto, Message
  <2>4. StagesOK'
    BY <1>10, <2>1 DEF AfterPublish, StagesOK
  <2>5. Labels'
    BY <1>10, <2>1, Threads DEF AfterPublish, ThreadsOK, Labels, Goto
  <2>6. InHand'
    BY <1>10, <2>1, Threads DEF AfterPublish, ThreadsOK, StagesOK, InHand, Goto, Message,
       others, supervision, stageState, result
  <2> QED
    BY <2>2, <2>3, <2>4, <2>5, <2>6
<1>11. CASE StageSlotCancelled(i)
  <2>1. ChannelsOK' /\ SupervisionOK' /\ StagesOK' /\ LeasesOK' /\ ResultOK'
    BY <1>11 DEF StageSlotCancelled, Move, others, supervision, stageState, result,
       ChannelsOK, SupervisionOK, StagesOK, LeasesOK, ResultOK
  <2>2. ThreadsOK'
    BY <1>11, Threads DEF StageSlotCancelled, Move, ThreadsOK, Label, Goto, Message, others
  <2>3. Labels'
    BY <1>11, Threads DEF StageSlotCancelled, Move, ThreadsOK, Labels, Goto, others
  <2>4. InHand'
    BY <1>11, Threads DEF StageSlotCancelled, Move, ThreadsOK, StagesOK, InHand, Goto,
       Message, others, supervision, stageState, result
  <2> QED
    BY <2>1, <2>2, <2>3, <2>4
<1>12. CASE StageSettle(i)
  <2>1. ChannelsOK' /\ SupervisionOK' /\ StagesOK' /\ LeasesOK' /\ ResultOK'
    BY <1>12 DEF StageSettle, Move, others, supervision, stageState, result, ChannelsOK,
       SupervisionOK, StagesOK, LeasesOK, ResultOK
  <2>2. ThreadsOK'
    BY <1>12, Threads DEF StageSettle, Move, ThreadsOK, Label, Goto, Message, others
  <2>3. Labels'
    BY <1>12, Threads DEF StageSettle, Move, ThreadsOK, Labels, Goto, others
  <2>4. InHand'
    BY <1>12, Threads DEF StageSettle, Move, ThreadsOK, StagesOK, InHand, Goto, Message,
       others, supervision, stageState, result
  <2> QED
    BY <2>1, <2>2, <2>3, <2>4
<1>13. CASE StagePolls(i)
  <2>1. ChannelsOK' /\ SupervisionOK' /\ ThreadsOK' /\ StagesOK' /\ LeasesOK' /\ ResultOK'
    BY <1>13 DEF StagePolls, vars, others, supervision, stageState, result, ChannelsOK,
       SupervisionOK, ThreadsOK, StagesOK, LeasesOK, ResultOK
  <2>2. Labels'
    BY <1>13, Threads DEF StagePolls, vars, ThreadsOK, Labels, Goto
  <2>3. InHand'
    BY <1>13, Threads DEF StagePolls, vars, ThreadsOK, StagesOK, InHand, Goto, Message,
       others, supervision, stageState, result
  <2> QED
    BY <2>1, <2>2, <2>3
<1>14. CASE StageRelease(i)
  <2>1. cur[Worker(i)].lease \in Lease
    BY <1>14, Envelopes DEF StageRelease, InHand
  <2>2. ChannelsOK' /\ SupervisionOK' /\ StagesOK' /\ ResultOK'
    BY <1>14 DEF StageRelease, others, supervision, stageState, result, ChannelsOK,
       SupervisionOK, StagesOK, ResultOK
  <2>3. ThreadsOK'
    BY <1>14, <2>1, Threads DEF StageRelease, ThreadsOK, Label, Goto, Message
  <2>4. LeasesOK'
    BY <1>14, <2>1, ReleaseOK, AddHandleOK DEF StageRelease, LeasesOK
  <2>5. Labels'
    BY <1>14, <2>1, Threads DEF StageRelease, ThreadsOK, Labels, Goto
  <2>6. InHand'
    BY <1>14, <2>1, Threads DEF StageRelease, ThreadsOK, StagesOK, InHand, Goto, Message,
       others, supervision, stageState, result
  <2> QED
    BY <2>2, <2>3, <2>4, <2>5, <2>6
<1>15. CASE StagePutEos(i)
  <2>1. SupervisionOK' /\ StagesOK' /\ LeasesOK' /\ ResultOK'
    BY <1>15 DEF StagePutEos, others, supervision, stageState, result, SupervisionOK,
       StagesOK, LeasesOK, ResultOK
  <2>2. ChannelsOK'
    BY <1>15, EnqueueOK, StageChannels DEF StagePutEos, ChannelsOK, Message
  <2>3. ThreadsOK'
    BY <1>15, Threads DEF StagePutEos, ThreadsOK, Label, Goto, Message
  <2>4. Labels'
    BY <1>15, Threads DEF StagePutEos, ThreadsOK, Labels, Goto
  <2>5. InHand'
    BY <1>15, Threads DEF StagePutEos, ThreadsOK, StagesOK, InHand, Goto, Message, others,
       supervision, stageState, result
  <2> QED
    BY <2>1, <2>2, <2>3, <2>4, <2>5
<1>16. CASE StageFails(i)
  <2>1. ChannelsOK' /\ StagesOK' /\ LeasesOK' /\ ResultOK'
    BY <1>16 DEF StageFails, others, supervision, stageState, result, ChannelsOK, StagesOK,
       LeasesOK, ResultOK
  <2>2. SupervisionOK'
    BY <1>16, Threads, FailOK DEF StageFails, SupervisionOK
  <2>3. ThreadsOK'
    BY <1>16, Threads DEF StageFails, ThreadsOK, Label, Goto, Fail, Cancel
  <2>4. Labels'
    BY <1>16, Threads DEF StageFails, ThreadsOK, Labels, Goto, Fail, Cancel
  <2>5. InHand'
    BY <1>16, Threads DEF StageFails, ThreadsOK, InHand, Goto, Fail, Cancel, stageState
  <2> QED
    BY <2>1, <2>2, <2>3, <2>4, <2>5
<1>17. CASE CloseNext(Worker(i))
  BY <1>17, CloseNextTyped, Threads
<1>18. CASE Finally(Worker(i))
  BY <1>18, FinallyTyped, Threads
<1>19. CASE StageTurn(i)
  <2>1. ChannelsOK' /\ SupervisionOK' /\ StagesOK' /\ LeasesOK' /\ ResultOK'
    BY <1>19 DEF StageTurn, Move, others, supervision, stageState, result, ChannelsOK,
       SupervisionOK, StagesOK, LeasesOK, ResultOK
  <2>2. ThreadsOK'
    BY <1>19, Threads DEF StageTurn, Move, ThreadsOK, Label, Goto, Message, others
  <2>3. Labels'
    BY <1>19, Threads DEF StageTurn, Move, ThreadsOK, Labels, Goto, others
  <2>4. InHand'
    BY <1>19, Threads DEF StageTurn, Move, ThreadsOK, StagesOK, InHand, Goto, Message, others,
       supervision, stageState, result
  <2> QED
    BY <2>1, <2>2, <2>3, <2>4
<1> QED
  BY <1>1, <1>2, <1>3, <1>4, <1>5, <1>6, <1>7, <1>8, <1>9, <1>10, <1>11, <1>12, <1>13,
     <1>14, <1>15, <1>16, <1>17, <1>18, <1>19 DEF StageStep

\* A publisher actor.
LEMMA CourierTyped ==
  ASSUME TypeInv, NEW i \in Stage, CourierStep(i) PROVE TypeInv'
<1> USE DEF TypeInv, TypeOK
<1>1. CASE CourierTop(i)
  <2>1. ChannelsOK' /\ SupervisionOK' /\ StagesOK' /\ LeasesOK' /\ ResultOK'
    BY <1>1 DEF CourierTop, Move, others, supervision, stageState, result, ChannelsOK,
       SupervisionOK, StagesOK, LeasesOK, ResultOK
  <2>2. ThreadsOK'
    BY <1>1, Threads DEF CourierTop, Move, ThreadsOK, Label, Goto, Message, others
  <2>3. Labels'
    BY <1>1, Threads DEF CourierTop, Move, ThreadsOK, Labels, Goto, others
  <2>4. InHand'
    BY <1>1, Threads DEF CourierTop, Move, ThreadsOK, StagesOK, InHand, Goto, Message, others,
       supervision, stageState, result
  <2> QED
    BY <2>1, <2>2, <2>3, <2>4
<1>2. CASE CourierGet(i)
  <2>1. ChannelsOK' /\ Head(chan[PendingOf(i)]) \in Message
    BY <1>2, DequeueOK, StageChannels DEF CourierGet
  <2>2. SupervisionOK' /\ StagesOK' /\ LeasesOK' /\ ResultOK'
    BY <1>2 DEF CourierGet, others, supervision, stageState, result, SupervisionOK, StagesOK,
       LeasesOK, ResultOK
  <2>3. ChannelsOK'
    BY <2>1
  <2>4. ThreadsOK'
    BY <1>2, <2>1, Threads DEF CourierGet, ThreadsOK, Label, Goto, Message
  <2>5. Labels'
    BY <1>2, <2>1, Threads DEF CourierGet, ThreadsOK, Labels, Goto
  <2>6. InHand'
    BY <1>2, <2>1, Threads DEF CourierGet, ThreadsOK, StagesOK, InHand, Goto, Message, others,
       supervision, stageState, result
  <2> QED
    BY <2>2, <2>3, <2>4, <2>5, <2>6
<1>3. CASE CourierPut(i)
  <2>1. SupervisionOK' /\ StagesOK' /\ LeasesOK' /\ ResultOK'
    BY <1>3 DEF CourierPut, others, supervision, stageState, result, SupervisionOK, StagesOK,
       LeasesOK, ResultOK
  <2>2. ChannelsOK'
    BY <1>3, EnqueueOK, StageChannels DEF CourierPut, InHand
  <2>3. ThreadsOK'
    BY <1>3, Threads DEF CourierPut, ThreadsOK, Label, Goto, Message
  <2>4. Labels'
    BY <1>3, Threads DEF CourierPut, ThreadsOK, Labels, Goto
  <2>5. InHand'
    BY <1>3, Threads DEF CourierPut, ThreadsOK, StagesOK, InHand, Goto, Message, others,
       supervision, stageState, result
  <2> QED
    BY <2>1, <2>2, <2>3, <2>4, <2>5
<1>4. CASE CourierClosed(i)
  <2>1. ChannelsOK' /\ SupervisionOK' /\ StagesOK' /\ LeasesOK' /\ ResultOK'
    BY <1>4 DEF CourierClosed, Move, others, supervision, stageState, result, ChannelsOK,
       SupervisionOK, StagesOK, LeasesOK, ResultOK
  <2>2. ThreadsOK'
    BY <1>4, Threads DEF CourierClosed, Move, ThreadsOK, Label, Goto, Message, others
  <2>3. Labels'
    BY <1>4, Threads DEF CourierClosed, Move, ThreadsOK, Labels, Goto, others
  <2>4. InHand'
    BY <1>4, Threads DEF CourierClosed, Move, ThreadsOK, StagesOK, InHand, Goto, Message,
       others, supervision, stageState, result
  <2> QED
    BY <2>1, <2>2, <2>3, <2>4
<1>5. CASE Finally(Courier(i))
  BY <1>5, FinallyTyped, Threads
<1> QED
  BY <1>1, <1>2, <1>3, <1>4, <1>5 DEF CourierStep

\* The sink actor.
LEMMA SinkTyped ==
  ASSUME TypeInv, SinkStep PROVE TypeInv'
<1> USE DEF TypeInv, TypeOK
<1>1. CASE SinkTop
  <2>1. ChannelsOK' /\ SupervisionOK' /\ StagesOK' /\ LeasesOK' /\ ResultOK'
    BY <1>1 DEF SinkTop, Move, others, supervision, stageState, result, ChannelsOK,
       SupervisionOK, StagesOK, LeasesOK, ResultOK
  <2>2. ThreadsOK'
    BY <1>1, Threads DEF SinkTop, Move, ThreadsOK, Label, Goto, Message, others
  <2>3. Labels'
    BY <1>1, Threads DEF SinkTop, Move, ThreadsOK, Labels, Goto, others
  <2>4. InHand'
    BY <1>1, Threads DEF SinkTop, Move, ThreadsOK, StagesOK, InHand, Goto, Message, others,
       supervision, stageState, result
  <2> QED
    BY <2>1, <2>2, <2>3, <2>4
<1>2. CASE SinkGetUnit
  <2>1. ChannelsOK' /\ Head(chan[N]) \in Envelope
    BY <1>2, DequeueOK, EndChannels DEF SinkGetUnit, Message
  <2>2. SupervisionOK' /\ StagesOK' /\ LeasesOK' /\ ResultOK'
    BY <1>2 DEF SinkGetUnit, others, supervision, stageState, result, SupervisionOK, StagesOK,
       LeasesOK, ResultOK
  <2>3. ChannelsOK'
    BY <2>1
  <2>4. ThreadsOK'
    BY <1>2, <2>1, Threads DEF SinkGetUnit, ThreadsOK, Label, Goto, Message
  <2>5. Labels'
    BY <1>2, <2>1, Threads DEF SinkGetUnit, ThreadsOK, Labels, Goto
  <2>6. InHand'
    BY <1>2, <2>1, Threads DEF SinkGetUnit, ThreadsOK, StagesOK, InHand, Goto, Message,
       others, supervision, stageState, result
  <2> QED
    BY <2>2, <2>3, <2>4, <2>5, <2>6
<1>3. CASE SinkGetEos
  <2>1. SupervisionOK' /\ StagesOK' /\ LeasesOK'
    BY <1>3 DEF SinkGetEos, others, supervision, stageState, result, SupervisionOK, StagesOK,
       LeasesOK
  <2>2. ChannelsOK'
    BY <1>3, DequeueOK, EndChannels DEF SinkGetEos
  <2>3. ThreadsOK'
    BY <1>3, Threads DEF SinkGetEos, ThreadsOK, Label, Goto, Message
  <2>4. ResultOK'
    BY <1>3 DEF SinkGetEos, ResultOK
  <2>5. Labels'
    BY <1>3, Threads DEF SinkGetEos, ThreadsOK, Labels, Goto
  <2>6. InHand'
    BY <1>3, Threads DEF SinkGetEos, ThreadsOK, StagesOK, InHand, Goto, Message, others,
       supervision, stageState, result
  <2> QED
    BY <2>1, <2>2, <2>3, <2>4, <2>5, <2>6
<1>4. CASE SinkGetClosed
  <2>1. ChannelsOK' /\ SupervisionOK' /\ StagesOK' /\ LeasesOK' /\ ResultOK'
    BY <1>4 DEF SinkGetClosed, Move, others, supervision, stageState, result, ChannelsOK,
       SupervisionOK, StagesOK, LeasesOK, ResultOK
  <2>2. ThreadsOK'
    BY <1>4, Threads DEF SinkGetClosed, Move, ThreadsOK, Label, Goto, Message, others
  <2>3. Labels'
    BY <1>4, Threads DEF SinkGetClosed, Move, ThreadsOK, Labels, Goto, others
  <2>4. InHand'
    BY <1>4, Threads DEF SinkGetClosed, Move, ThreadsOK, StagesOK, InHand, Goto, Message,
       others, supervision, stageState, result
  <2> QED
    BY <2>1, <2>2, <2>3, <2>4
<1>5. CASE SinkConsume
  <2>1. cur[Sink] \in Envelope /\ cur[Sink].lease \in Lease
    BY <1>5, Envelopes DEF SinkConsume, InHand
  <2>2. Seen(cur[Sink]) \in [unit : Unit, bnds : Seq(Unit)]
    BY <2>1, Envelopes DEF Seen
  <2>3. terminal # <<>> => terminal[1] \in Lease
    BY DEF LeasesOK
  <2>4. terminal' = terminal \/ terminal' = <<cur[Sink].lease>>
    BY <1>5 DEF SinkConsume
  <2>5. terminal' \in Seq(Lease)
    <3>1. <<cur[Sink].lease>> \in Seq(Lease)
      BY <2>1
    <3> QED
      BY <3>1, <2>4 DEF LeasesOK
  <2>6. (refs' = refs /\ free' = free) \/ \E l \in Lease : Release(l)
    BY <1>5, <2>1, <2>3 DEF SinkConsume
  <2>7. ChannelsOK' /\ SupervisionOK' /\ StagesOK'
    BY <1>5 DEF SinkConsume, others, supervision, stageState, result, ChannelsOK,
       SupervisionOK, StagesOK
  <2>8. ThreadsOK'
    BY <1>5, <2>1, <2>2, <2>3, <2>4, <2>5, <2>6, Threads DEF SinkConsume, ThreadsOK, Label,
       Goto, Message
  <2>9. LeasesOK'
    BY <2>5, <2>6, ReleaseOK DEF LeasesOK
  <2>10. ResultOK'
    BY <1>5, <2>1, <2>2, <2>3, <2>4, <2>5, <2>6 DEF SinkConsume, ResultOK
  <2>11. Labels'
    BY <1>5, <2>1, <2>2, <2>3, <2>4, <2>5, <2>6, Threads DEF SinkConsume, ThreadsOK, Labels,
       Goto
  <2>12. InHand'
    BY <1>5, <2>1, <2>2, <2>3, <2>4, <2>5, <2>6, Threads DEF SinkConsume, ThreadsOK, StagesOK,
       InHand, Goto, Message, others, supervision, stageState, result
  <2> QED
    BY <2>7, <2>8, <2>9, <2>10, <2>11, <2>12
<1>6. CASE SinkStop
  <2>1. ChannelsOK' /\ StagesOK' /\ LeasesOK'
    BY <1>6 DEF SinkStop, others, supervision, stageState, result, ChannelsOK, StagesOK,
       LeasesOK
  <2>2. SupervisionOK'
    BY <1>6, Threads, FailOK DEF SinkStop, SupervisionOK
  <2>3. ThreadsOK'
    BY <1>6, Threads DEF SinkStop, ThreadsOK, Label, Goto, Fail, Cancel
  <2>4. ResultOK'
    BY <1>6 DEF SinkStop, ResultOK
  <2>5. Labels'
    BY <1>6, Threads DEF SinkStop, ThreadsOK, Labels, Goto, Fail, Cancel
  <2>6. InHand'
    BY <1>6, Threads DEF SinkStop, ThreadsOK, InHand, Goto, Fail, Cancel, stageState
  <2> QED
    BY <2>1, <2>2, <2>3, <2>4, <2>5, <2>6
<1>7. CASE SinkFails
  <2>1. ChannelsOK' /\ StagesOK' /\ LeasesOK' /\ ResultOK'
    BY <1>7 DEF SinkFails, others, supervision, stageState, result, ChannelsOK, StagesOK,
       LeasesOK, ResultOK
  <2>2. SupervisionOK'
    BY <1>7, Threads, FailOK DEF SinkFails, SupervisionOK
  <2>3. ThreadsOK'
    BY <1>7, Threads DEF SinkFails, ThreadsOK, Label, Goto, Fail, Cancel
  <2>4. Labels'
    BY <1>7, Threads DEF SinkFails, ThreadsOK, Labels, Goto, Fail, Cancel
  <2>5. InHand'
    BY <1>7, Threads DEF SinkFails, ThreadsOK, InHand, Goto, Fail, Cancel, stageState
  <2> QED
    BY <2>1, <2>2, <2>3, <2>4, <2>5
<1>8. CASE CloseNext(Sink)
  BY <1>8, CloseNextTyped, Threads
<1>9. CASE SinkFinally
  <2>1. cur[Sink] # None => cur[Sink].lease \in Lease
    BY <1>9, Envelopes DEF SinkFinally, InHand
  <2>2. terminal # <<>> => terminal[1] \in Lease /\ Tail(terminal) \in Seq(Lease)
    BY DEF LeasesOK
  <2>3. terminal' = terminal \/ terminal' = <<>>
    BY <1>9 DEF SinkFinally
  <2>4. terminal' \in Seq(Lease)
    <3>1. <<>> \in Seq(Lease)
      OBVIOUS
    <3> QED
      BY <3>1, <2>3 DEF LeasesOK
  <2>5. (refs' = refs /\ free' = free) \/ \E l \in Lease : Release(l)
    BY <1>9, <2>1, <2>2 DEF SinkFinally
  <2>6. ChannelsOK' /\ SupervisionOK' /\ StagesOK' /\ ResultOK'
    BY <1>9 DEF SinkFinally, others, supervision, stageState, result, ChannelsOK,
       SupervisionOK, StagesOK, ResultOK
  <2>7. ThreadsOK'
    BY <1>9, <2>1, <2>2, <2>3, <2>4, <2>5, Threads DEF SinkFinally, ThreadsOK, Label, Goto,
       Message
  <2>8. LeasesOK'
    BY <2>4, <2>5, ReleaseOK DEF LeasesOK
  <2>9. Labels'
    BY <1>9, <2>1, <2>2, <2>3, <2>4, <2>5, Threads DEF SinkFinally, ThreadsOK, Labels, Goto
  <2>10. InHand'
    BY <1>9, <2>1, <2>2, <2>3, <2>4, <2>5, Threads DEF SinkFinally, ThreadsOK, StagesOK,
       InHand, Goto, Message, others, supervision, stageState, result
  <2> QED
    BY <2>6, <2>7, <2>8, <2>9, <2>10
<1>10. CASE SinkFinishFails
  <2>1. StagesOK' /\ LeasesOK' /\ ResultOK'
    BY <1>10 DEF SinkFinishFails, others, supervision, stageState, result, StagesOK,
       LeasesOK, ResultOK
  <2>6. ChannelsOK'
    BY <1>10, DequeueOK, EndChannels DEF SinkFinishFails
  <2>2. SupervisionOK'
    BY <1>10, Threads, FailOK DEF SinkFinishFails, SupervisionOK
  <2>3. ThreadsOK'
    BY <1>10, Threads DEF SinkFinishFails, ThreadsOK, Label, Goto, Fail, Cancel
  <2>4. Labels'
    BY <1>10, Threads DEF SinkFinishFails, ThreadsOK, Labels, Goto, Fail, Cancel
  <2>5. InHand'
    BY <1>10, Threads DEF SinkFinishFails, ThreadsOK, InHand, Goto, Fail, Cancel, stageState
  <2> QED
    BY <2>6, <2>1, <2>2, <2>3, <2>4, <2>5
<1> QED
  BY <1>1, <1>2, <1>3, <1>4, <1>5, <1>6, <1>7, <1>8, <1>9, <1>10 DEF SinkStep

\* The calling thread.
LEMMA MainTyped ==
  ASSUME TypeInv, MainStep \/ MainFails \/ Close PROVE TypeInv'
<1> USE DEF TypeInv, TypeOK
<1>1. CASE Start
  <2>1. ChannelsOK' /\ SupervisionOK' /\ StagesOK' /\ LeasesOK' /\ ResultOK'
    BY <1>1 DEF Start, others, others, supervision, stageState, result, ChannelsOK,
       SupervisionOK, StagesOK, LeasesOK, ResultOK
  <2>2. ThreadsOK'
    BY <1>1 DEF Start, others, ThreadsOK, Label
  <2>3. Labels'
    BY <1>1, Threads DEF Start, others, ThreadsOK, Labels
  <2>4. InHand'
    BY <1>1, Threads DEF Start, others, ThreadsOK, InHand, stageState
  <2> QED
    BY <2>1, <2>2, <2>3, <2>4
<1>2. CASE HostPull
  <2>1. terminal # <<>> => Head(terminal) \in Lease /\ Tail(terminal) \in Seq(Lease)
    BY DEF LeasesOK
  <2>2. HostHoldsLimit => terminal # <<>>
    BY DEF HostHoldsLimit, LeasesOK
  <2>3. ChannelsOK' /\ SupervisionOK' /\ StagesOK' /\ ResultOK'
    BY <1>2 DEF HostPull, others, supervision, stageState, result, ChannelsOK, SupervisionOK,
       StagesOK, ResultOK
  <2>4. ThreadsOK'
    BY <1>2, <2>1, <2>2, Threads DEF HostPull, ThreadsOK, Label, Goto, Message
  <2>5. LeasesOK'
    BY <1>2, <2>1, <2>2, ReleaseOK, AddHandleOK DEF HostPull, LeasesOK
  <2>6. Labels'
    BY <1>2, <2>1, <2>2, Threads DEF HostPull, ThreadsOK, Labels, Goto
  <2>7. InHand'
    BY <1>2, <2>1, <2>2, Threads DEF HostPull, ThreadsOK, StagesOK, InHand, Goto, Message,
       others, supervision, stageState, result
  <2> QED
    BY <2>3, <2>4, <2>5, <2>6, <2>7
<1>3. CASE HostGetUnit
  <2>1. ChannelsOK' /\ Head(chan[N]) \in Envelope
    BY <1>3, DequeueOK, EndChannels DEF HostGetUnit, Message
  <2>2. Head(chan[N]).lease \in Lease
    BY <2>1, Envelopes
  <2>3. Seen(Head(chan[N])) \in [unit : Unit, bnds : Seq(Unit)]
    BY <2>1, Envelopes DEF Seen
  <2>4. SupervisionOK' /\ StagesOK'
    BY <1>3 DEF HostGetUnit, others, supervision, stageState, result, SupervisionOK, StagesOK
  <2>5. ChannelsOK'
    BY <2>1
  <2>6. ThreadsOK'
    BY <1>3, <2>1, <2>2, <2>3, Threads DEF HostGetUnit, ThreadsOK, Label, Goto, Message
  <2>7. LeasesOK'
    BY <1>3, <2>1, <2>2, <2>3, ReleaseOK, AddHandleOK DEF HostGetUnit, LeasesOK
  <2>8. ResultOK'
    BY <1>3, <2>1, <2>2, <2>3 DEF HostGetUnit, ResultOK
  <2>9. Labels'
    BY <1>3, <2>1, <2>2, <2>3, Threads DEF HostGetUnit, ThreadsOK, Labels, Goto
  <2>10. InHand'
    BY <1>3, <2>1, <2>2, <2>3, Threads DEF HostGetUnit, ThreadsOK, StagesOK, InHand, Goto,
       Message, others, supervision, stageState, result
  <2> QED
    BY <2>4, <2>5, <2>6, <2>7, <2>8, <2>9, <2>10
<1>4. CASE HostGetEos
  <2>1. StagesOK' /\ LeasesOK'
    BY <1>4 DEF HostGetEos, others, supervision, stageState, result, StagesOK, LeasesOK
  <2>2. ChannelsOK'
    BY <1>4, DequeueOK, EndChannels DEF HostGetEos
  <2>3. SupervisionOK'
    BY <1>4, Threads, FailOK DEF HostGetEos, SupervisionOK, supervision
  <2>4. ThreadsOK'
    BY <1>4, Threads DEF HostGetEos, ThreadsOK, Label, Goto, Fail, Cancel
  <2>5. ResultOK'
    BY <1>4 DEF HostGetEos, ResultOK
  <2>6. Labels'
    BY <1>4, Threads DEF HostGetEos, ThreadsOK, Labels, Goto, Fail, Cancel
  <2>7. InHand'
    BY <1>4, Threads DEF HostGetEos, ThreadsOK, InHand, Goto, Fail, Cancel, stageState
  <2> QED
    BY <2>1, <2>2, <2>3, <2>4, <2>5, <2>6, <2>7
<1>5. CASE HostGetClosed
  <2>1. ChannelsOK' /\ StagesOK' /\ LeasesOK'
    BY <1>5 DEF HostGetClosed, others, supervision, stageState, result, ChannelsOK, StagesOK,
       LeasesOK
  <2>2. SupervisionOK'
    BY <1>5, Threads, FailOK DEF HostGetClosed, SupervisionOK
  <2>3. ThreadsOK'
    BY <1>5, Threads DEF HostGetClosed, ThreadsOK, Label, Goto, Fail, Cancel
  <2>4. ResultOK'
    BY <1>5 DEF HostGetClosed, ResultOK
  <2>5. Labels'
    BY <1>5, Threads DEF HostGetClosed, ThreadsOK, Labels, Goto, Fail, Cancel
  <2>6. InHand'
    BY <1>5, Threads DEF HostGetClosed, ThreadsOK, InHand, Goto, Fail, Cancel, stageState
  <2> QED
    BY <2>1, <2>2, <2>3, <2>4, <2>5, <2>6
<1>6. CASE WaitReturns
  <2>1. ChannelsOK' /\ StagesOK' /\ LeasesOK'
    BY <1>6 DEF WaitReturns, others, supervision, stageState, result, ChannelsOK, StagesOK,
       LeasesOK
  <2>2. SupervisionOK'
    BY <1>6, Threads, FailOK DEF WaitReturns, SupervisionOK, supervision
  <2>3. ThreadsOK'
    BY <1>6, Threads DEF WaitReturns, ThreadsOK, Label, Goto, Fail, Cancel
  <2>4. ResultOK'
    BY <1>6 DEF WaitReturns, ResultOK
  <2>5. Labels'
    BY <1>6, Threads DEF WaitReturns, ThreadsOK, Labels, Goto, Fail, Cancel
  <2>6. InHand'
    BY <1>6, Threads DEF WaitReturns, ThreadsOK, InHand, Goto, Fail, Cancel, stageState
  <2> QED
    BY <2>1, <2>2, <2>3, <2>4, <2>5, <2>6
<1>7. CASE CloseNext(Main)
  BY <1>7, CloseNextTyped, Threads
<1>8. CASE Join
  <2>1. ChannelsOK' /\ StagesOK' /\ LeasesOK' /\ ResultOK'
    BY <1>8 DEF Join, others, supervision, stageState, result, ChannelsOK, StagesOK, LeasesOK,
       ResultOK
  <2>2. SupervisionOK'
    BY <1>8 DEF Join, SupervisionOK
  <2>3. ThreadsOK'
    BY <1>8, Threads DEF Join, ThreadsOK, Label, Goto, Message
  <2>4. Labels'
    BY <1>8, Threads DEF Join, ThreadsOK, Labels, Goto
  <2>5. InHand'
    BY <1>8, Threads DEF Join, ThreadsOK, StagesOK, InHand, Goto, Message, others,
       supervision, stageState, result
  <2> QED
    BY <2>1, <2>2, <2>3, <2>4, <2>5
<1>9. CASE \E c \in Chan : Drain(c)
  <2>1. PICK c \in Chan : Drain(c)
    BY <1>9
  <2>2. ChannelsOK' /\ Head(chan[c]) \in Message
    BY <2>1, DequeueOK DEF Drain
  <2>3. Head(chan[c]) # EOS => Head(chan[c]).lease \in Lease
    BY <2>2, Envelopes DEF Message
  <2>4. SupervisionOK' /\ ThreadsOK' /\ StagesOK' /\ ResultOK'
    BY <1>9 DEF Drain, others, supervision, stageState, result, SupervisionOK, ThreadsOK,
       StagesOK, ResultOK
  <2>5. ChannelsOK'
    BY <2>2
  <2>6. LeasesOK'
    BY <2>1, <2>3, ReleaseOK DEF Drain, LeasesOK
  <2>7. Labels'
    BY <1>9, <2>1, <2>2, <2>3, Threads DEF Drain, ThreadsOK, Labels, Goto
  <2>8. InHand'
    BY <1>9, <2>1, <2>2, <2>3, Threads DEF Drain, ThreadsOK, StagesOK, InHand, Goto, Message,
       others, supervision, stageState, result
  <2> QED
    BY <2>4, <2>5, <2>6, <2>7, <2>8
<1>10. CASE DropTerminal
  <2>1. terminal # <<>> => Head(terminal) \in Lease /\ Tail(terminal) \in Seq(Lease)
    BY DEF LeasesOK
  <2>2. ChannelsOK' /\ SupervisionOK' /\ ThreadsOK' /\ StagesOK' /\ ResultOK'
    BY <1>10 DEF DropTerminal, others, supervision, stageState, result, ChannelsOK,
       SupervisionOK, ThreadsOK, StagesOK, ResultOK
  <2>3. LeasesOK'
    BY <1>10, <2>1, ReleaseOK, AddHandleOK DEF DropTerminal, LeasesOK
  <2>4. Labels'
    BY <1>10, <2>1, Threads DEF DropTerminal, ThreadsOK, Labels, Goto
  <2>5. InHand'
    BY <1>10, <2>1, Threads DEF DropTerminal, ThreadsOK, StagesOK, InHand, Goto, Message,
       others, supervision, stageState, result
  <2> QED
    BY <2>2, <2>3, <2>4, <2>5
<1>11. CASE CloseAll
  <2>1. ChannelsOK' /\ SupervisionOK' /\ StagesOK' /\ LeasesOK' /\ ResultOK'
    BY <1>11 DEF CloseAll, Move, others, supervision, stageState, result, ChannelsOK,
       SupervisionOK, StagesOK, LeasesOK, ResultOK
  <2>2. ThreadsOK'
    BY <1>11, Threads DEF CloseAll, Move, ThreadsOK, Label, Goto, Message, others
  <2>3. Labels'
    BY <1>11, Threads DEF CloseAll, Move, ThreadsOK, Labels, Goto, others
  <2>4. InHand'
    BY <1>11, Threads DEF CloseAll, Move, ThreadsOK, StagesOK, InHand, Goto, Message, others,
       supervision, stageState, result
  <2> QED
    BY <2>1, <2>2, <2>3, <2>4
<1>12. CASE StartFails
  <2>1. ChannelsOK' /\ StagesOK' /\ LeasesOK'
    BY <1>12 DEF StartFails, others, supervision, stageState, result, ChannelsOK, StagesOK,
       LeasesOK
  <2>2. SupervisionOK'
    BY <1>12, Threads, FailOK DEF StartFails, SupervisionOK
  <2>3. ThreadsOK'
    BY <1>12, Threads DEF StartFails, ThreadsOK, Label, Goto, Fail, Cancel
  <2>4. ResultOK'
    BY <1>12 DEF StartFails, ResultOK
  <2>5. Labels'
    BY <1>12, Threads DEF StartFails, ThreadsOK, Labels, Goto, Fail, Cancel
  <2>6. InHand'
    BY <1>12, Threads DEF StartFails, ThreadsOK, InHand, Goto, Fail, Cancel, stageState
  <2> QED
    BY <2>1, <2>2, <2>3, <2>4, <2>5, <2>6
<1>13. CASE Close
  <2>1. ChannelsOK' /\ StagesOK' /\ LeasesOK'
    BY <1>13 DEF Close, others, supervision, stageState, result, ChannelsOK, StagesOK, LeasesOK
  <2>2. SupervisionOK'
    BY <1>13, Threads, FailOK DEF Close, SupervisionOK
  <2>3. ThreadsOK'
    BY <1>13, Threads DEF Close, ThreadsOK, Label, Goto, Fail, Cancel
  <2>4. ResultOK'
    BY <1>13 DEF Close, ResultOK
  <2>5. Labels'
    BY <1>13, Threads DEF Close, ThreadsOK, Labels, Goto, Fail, Cancel
  <2>6. InHand'
    BY <1>13, Threads DEF Close, ThreadsOK, InHand, Goto, Fail, Cancel, stageState
  <2> QED
    BY <2>1, <2>2, <2>3, <2>4, <2>5, <2>6
<1>14. CASE HostRaises
  <2>1. ChannelsOK' /\ StagesOK' /\ LeasesOK'
    BY <1>14 DEF HostRaises, others, supervision, stageState, result, ChannelsOK, StagesOK,
       LeasesOK
  <2>2. SupervisionOK'
    BY <1>14, Threads, FailOK DEF HostRaises, SupervisionOK
  <2>3. ThreadsOK'
    BY <1>14, Threads DEF HostRaises, ThreadsOK, Label, Goto, Fail, Cancel
  <2>4. ResultOK'
    BY <1>14 DEF HostRaises, ResultOK
  <2>5. Labels'
    BY <1>14, Threads DEF HostRaises, ThreadsOK, Labels, Goto, Fail, Cancel
  <2>6. InHand'
    BY <1>14, Threads DEF HostRaises, ThreadsOK, InHand, Goto, Fail, Cancel, stageState
  <2> QED
    BY <2>1, <2>2, <2>3, <2>4, <2>5, <2>6
<1>15. CASE HostInterrupted
  <2>1. ChannelsOK' /\ StagesOK' /\ LeasesOK'
    BY <1>15 DEF HostInterrupted, others, supervision, stageState, result, ChannelsOK, StagesOK,
       LeasesOK
  <2>2. SupervisionOK'
    BY <1>15, Threads, FailOK DEF HostInterrupted, SupervisionOK
  <2>3. ThreadsOK'
    BY <1>15, Threads DEF HostInterrupted, ThreadsOK, Label, Goto, Fail, Cancel
  <2>4. ResultOK'
    BY <1>15 DEF HostInterrupted, ResultOK
  <2>5. Labels'
    BY <1>15, Threads DEF HostInterrupted, ThreadsOK, Labels, Goto, Fail, Cancel
  <2>6. InHand'
    BY <1>15, Threads DEF HostInterrupted, ThreadsOK, InHand, Goto, Fail, Cancel, stageState
  <2> QED
    BY <2>1, <2>2, <2>3, <2>4, <2>5, <2>6
<1>16. CASE HostUnitFails
  <2>1. ChannelsOK' /\ Head(chan[N]) \in Envelope
    BY <1>16, DequeueOK, EndChannels DEF HostUnitFails, Message
  <2>2. Head(chan[N]).lease \in Lease
    BY <2>1, Envelopes
  <2>3. SupervisionOK' /\ StagesOK'
    BY <1>16 DEF HostUnitFails, others, supervision, stageState, result, SupervisionOK, StagesOK
  <2>4. ChannelsOK'
    BY <2>1
  <2>5. ThreadsOK'
    BY <1>16, <2>1, <2>2, Threads DEF HostUnitFails, ThreadsOK, Label, Goto, Message
  <2>6. LeasesOK'
    BY <1>16, <2>1, <2>2, ReleaseOK, AddHandleOK DEF HostUnitFails, LeasesOK
  <2>7. ResultOK'
    BY <1>16, <2>1, <2>2 DEF HostUnitFails, ResultOK, result
  <2>8. Labels'
    BY <1>16, <2>1, <2>2, Threads DEF HostUnitFails, ThreadsOK, Labels, Goto
  <2>9. InHand'
    BY <1>16, <2>1, <2>2, Threads DEF HostUnitFails, ThreadsOK, StagesOK, InHand, Goto,
       Message, others, supervision, stageState, result
  <2> QED
    BY <2>3, <2>4, <2>5, <2>6, <2>7, <2>8, <2>9
<1> QED
  BY <1>1, <1>2, <1>3, <1>4, <1>5, <1>6, <1>7, <1>8, <1>9, <1>10, <1>11, <1>12, <1>13,
     <1>14, <1>15, <1>16 DEF MainStep, MainFails

-----------------------------------------------------------------------------
(* The types *)

\* The initial state is typed.
LEMMA InitTyped == Init => TypeInv
<1> SUFFICES ASSUME Init PROVE TypeInv
  OBVIOUS
<1> USE DEF Init
<1>1. \A S : <<>> \in Seq(S) /\ Len(<<>>) = 0
  OBVIOUS
<1>2. ChannelsOK
  BY <1>1, Capacities DEF ChannelsOK
<1>3. SupervisionOK
  <2>1. 0 \in 0..(2 * N + 1)
    BY GraphConstants
  <2> QED
    BY <2>1 DEF SupervisionOK
<1>4. ThreadsOK
  BY GraphConstants DEF ThreadsOK, Label
<1>5. StagesOK
  BY <1>1, GraphConstants DEF StagesOK
<1>6. LeasesOK
  BY <1>1, GraphConstants DEF LeasesOK
<1>7. ResultOK
  BY <1>1 DEF ResultOK
<1>8. Labels /\ InHand
  BY Threads DEF Labels, InHand
<1> QED
  BY <1>2, <1>3, <1>4, <1>5, <1>6, <1>7, <1>8 DEF TypeInv, TypeOK

\* Every step keeps the types.
LEMMA NextTyped == TypeInv /\ [Next]_vars => TypeInv'
<1> SUFFICES ASSUME TypeInv, [Next]_vars PROVE TypeInv'
  OBVIOUS
<1>1. CASE SourceStep
  BY <1>1, SourceTyped
<1>2. CASE \E i \in Stage : StageStep(i) \/ CourierStep(i)
  BY <1>2, StageTyped, CourierTyped
<1>3. CASE SinkStep
  BY <1>3, SinkTyped
<1>4. CASE MainStep \/ MainFails \/ Close
  BY <1>4, MainTyped
<1>5. CASE Finished \/ UNCHANGED vars
  BY <1>5 DEF Finished, vars, others, supervision, stageState, result, TypeInv, TypeOK,
     ChannelsOK, SupervisionOK, ThreadsOK, StagesOK, LeasesOK, ResultOK, Labels, InHand
<1> QED
  BY <1>1, <1>2, <1>3, <1>4, <1>5 DEF Next

\* Every variable keeps its type, and no channel ever holds more messages
\* than its bound (pipeline/channels.py), whatever the operations, the stream
\* and the failures are.
THEOREM TypeCorrect == Spec => []TypeOK
<1>1. TypeInv => TypeOK
  BY DEF TypeInv
<1> QED
  BY <1>1, InitTyped, NextTyped, PTL DEF Spec

-----------------------------------------------------------------------------
(* Who is past the point where it can fail *)

\* Thread t runs no callback any more.
Spent(t) == pc[t] \in {"closing", "finally", "done"}

UpstreamSpent(j) == Spent(Source) /\ \A i \in Stage : i <= j => Spent(Worker(i))

EosIn(c) == \E k \in DOMAIN chan[c] : chan[c][k] = EOS

\* Whoever has received the end of the stream has only spent actors before it.
EosQueued ==
  /\ \A c \in Edge : EosIn(c) => UpstreamSpent(c)
  /\ \A i \in Stage : EosIn(PendingOf(i)) => UpstreamSpent(i)

EosHeld ==
  \A i \in Stage :
    /\ cur[Courier(i)] = EOS => UpstreamSpent(i)
    /\ pc[Worker(i)] = "eos" => UpstreamSpent(i - 1)
    /\ pc[Worker(i)] \in {"publish", "emit", "put"} /\ kind[i] = "eos" => UpstreamSpent(i - 1)

\* Nothing runs before the start; channels close only after the flag is up;
\* an early finish is the last thing a sink does.
Phases ==
  /\ pc[Main] = "new" => ~cancelled /\ \A t \in Thread \ {Main} : pc[t] = "new"
  /\ closed # {} => cancelled \/ pc[Main] \in {"drain", "closed"}
  /\ \A t \in Thread : pc[t] = "closing" => cancelled
  /\ finished = "early" => Spent(Sink)
  /\ pc[Main] \in {"idle", "get", "raise"} => pc[Sink] = "done" /\ (cancelled => failed)

\* Why the sink is through while the calling thread still waits for it.
SinkEnd ==
  pc[Main] = "wait" =>
    /\ cancelled => failed \/ finished = "early"
    /\ pc[Sink] \in {"finally", "done"} =>
         failed \/ finished = "early" \/ UpstreamSpent(N)

\* A run that ended has nobody left who could fail.
Settled ==
  outcome = "ended" /\ finished # "early" =>
    /\ ~failed /\ ~cancelled
    /\ UpstreamSpent(N)
    /\ pc[Sink] = "done"
    /\ pc[Main] \in {"join", "drain", "closed"}

OutcomeInv == EosQueued /\ EosHeld /\ Phases /\ SinkEnd /\ Settled

-----------------------------------------------------------------------------
(* Lemmas *)

\* What putting, taking and leaving messages does to the place of EOS.
LEMMA EosEnqueue ==
  ASSUME ChannelsOK, NEW c \in Chan, NEW m, Enqueue(c, m), NEW d \in Chan, EosIn(d)'
  PROVE  EosIn(d) \/ (d = c /\ m = EOS)
BY DEF ChannelsOK, Enqueue, EosIn

\* A get brings no end of stream into a channel.
LEMMA EosDequeue ==
  ASSUME ChannelsOK, NEW c \in Chan, HasItem(c), Dequeue(c), NEW d \in Chan, EosIn(d)'
  PROVE  EosIn(d)
<1>1. CASE d # c
  BY <1>1 DEF ChannelsOK, Dequeue, EosIn
<1>2. CASE d = c
  <2>1. chan[c] \in Seq(Message) /\ chan[c] # <<>> /\ chan'[c] = Tail(chan[c])
    BY DEF ChannelsOK, HasItem, Dequeue
  <2>2. PICK k \in DOMAIN chan'[c] : chan'[c][k] = EOS
    BY <1>2 DEF EosIn
  <2>3. k + 1 \in DOMAIN chan[c] /\ chan[c][k + 1] = EOS
    BY <2>1, <2>2
  <2> QED
    BY <1>2, <2>3 DEF EosIn
<1> QED
  BY <1>1, <1>2

\* A message at the head of a channel is in it.
LEMMA EosHead ==
  ASSUME ChannelsOK, NEW c \in Chan, HasItem(c), Head(chan[c]) = EOS
  PROVE  EosIn(c)
<1>1. chan[c] \in Seq(Message) /\ chan[c] # <<>>
  BY DEF ChannelsOK, HasItem
<1>2. 1 \in DOMAIN chan[c] /\ chan[c][1] = EOS
  BY <1>1
<1> QED
  BY <1>2 DEF EosIn

\* The channels are where the actions look for them.
LEMMA ChannelPlaces ==
  /\ Edge \subseteq Chan /\ 0 \in Edge /\ N \in Edge
  /\ \A i \in Stage : /\ i \in Edge /\ i - 1 \in Edge /\ PendingOf(i) \in Chan
                      /\ PendingOf(i) \notin Edge
                      /\ \A j \in Stage : PendingOf(i) = PendingOf(j) => i = j
BY GraphConstants DEF Stage, Edge, Chan, PendingOf

-----------------------------------------------------------------------------
(* Every step keeps the outcome *)

\* Closing one more channel, or leaving fail() and cancel().
LEMMA CloseNextSettled ==
  ASSUME TypeInv, OutcomeInv, NEW t \in Thread, CloseNext(t) PROVE OutcomeInv'
<1> USE DEF TypeInv, TypeOK, OutcomeInv
<1>1. CASE CloseNext(t)
  <2>1. t \in {Source, Sink, Main} \/ \E i \in Stage : t = Worker(i)
    BY <1>1, ThreadCases DEF CloseNext, Labels
  <2>2. cancelled
    BY <1>1 DEF CloseNext, Phases
  <2>3. \A j : UpstreamSpent(j) => UpstreamSpent(j)'
    BY <1>1, <2>1, <2>2, Threads DEF CloseNext, ThreadsOK, Goto, Spent, UpstreamSpent, others,
       supervision, stageState, result
  <2>4. \A c \in Chan : EosIn(c)' => EosIn(c)
    BY <1>1 DEF CloseNext, EosIn, others, supervision, stageState, result
  <2>5. EosQueued'
    BY <2>3, <2>4, ChannelPlaces DEF EosQueued
  <2>6. EosHeld'
    BY <1>1, <2>3, <2>1, <2>2, Threads DEF CloseNext, ThreadsOK, StagesOK, EosHeld, Goto,
       stageState
  <2>7. Phases'
    BY <1>1, <2>1, <2>2, Threads DEF CloseNext, ThreadsOK, Labels, Phases, Spent, Goto,
       others, supervision, stageState, result
  <2>8. (SinkEnd /\ Settled)'
    BY <1>1, <2>3, <2>1, <2>2, Threads, ChannelPlaces, EosHead DEF CloseNext, ThreadsOK,
       Labels, Phases, SinkEnd, Settled, EosQueued, Spent, Goto, others, supervision,
       stageState, result
  <2> QED
    BY <2>5, <2>6, <2>7, <2>8
<1> QED
  BY <1>1

\* The finally clause of a worker.
LEMMA FinallySettled ==
  ASSUME TypeInv, OutcomeInv, NEW t \in Thread, Finally(t) PROVE OutcomeInv'
<1> USE DEF TypeInv, TypeOK, OutcomeInv
<1>1. CASE Finally(t)
  <2>1. t # Main
    BY <1>1 DEF Finally, Labels
  <2>2. \A j : UpstreamSpent(j) => UpstreamSpent(j)'
    BY <1>1, <2>1, Threads DEF Finally, ThreadsOK, Goto, Spent, UpstreamSpent, others,
       supervision, stageState, result
  <2>3. \A c \in Chan : EosIn(c)' => EosIn(c)
    BY <1>1 DEF Finally, EosIn, others, supervision, stageState, result
  <2>4. EosQueued'
    BY <2>2, <2>3, ChannelPlaces DEF EosQueued
  <2>5. EosHeld'
    BY <1>1, <2>2, <2>1, Threads, GraphConstants DEF Finally, ThreadsOK, StagesOK, EosHeld,
       Goto, stageState
  <2>6. Phases'
    BY <1>1, <2>1, Threads DEF Finally, ThreadsOK, Labels, Phases, Spent, Goto, others,
       supervision, stageState, result
  <2>7. (SinkEnd /\ Settled)'
    BY <1>1, <2>2, <2>1, Threads, ChannelPlaces, EosHead DEF Finally, ThreadsOK, Labels,
       Phases, SinkEnd, Settled, EosQueued, Spent, Goto, others, supervision, stageState,
       result
  <2> QED
    BY <2>4, <2>5, <2>6, <2>7
<1> QED
  BY <1>1

\* The source actor.
LEMMA SourceSettled ==
  ASSUME TypeInv, OutcomeInv, SourceStep PROVE OutcomeInv'
<1> USE DEF TypeInv, TypeOK, OutcomeInv
<1>1. CASE SourceNext
  <2>1. \A j : UpstreamSpent(j) => UpstreamSpent(j)'
    BY <1>1, Threads DEF SourceNext, ThreadsOK, Goto, Spent, UpstreamSpent, others,
       supervision, stageState, result
  <2>2. \A c \in Chan : EosIn(c)' => EosIn(c)
    BY <1>1 DEF SourceNext, EosIn, others, supervision, stageState, result
  <2>3. EosQueued'
    BY <2>1, <2>2, ChannelPlaces DEF EosQueued
  <2>4. EosHeld'
    BY <1>1, <2>1, Threads, GraphConstants DEF SourceNext, ThreadsOK, StagesOK, EosHeld, Goto,
       stageState
  <2>5. Phases'
    BY <1>1, Threads DEF SourceNext, ThreadsOK, Labels, Phases, Spent, Goto, others,
       supervision, stageState, result
  <2>6. (SinkEnd /\ Settled)'
    BY <1>1, <2>1, Threads, ChannelPlaces, EosHead DEF SourceNext, ThreadsOK, Labels, Phases,
       SinkEnd, Settled, EosQueued, Spent, Goto, others, supervision, stageState, result
  <2> QED
    BY <2>3, <2>4, <2>5, <2>6
<1>2. CASE SourceExhausted
  <2>1. \A j : UpstreamSpent(j) => UpstreamSpent(j)'
    BY <1>2, Threads DEF SourceExhausted, ThreadsOK, Goto, Spent, UpstreamSpent, others,
       supervision, stageState, result
  <2>2. \A c \in Chan : EosIn(c)' => EosIn(c)
    BY <1>2 DEF SourceExhausted, EosIn, others, supervision, stageState, result
  <2>3. EosQueued'
    BY <2>1, <2>2, ChannelPlaces DEF EosQueued
  <2>4. EosHeld'
    BY <1>2, <2>1, Threads DEF SourceExhausted, ThreadsOK, StagesOK, EosHeld, Goto, stageState
  <2>5. Phases'
    BY <1>2, Threads DEF SourceExhausted, ThreadsOK, Labels, Phases, Spent, Goto, others,
       supervision, stageState, result
  <2>6. (SinkEnd /\ Settled)'
    BY <1>2, <2>1, Threads, ChannelPlaces, EosHead DEF SourceExhausted, ThreadsOK, Labels,
       Phases, SinkEnd, Settled, EosQueued, Spent, Goto, others, supervision, stageState,
       result
  <2> QED
    BY <2>3, <2>4, <2>5, <2>6
<1>3. CASE SourcePut
  <2>1. cur[Source] = EOS => UpstreamSpent(0)'
    BY <1>3, Threads DEF SourcePut, ThreadsOK, Goto, UpstreamSpent, Spent, Stage
  <2>2. \A j : UpstreamSpent(j) => UpstreamSpent(j)'
    BY <1>3, <2>1, Threads DEF SourcePut, ThreadsOK, Goto, Spent, UpstreamSpent, others,
       supervision, stageState, result
  <2>3. \A c \in Chan : EosIn(c)' => EosIn(c) \/ (c = 0 /\ cur[Source] = EOS)
    BY <1>3, EosEnqueue, ChannelPlaces DEF SourcePut
  <2>4. EosQueued'
    BY <2>1, <2>2, <2>3, ChannelPlaces DEF EosQueued
  <2>5. EosHeld'
    BY <1>3, <2>2, <2>1, Threads DEF SourcePut, ThreadsOK, StagesOK, EosHeld, Goto, stageState
  <2>6. Phases'
    BY <1>3, <2>1, Threads DEF SourcePut, ThreadsOK, Labels, Phases, Spent, Goto, others,
       supervision, stageState, result
  <2>7. (SinkEnd /\ Settled)'
    BY <1>3, <2>2, <2>1, Threads, ChannelPlaces, EosHead DEF SourcePut, ThreadsOK, Labels,
       Phases, SinkEnd, Settled, EosQueued, Spent, Goto, others, supervision, stageState,
       result
  <2> QED
    BY <2>4, <2>5, <2>6, <2>7
<1>4. CASE SourceRefused
  <2>1. \A j : UpstreamSpent(j) => UpstreamSpent(j)'
    BY <1>4, Threads DEF SourceRefused, Move, ThreadsOK, Goto, Spent, UpstreamSpent, others,
       supervision, stageState, result
  <2>2. \A c \in Chan : EosIn(c)' => EosIn(c)
    BY <1>4 DEF SourceRefused, Move, EosIn, others, supervision, stageState, result
  <2>3. EosQueued'
    BY <2>1, <2>2, ChannelPlaces DEF EosQueued
  <2>4. EosHeld'
    BY <1>4, <2>1, Threads DEF SourceRefused, Move, ThreadsOK, StagesOK, EosHeld, Goto,
       others, stageState
  <2>5. Phases'
    BY <1>4, Threads DEF SourceRefused, Move, ThreadsOK, Labels, Phases, Spent, Goto, others,
       supervision, stageState, result
  <2>6. (SinkEnd /\ Settled)'
    BY <1>4, <2>1, Threads, ChannelPlaces, EosHead DEF SourceRefused, Move, ThreadsOK, Labels,
       Phases, SinkEnd, Settled, EosQueued, Spent, Goto, others, supervision, stageState,
       result
  <2> QED
    BY <2>3, <2>4, <2>5, <2>6
<1>5. CASE SourceFails
  <2>1. ~UpstreamSpent(N) \/ cancelled
    BY <1>5 DEF SourceFails, Fail, Cancel, UpstreamSpent, Spent
  <2>2. \A j : UpstreamSpent(j) => UpstreamSpent(j)'
    BY <1>5, <2>1, Threads DEF SourceFails, Fail, Cancel, ThreadsOK, Goto, Spent,
       UpstreamSpent, others, supervision, stageState, result
  <2>3. \A c \in Chan : EosIn(c)' => EosIn(c)
    BY <1>5 DEF SourceFails, Fail, Cancel, EosIn, others, supervision, stageState, result
  <2>4. EosQueued'
    BY <2>2, <2>3, ChannelPlaces DEF EosQueued
  <2>5. EosHeld'
    BY <1>5, <2>2, <2>1, Threads DEF SourceFails, Fail, Cancel, ThreadsOK, StagesOK, EosHeld,
       Goto, stageState
  <2>6. Phases'
    BY <1>5, <2>1, Threads DEF SourceFails, Fail, Cancel, ThreadsOK, Labels, Phases, Spent,
       Goto, others, supervision, stageState, result
  <2>7. (SinkEnd /\ Settled)'
    BY <1>5, <2>2, <2>1, Threads, ChannelPlaces, EosHead DEF SourceFails, Fail, Cancel,
       ThreadsOK, Labels, Phases, SinkEnd, Settled, EosQueued, Spent, Goto, others,
       supervision, stageState, result
  <2> QED
    BY <2>4, <2>5, <2>6, <2>7
<1>6. CASE CloseNext(Source)
  BY <1>6, CloseNextSettled, Threads
<1>7. CASE Finally(Source)
  BY <1>7, FinallySettled, Threads
<1> QED
  BY <1>1, <1>2, <1>3, <1>4, <1>5, <1>6, <1>7 DEF SourceStep

\* A stage actor.
LEMMA StageSettled ==
  ASSUME TypeInv, OutcomeInv, NEW i \in Stage, StageStep(i) PROVE OutcomeInv'
<1> USE DEF TypeInv, TypeOK, OutcomeInv
<1>1. CASE StageTop(i)
  <2>1. \A j : UpstreamSpent(j) => UpstreamSpent(j)'
    BY <1>1, Threads DEF StageTop, Move, ThreadsOK, Goto, Spent, UpstreamSpent, others,
       supervision, stageState, result
  <2>2. \A c \in Chan : EosIn(c)' => EosIn(c)
    BY <1>1 DEF StageTop, Move, EosIn, others, supervision, stageState, result
  <2>3. EosQueued'
    BY <2>1, <2>2, ChannelPlaces DEF EosQueued
  <2>4. EosHeld'
    BY <1>1, <2>1, Threads DEF StageTop, Move, ThreadsOK, StagesOK, EosHeld, Goto, others,
       stageState
  <2>5. Phases'
    BY <1>1, Threads DEF StageTop, Move, ThreadsOK, Labels, Phases, Spent, Goto, others,
       supervision, stageState, result
  <2>6. (SinkEnd /\ Settled)'
    BY <1>1, <2>1, Threads, ChannelPlaces, EosHead DEF StageTop, Move, ThreadsOK, Labels,
       Phases, SinkEnd, Settled, EosQueued, Spent, Goto, others, supervision, stageState,
       result
  <2> QED
    BY <2>3, <2>4, <2>5, <2>6
<1>2. CASE StageGetEos(i)
  <2>1. UpstreamSpent(i - 1)
    BY <1>2, EosHead, ChannelPlaces DEF StageGetEos, EosQueued
  <2>2. \A j : UpstreamSpent(j) => UpstreamSpent(j)'
    BY <1>2, <2>1, Threads DEF StageGetEos, StartFlush, ThreadsOK, Goto, Spent, UpstreamSpent,
       others, supervision, stageState, result
  <2>3. \A c \in Chan : EosIn(c)' => EosIn(c)
    BY <1>2, <2>1, EosDequeue, ChannelPlaces DEF StageGetEos, StartFlush
  <2>4. EosQueued'
    BY <2>2, <2>3, ChannelPlaces DEF EosQueued
  <2>5. EosHeld'
    BY <1>2, <2>2, <2>1, Threads DEF StageGetEos, StartFlush, ThreadsOK, StagesOK, EosHeld,
       Goto, stageState
  <2>6. Phases'
    BY <1>2, <2>1, Threads DEF StageGetEos, StartFlush, ThreadsOK, Labels, Phases, Spent,
       Goto, others, supervision, stageState, result
  <2>7. (SinkEnd /\ Settled)'
    BY <1>2, <2>2, <2>1, Threads, ChannelPlaces, EosHead DEF StageGetEos, StartFlush,
       ThreadsOK, Labels, Phases, SinkEnd, Settled, EosQueued, Spent, Goto, others,
       supervision, stageState, result
  <2> QED
    BY <2>4, <2>5, <2>6, <2>7
<1>3. CASE StageGetUnit(i)
  <2>1. \A j : UpstreamSpent(j) => UpstreamSpent(j)'
    BY <1>3, Threads DEF StageGetUnit, StartFlush, ThreadsOK, Goto, Spent, UpstreamSpent,
       others, supervision, stageState, result
  <2>2. \A c \in Chan : EosIn(c)' => EosIn(c)
    BY <1>3, EosDequeue, ChannelPlaces DEF StageGetUnit, StartFlush
  <2>3. EosQueued'
    BY <2>1, <2>2, ChannelPlaces DEF EosQueued
  <2>4. EosHeld'
    BY <1>3, <2>1, Threads DEF StageGetUnit, StartFlush, ThreadsOK, StagesOK, EosHeld, Goto,
       stageState
  <2>5. Phases'
    BY <1>3, Threads DEF StageGetUnit, StartFlush, ThreadsOK, Labels, Phases, Spent, Goto,
       others, supervision, stageState, result
  <2>6. (SinkEnd /\ Settled)'
    BY <1>3, <2>1, Threads, ChannelPlaces, EosHead DEF StageGetUnit, StartFlush, ThreadsOK,
       Labels, Phases, SinkEnd, Settled, EosQueued, Spent, Goto, others, supervision,
       stageState, result
  <2> QED
    BY <2>3, <2>4, <2>5, <2>6
<1>4. CASE StageGetClosed(i)
  <2>1. \A j : UpstreamSpent(j) => UpstreamSpent(j)'
    BY <1>4, Threads DEF StageGetClosed, Move, ThreadsOK, Goto, Spent, UpstreamSpent, others,
       supervision, stageState, result
  <2>2. \A c \in Chan : EosIn(c)' => EosIn(c)
    BY <1>4 DEF StageGetClosed, Move, EosIn, others, supervision, stageState, result
  <2>3. EosQueued'
    BY <2>1, <2>2, ChannelPlaces DEF EosQueued
  <2>4. EosHeld'
    BY <1>4, <2>1, Threads DEF StageGetClosed, Move, ThreadsOK, StagesOK, EosHeld, Goto,
       others, stageState
  <2>5. Phases'
    BY <1>4, Threads DEF StageGetClosed, Move, ThreadsOK, Labels, Phases, Spent, Goto, others,
       supervision, stageState, result
  <2>6. (SinkEnd /\ Settled)'
    BY <1>4, <2>1, Threads, ChannelPlaces, EosHead DEF StageGetClosed, Move, ThreadsOK,
       Labels, Phases, SinkEnd, Settled, EosQueued, Spent, Goto, others, supervision,
       stageState, result
  <2> QED
    BY <2>3, <2>4, <2>5, <2>6
<1>5. CASE StageReset(i)
  <2>1. \A j : UpstreamSpent(j) => UpstreamSpent(j)'
    BY <1>5, Threads DEF StageReset, ThreadsOK, Goto, Spent, UpstreamSpent, others,
       supervision, stageState, result
  <2>2. \A c \in Chan : EosIn(c)' => EosIn(c)
    BY <1>5 DEF StageReset, EosIn, others, supervision, stageState, result
  <2>3. EosQueued'
    BY <2>1, <2>2, ChannelPlaces DEF EosQueued
  <2>4. EosHeld'
    BY <1>5, <2>1, Threads DEF StageReset, ThreadsOK, StagesOK, EosHeld, Goto, stageState
  <2>5. Phases'
    BY <1>5, Threads DEF StageReset, ThreadsOK, Labels, Phases, Spent, Goto, others,
       supervision, stageState, result
  <2>6. (SinkEnd /\ Settled)'
    BY <1>5, <2>1, Threads, ChannelPlaces, EosHead DEF StageReset, ThreadsOK, Labels, Phases,
       SinkEnd, Settled, EosQueued, Spent, Goto, others, supervision, stageState, result
  <2> QED
    BY <2>3, <2>4, <2>5, <2>6
<1>6. CASE StageProcess(i)
  <2>1. \A j : UpstreamSpent(j) => UpstreamSpent(j)'
    BY <1>6, Threads DEF StageProcess, ThreadsOK, Goto, Spent, UpstreamSpent, others,
       supervision, stageState, result
  <2>2. \A c \in Chan : EosIn(c)' => EosIn(c)
    BY <1>6 DEF StageProcess, EosIn, others, supervision, stageState, result
  <2>3. EosQueued'
    BY <2>1, <2>2, ChannelPlaces DEF EosQueued
  <2>4. EosHeld'
    BY <1>6, <2>1, Threads DEF StageProcess, ThreadsOK, StagesOK, EosHeld, Goto, stageState
  <2>5. Phases'
    BY <1>6, Threads DEF StageProcess, ThreadsOK, Labels, Phases, Spent, Goto, others,
       supervision, stageState, result
  <2>6. (SinkEnd /\ Settled)'
    BY <1>6, <2>1, Threads, ChannelPlaces, EosHead DEF StageProcess, ThreadsOK, Labels,
       Phases, SinkEnd, Settled, EosQueued, Spent, Goto, others, supervision, stageState,
       result
  <2> QED
    BY <2>3, <2>4, <2>5, <2>6
<1>7. CASE StageEmit(i)
  <2>1. \A j : UpstreamSpent(j) => UpstreamSpent(j)'
    BY <1>7, Threads DEF StageEmit, ThreadsOK, Goto, Spent, UpstreamSpent, others,
       supervision, stageState, result
  <2>2. \A c \in Chan : EosIn(c)' => EosIn(c)
    BY <1>7 DEF StageEmit, EosIn, others, supervision, stageState, result
  <2>3. EosQueued'
    BY <2>1, <2>2, ChannelPlaces DEF EosQueued
  <2>4. EosHeld'
    BY <1>7, <2>1, Threads DEF StageEmit, ThreadsOK, StagesOK, EosHeld, Goto, stageState
  <2>5. Phases'
    BY <1>7, Threads DEF StageEmit, ThreadsOK, Labels, Phases, Spent, Goto, others,
       supervision, stageState, result
  <2>6. (SinkEnd /\ Settled)'
    BY <1>7, <2>1, Threads, ChannelPlaces, EosHead DEF StageEmit, ThreadsOK, Labels, Phases,
       SinkEnd, Settled, EosQueued, Spent, Goto, others, supervision, stageState, result
  <2> QED
    BY <2>3, <2>4, <2>5, <2>6
<1>8. CASE StagePut(i)
  <2>1. out[i] # EOS
    BY <1>8, GraphConstants DEF StagePut, InHand
  <2>2. \A j : UpstreamSpent(j) => UpstreamSpent(j)'
    BY <1>8, <2>1, Threads DEF StagePut, ThreadsOK, Goto, Spent, UpstreamSpent, others,
       supervision, stageState, result
  <2>3. \A c \in Chan : EosIn(c)' => EosIn(c)
    BY <1>8, <2>1, EosEnqueue, ChannelPlaces DEF StagePut
  <2>4. EosQueued'
    BY <2>2, <2>3, ChannelPlaces DEF EosQueued
  <2>5. EosHeld'
    BY <1>8, <2>2, <2>1, Threads DEF StagePut, ThreadsOK, StagesOK, EosHeld, Goto, stageState
  <2>6. Phases'
    BY <1>8, <2>1, Threads DEF StagePut, ThreadsOK, Labels, Phases, Spent, Goto, others,
       supervision, stageState, result
  <2>7. (SinkEnd /\ Settled)'
    BY <1>8, <2>2, <2>1, Threads, ChannelPlaces, EosHead DEF StagePut, ThreadsOK, Labels,
       Phases, SinkEnd, Settled, EosQueued, Spent, Goto, others, supervision, stageState,
       result
  <2> QED
    BY <2>4, <2>5, <2>6, <2>7
<1>9. CASE StagePutRefused(i)
  <2>1. \A j : UpstreamSpent(j) => UpstreamSpent(j)'
    BY <1>9, Threads DEF StagePutRefused, ThreadsOK, Goto, Spent, UpstreamSpent, others,
       supervision, stageState, result
  <2>2. \A c \in Chan : EosIn(c)' => EosIn(c)
    BY <1>9 DEF StagePutRefused, EosIn, others, supervision, stageState, result
  <2>3. EosQueued'
    BY <2>1, <2>2, ChannelPlaces DEF EosQueued
  <2>4. EosHeld'
    BY <1>9, <2>1, Threads DEF StagePutRefused, ThreadsOK, StagesOK, EosHeld, Goto, stageState
  <2>5. Phases'
    BY <1>9, Threads DEF StagePutRefused, ThreadsOK, Labels, Phases, Spent, Goto, others,
       supervision, stageState, result
  <2>6. (SinkEnd /\ Settled)'
    BY <1>9, <2>1, Threads, ChannelPlaces, EosHead DEF StagePutRefused, ThreadsOK, Labels,
       Phases, SinkEnd, Settled, EosQueued, Spent, Goto, others, supervision, stageState,
       result
  <2> QED
    BY <2>3, <2>4, <2>5, <2>6
<1>10. CASE AfterPublish(i)
  <2>1. kind[i] \in {"process", "boundary", "eos"}
    BY DEF StagesOK
  <2>2. \A j : UpstreamSpent(j) => UpstreamSpent(j)'
    BY <1>10, <2>1, Threads DEF AfterPublish, ThreadsOK, Goto, Spent, UpstreamSpent, others,
       supervision, stageState, result
  <2>3. \A c \in Chan : EosIn(c)' => EosIn(c)
    BY <1>10 DEF AfterPublish, EosIn, others, supervision, stageState, result
  <2>4. EosQueued'
    BY <2>2, <2>3, ChannelPlaces DEF EosQueued
  <2>5. EosHeld'
    BY <1>10, <2>2, <2>1, Threads DEF AfterPublish, ThreadsOK, StagesOK, EosHeld, Goto,
       stageState
  <2>6. Phases'
    BY <1>10, <2>1, Threads DEF AfterPublish, ThreadsOK, Labels, Phases, Spent, Goto, others,
       supervision, stageState, result
  <2>7. (SinkEnd /\ Settled)'
    BY <1>10, <2>2, <2>1, Threads, ChannelPlaces, EosHead DEF AfterPublish, ThreadsOK, Labels,
       Phases, SinkEnd, Settled, EosQueued, Spent, Goto, others, supervision, stageState,
       result
  <2> QED
    BY <2>4, <2>5, <2>6, <2>7
<1>11. CASE StageSlotCancelled(i)
  <2>1. \A j : UpstreamSpent(j) => UpstreamSpent(j)'
    BY <1>11, Threads DEF StageSlotCancelled, Move, ThreadsOK, Goto, Spent, UpstreamSpent,
       others, supervision, stageState, result
  <2>2. \A c \in Chan : EosIn(c)' => EosIn(c)
    BY <1>11 DEF StageSlotCancelled, Move, EosIn, others, supervision, stageState, result
  <2>3. EosQueued'
    BY <2>1, <2>2, ChannelPlaces DEF EosQueued
  <2>4. EosHeld'
    BY <1>11, <2>1, Threads DEF StageSlotCancelled, Move, ThreadsOK, StagesOK, EosHeld, Goto,
       others, stageState
  <2>5. Phases'
    BY <1>11, Threads DEF StageSlotCancelled, Move, ThreadsOK, Labels, Phases, Spent, Goto,
       others, supervision, stageState, result
  <2>6. (SinkEnd /\ Settled)'
    BY <1>11, <2>1, Threads, ChannelPlaces, EosHead DEF StageSlotCancelled, Move, ThreadsOK,
       Labels, Phases, SinkEnd, Settled, EosQueued, Spent, Goto, others, supervision,
       stageState, result
  <2> QED
    BY <2>3, <2>4, <2>5, <2>6
<1>12. CASE StageSettle(i)
  <2>1. \A j : UpstreamSpent(j) => UpstreamSpent(j)'
    BY <1>12, Threads DEF StageSettle, Move, ThreadsOK, Goto, Spent, UpstreamSpent, others,
       supervision, stageState, result
  <2>2. \A c \in Chan : EosIn(c)' => EosIn(c)
    BY <1>12 DEF StageSettle, Move, EosIn, others, supervision, stageState, result
  <2>3. EosQueued'
    BY <2>1, <2>2, ChannelPlaces DEF EosQueued
  <2>4. EosHeld'
    BY <1>12, <2>1, Threads DEF StageSettle, Move, ThreadsOK, StagesOK, EosHeld, Goto, others,
       stageState
  <2>5. Phases'
    BY <1>12, Threads DEF StageSettle, Move, ThreadsOK, Labels, Phases, Spent, Goto, others,
       supervision, stageState, result
  <2>6. (SinkEnd /\ Settled)'
    BY <1>12, <2>1, Threads, ChannelPlaces, EosHead DEF StageSettle, Move, ThreadsOK, Labels,
       Phases, SinkEnd, Settled, EosQueued, Spent, Goto, others, supervision, stageState,
       result
  <2> QED
    BY <2>3, <2>4, <2>5, <2>6
<1>13. CASE StagePolls(i)
  <2>1. \A j : UpstreamSpent(j) => UpstreamSpent(j)'
    BY <1>13, Threads DEF StagePolls, vars, ThreadsOK, Goto, Spent, UpstreamSpent, others,
       supervision, stageState, result
  <2>2. \A c \in Chan : EosIn(c)' => EosIn(c)
    BY <1>13 DEF StagePolls, vars, EosIn, others, supervision, stageState, result
  <2>3. EosQueued'
    BY <2>1, <2>2, ChannelPlaces DEF EosQueued
  <2>4. EosHeld'
    BY <1>13, <2>1, Threads DEF StagePolls, vars, ThreadsOK, StagesOK, EosHeld, Goto, others,
       stageState
  <2>5. Phases'
    BY <1>13, Threads DEF StagePolls, vars, ThreadsOK, Labels, Phases, Spent, Goto, others,
       supervision, stageState, result
  <2>6. (SinkEnd /\ Settled)'
    BY <1>13, <2>1, Threads, ChannelPlaces, EosHead DEF StagePolls, vars, ThreadsOK, Labels,
       Phases, SinkEnd, Settled, EosQueued, Spent, Goto, others, supervision, stageState,
       result
  <2> QED
    BY <2>3, <2>4, <2>5, <2>6
<1>14. CASE StageRelease(i)
  <2>1. \A j : UpstreamSpent(j) => UpstreamSpent(j)'
    BY <1>14, Threads DEF StageRelease, ThreadsOK, Goto, Spent, UpstreamSpent, others,
       supervision, stageState, result
  <2>2. \A c \in Chan : EosIn(c)' => EosIn(c)
    BY <1>14 DEF StageRelease, EosIn, others, supervision, stageState, result
  <2>3. EosQueued'
    BY <2>1, <2>2, ChannelPlaces DEF EosQueued
  <2>4. EosHeld'
    BY <1>14, <2>1, Threads DEF StageRelease, ThreadsOK, StagesOK, EosHeld, Goto, stageState
  <2>5. Phases'
    BY <1>14, Threads DEF StageRelease, ThreadsOK, Labels, Phases, Spent, Goto, others,
       supervision, stageState, result
  <2>6. (SinkEnd /\ Settled)'
    BY <1>14, <2>1, Threads, ChannelPlaces, EosHead DEF StageRelease, ThreadsOK, Labels,
       Phases, SinkEnd, Settled, EosQueued, Spent, Goto, others, supervision, stageState,
       result
  <2> QED
    BY <2>3, <2>4, <2>5, <2>6
<1>15. CASE StagePutEos(i)
  <2>1. UpstreamSpent(i - 1) /\ pc' = [pc EXCEPT ![Worker(i)] = "finally"]
    BY <1>15 DEF StagePutEos, EosHeld, Goto
  <2>2. \A j \in Stage : j <= i => j = i \/ j <= i - 1
    BY GraphConstants DEF Stage
  <2>3. UpstreamSpent(i)'
    BY <2>1, <2>2, Threads DEF ThreadsOK, UpstreamSpent, Spent
  <2>4. \A j : UpstreamSpent(j) => UpstreamSpent(j)'
    BY <1>15, <2>1, <2>2, <2>3, Threads DEF StagePutEos, ThreadsOK, Goto, Spent,
       UpstreamSpent, others, supervision, stageState, result
  <2>5. \A c \in Chan : EosIn(c)' => EosIn(c) \/ c = PendingOf(i)
    BY <1>15, EosEnqueue, ChannelPlaces DEF StagePutEos, EosIn
  <2>6. EosQueued'
    BY <2>3, <2>4, <2>5, ChannelPlaces DEF EosQueued
  <2>7. EosHeld'
    BY <1>15, <2>4, <2>1, <2>2, <2>3, Threads DEF StagePutEos, ThreadsOK, StagesOK, EosHeld,
       Goto, stageState
  <2>8. Phases'
    BY <1>15, <2>1, <2>2, <2>3, Threads DEF StagePutEos, ThreadsOK, Labels, Phases, Spent,
       Goto, others, supervision, stageState, result
  <2>9. (SinkEnd /\ Settled)'
    BY <1>15, <2>4, <2>1, <2>2, <2>3, Threads, ChannelPlaces, EosHead DEF StagePutEos,
       ThreadsOK, Labels, Phases, SinkEnd, Settled, EosQueued, Spent, Goto, others,
       supervision, stageState, result
  <2> QED
    BY <2>6, <2>7, <2>8, <2>9
<1>16. CASE StageFails(i)
  <2>1. i <= N
    BY GraphConstants DEF Stage
  <2>2. ~Spent(Worker(i))
    BY <1>16 DEF StageFails, Fail, Cancel, Spent
  <2>3. ~UpstreamSpent(N)
    BY <2>1, <2>2 DEF UpstreamSpent
  <2>4. \A j : UpstreamSpent(j) => UpstreamSpent(j)'
    BY <1>16, <2>1, <2>2, <2>3, Threads DEF StageFails, Fail, Cancel, ThreadsOK, Goto, Spent,
       UpstreamSpent, others, supervision, stageState, result
  <2>5. \A c \in Chan : EosIn(c)' => EosIn(c)
    BY <1>16 DEF StageFails, Fail, Cancel, EosIn, others, supervision, stageState, result
  <2>6. EosQueued'
    BY <2>4, <2>5, ChannelPlaces DEF EosQueued
  <2>7. EosHeld'
    BY <1>16, <2>4, <2>1, <2>2, <2>3, Threads DEF StageFails, Fail, Cancel, ThreadsOK,
       StagesOK, EosHeld, Goto, stageState
  <2>8. Phases'
    BY <1>16, <2>1, <2>2, <2>3, Threads DEF StageFails, Fail, Cancel, ThreadsOK, Labels,
       Phases, Spent, Goto, others, supervision, stageState, result
  <2>9. (SinkEnd /\ Settled)'
    BY <1>16, <2>4, <2>1, <2>2, <2>3, Threads, ChannelPlaces, EosHead DEF StageFails, Fail,
       Cancel, ThreadsOK, Labels, Phases, SinkEnd, Settled, EosQueued, Spent, Goto, others,
       supervision, stageState, result
  <2> QED
    BY <2>6, <2>7, <2>8, <2>9
<1>17. CASE CloseNext(Worker(i))
  BY <1>17, CloseNextSettled, Threads
<1>18. CASE Finally(Worker(i))
  BY <1>18, FinallySettled, Threads
<1>19. CASE StageTurn(i)
  <2>1. \A j : UpstreamSpent(j) => UpstreamSpent(j)'
    BY <1>19, Threads DEF StageTurn, Move, ThreadsOK, Goto, Spent, UpstreamSpent, others,
       supervision, stageState, result
  <2>2. \A c \in Chan : EosIn(c)' => EosIn(c)
    BY <1>19 DEF StageTurn, Move, EosIn, others, supervision, stageState, result
  <2>3. EosQueued'
    BY <2>1, <2>2, ChannelPlaces DEF EosQueued
  <2>4. EosHeld'
    BY <1>19, <2>1, Threads DEF StageTurn, Move, ThreadsOK, StagesOK, EosHeld, Goto, others,
       stageState
  <2>5. Phases'
    BY <1>19, Threads DEF StageTurn, Move, ThreadsOK, Labels, Phases, Spent, Goto, others,
       supervision, stageState, result
  <2>6. (SinkEnd /\ Settled)'
    BY <1>19, <2>1, Threads, ChannelPlaces, EosHead DEF StageTurn, Move, ThreadsOK, Labels,
       Phases, SinkEnd, Settled, EosQueued, Spent, Goto, others, supervision, stageState,
       result
  <2> QED
    BY <2>3, <2>4, <2>5, <2>6
<1> QED
  BY <1>1, <1>2, <1>3, <1>4, <1>5, <1>6, <1>7, <1>8, <1>9, <1>10, <1>11, <1>12, <1>13,
     <1>14, <1>15, <1>16, <1>17, <1>18, <1>19 DEF StageStep

\* A publisher actor.
LEMMA CourierSettled ==
  ASSUME TypeInv, OutcomeInv, NEW i \in Stage, CourierStep(i) PROVE OutcomeInv'
<1> USE DEF TypeInv, TypeOK, OutcomeInv
<1>1. CASE CourierTop(i)
  <2>1. \A j : UpstreamSpent(j) => UpstreamSpent(j)'
    BY <1>1, Threads DEF CourierTop, Move, ThreadsOK, Goto, Spent, UpstreamSpent, others,
       supervision, stageState, result
  <2>2. \A c \in Chan : EosIn(c)' => EosIn(c)
    BY <1>1 DEF CourierTop, Move, EosIn, others, supervision, stageState, result
  <2>3. EosQueued'
    BY <2>1, <2>2, ChannelPlaces DEF EosQueued
  <2>4. EosHeld'
    BY <1>1, <2>1, Threads DEF CourierTop, Move, ThreadsOK, StagesOK, EosHeld, Goto, others,
       stageState
  <2>5. Phases'
    BY <1>1, Threads DEF CourierTop, Move, ThreadsOK, Labels, Phases, Spent, Goto, others,
       supervision, stageState, result
  <2>6. (SinkEnd /\ Settled)'
    BY <1>1, <2>1, Threads, ChannelPlaces, EosHead DEF CourierTop, Move, ThreadsOK, Labels,
       Phases, SinkEnd, Settled, EosQueued, Spent, Goto, others, supervision, stageState,
       result
  <2> QED
    BY <2>3, <2>4, <2>5, <2>6
<1>2. CASE CourierGet(i)
  <2>1. Head(chan[PendingOf(i)]) = EOS => UpstreamSpent(i)
    BY <1>2, EosHead, ChannelPlaces DEF CourierGet, EosQueued
  <2>2. \A j : UpstreamSpent(j) => UpstreamSpent(j)'
    BY <1>2, <2>1, Threads DEF CourierGet, ThreadsOK, Goto, Spent, UpstreamSpent, others,
       supervision, stageState, result
  <2>3. \A c \in Chan : EosIn(c)' => EosIn(c)
    BY <1>2, <2>1, EosDequeue, ChannelPlaces DEF CourierGet
  <2>4. EosQueued'
    BY <2>2, <2>3, ChannelPlaces DEF EosQueued
  <2>5. EosHeld'
    BY <1>2, <2>2, <2>1, Threads DEF CourierGet, ThreadsOK, StagesOK, EosHeld, Goto, stageState
  <2>6. Phases'
    BY <1>2, <2>1, Threads DEF CourierGet, ThreadsOK, Labels, Phases, Spent, Goto, others,
       supervision, stageState, result
  <2>7. (SinkEnd /\ Settled)'
    BY <1>2, <2>2, <2>1, Threads, ChannelPlaces, EosHead DEF CourierGet, ThreadsOK, Labels,
       Phases, SinkEnd, Settled, EosQueued, Spent, Goto, others, supervision, stageState,
       result
  <2> QED
    BY <2>4, <2>5, <2>6, <2>7
<1>3. CASE CourierPut(i)
  <2>1. \A j : UpstreamSpent(j) => UpstreamSpent(j)'
    BY <1>3, Threads DEF CourierPut, ThreadsOK, Goto, Spent, UpstreamSpent, others,
       supervision, stageState, result
  <2>2. \A c \in Chan : EosIn(c)' => EosIn(c) \/ (c = i /\ cur[Courier(i)] = EOS)
    BY <1>3, EosEnqueue, ChannelPlaces DEF CourierPut
  <2>3. EosQueued'
    BY <2>1, <2>2, ChannelPlaces DEF EosQueued, EosHeld
  <2>4. EosHeld'
    BY <1>3, <2>1, Threads, GraphConstants DEF CourierPut, ThreadsOK, StagesOK, EosHeld, Goto,
       stageState
  <2>5. Phases'
    BY <1>3, Threads DEF CourierPut, ThreadsOK, Labels, Phases, Spent, Goto, others,
       supervision, stageState, result
  <2>6. (SinkEnd /\ Settled)'
    BY <1>3, <2>1, Threads, ChannelPlaces, EosHead DEF CourierPut, ThreadsOK, Labels, Phases,
       SinkEnd, Settled, EosQueued, Spent, Goto, others, supervision, stageState, result
  <2> QED
    BY <2>3, <2>4, <2>5, <2>6
<1>4. CASE CourierClosed(i)
  <2>1. \A j : UpstreamSpent(j) => UpstreamSpent(j)'
    BY <1>4, Threads DEF CourierClosed, Move, ThreadsOK, Goto, Spent, UpstreamSpent, others,
       supervision, stageState, result
  <2>2. \A c \in Chan : EosIn(c)' => EosIn(c)
    BY <1>4 DEF CourierClosed, Move, EosIn, others, supervision, stageState, result
  <2>3. EosQueued'
    BY <2>1, <2>2, ChannelPlaces DEF EosQueued
  <2>4. EosHeld'
    BY <1>4, <2>1, Threads DEF CourierClosed, Move, ThreadsOK, StagesOK, EosHeld, Goto,
       others, stageState
  <2>5. Phases'
    BY <1>4, Threads DEF CourierClosed, Move, ThreadsOK, Labels, Phases, Spent, Goto, others,
       supervision, stageState, result
  <2>6. (SinkEnd /\ Settled)'
    BY <1>4, <2>1, Threads, ChannelPlaces, EosHead DEF CourierClosed, Move, ThreadsOK, Labels,
       Phases, SinkEnd, Settled, EosQueued, Spent, Goto, others, supervision, stageState,
       result
  <2> QED
    BY <2>3, <2>4, <2>5, <2>6
<1>5. CASE Finally(Courier(i))
  BY <1>5, FinallySettled, Threads
<1> QED
  BY <1>1, <1>2, <1>3, <1>4, <1>5 DEF CourierStep

\* The sink actor.
LEMMA SinkSettled ==
  ASSUME TypeInv, OutcomeInv, SinkStep PROVE OutcomeInv'
<1> USE DEF TypeInv, TypeOK, OutcomeInv
<1>1. CASE SinkTop
  <2>1. \A j : UpstreamSpent(j) => UpstreamSpent(j)'
    BY <1>1, Threads DEF SinkTop, Move, ThreadsOK, Goto, Spent, UpstreamSpent, others,
       supervision, stageState, result
  <2>2. \A c \in Chan : EosIn(c)' => EosIn(c)
    BY <1>1 DEF SinkTop, Move, EosIn, others, supervision, stageState, result
  <2>3. EosQueued'
    BY <2>1, <2>2, ChannelPlaces DEF EosQueued
  <2>4. EosHeld'
    BY <1>1, <2>1, Threads DEF SinkTop, Move, ThreadsOK, StagesOK, EosHeld, Goto, others,
       stageState
  <2>5. Phases'
    BY <1>1, Threads DEF SinkTop, Move, ThreadsOK, Labels, Phases, Spent, Goto, others,
       supervision, stageState, result
  <2>6. (SinkEnd /\ Settled)'
    BY <1>1, <2>1, Threads, ChannelPlaces, EosHead DEF SinkTop, Move, ThreadsOK, Labels,
       Phases, SinkEnd, Settled, EosQueued, Spent, Goto, others, supervision, stageState,
       result
  <2> QED
    BY <2>3, <2>4, <2>5, <2>6
<1>2. CASE SinkGetUnit
  <2>1. \A j : UpstreamSpent(j) => UpstreamSpent(j)'
    BY <1>2, Threads DEF SinkGetUnit, ThreadsOK, Goto, Spent, UpstreamSpent, others,
       supervision, stageState, result
  <2>2. \A c \in Chan : EosIn(c)' => EosIn(c)
    BY <1>2, EosDequeue, ChannelPlaces DEF SinkGetUnit
  <2>3. EosQueued'
    BY <2>1, <2>2, ChannelPlaces DEF EosQueued
  <2>4. EosHeld'
    BY <1>2, <2>1, Threads DEF SinkGetUnit, ThreadsOK, StagesOK, EosHeld, Goto, stageState
  <2>5. Phases'
    BY <1>2, Threads DEF SinkGetUnit, ThreadsOK, Labels, Phases, Spent, Goto, others,
       supervision, stageState, result
  <2>6. (SinkEnd /\ Settled)'
    BY <1>2, <2>1, Threads, ChannelPlaces, EosHead DEF SinkGetUnit, ThreadsOK, Labels, Phases,
       SinkEnd, Settled, EosQueued, Spent, Goto, others, supervision, stageState, result
  <2> QED
    BY <2>3, <2>4, <2>5, <2>6
<1>3. CASE SinkGetEos
  <2>1. \A j : UpstreamSpent(j) => UpstreamSpent(j)'
    BY <1>3, Threads DEF SinkGetEos, ThreadsOK, Goto, Spent, UpstreamSpent, others,
       supervision, stageState, result
  <2>2. \A c \in Chan : EosIn(c)' => EosIn(c)
    BY <1>3, EosDequeue, ChannelPlaces DEF SinkGetEos
  <2>3. EosQueued'
    BY <2>1, <2>2, ChannelPlaces DEF EosQueued
  <2>4. EosHeld'
    BY <1>3, <2>1, Threads DEF SinkGetEos, ThreadsOK, StagesOK, EosHeld, Goto, stageState
  <2>5. Phases'
    BY <1>3, Threads DEF SinkGetEos, ThreadsOK, Labels, Phases, Spent, Goto, others,
       supervision, stageState, result
  <2>6. (SinkEnd /\ Settled)'
    BY <1>3, <2>1, Threads, ChannelPlaces, EosHead DEF SinkGetEos, ThreadsOK, Labels, Phases,
       SinkEnd, Settled, EosQueued, Spent, Goto, others, supervision, stageState, result
  <2> QED
    BY <2>3, <2>4, <2>5, <2>6
<1>4. CASE SinkGetClosed
  <2>1. \A j : UpstreamSpent(j) => UpstreamSpent(j)'
    BY <1>4, Threads DEF SinkGetClosed, Move, Ended, ThreadsOK, Goto, Spent, UpstreamSpent,
       others, supervision, stageState, result
  <2>2. \A c \in Chan : EosIn(c)' => EosIn(c)
    BY <1>4 DEF SinkGetClosed, Move, Ended, EosIn, others, supervision, stageState, result
  <2>3. EosQueued'
    BY <2>1, <2>2, ChannelPlaces DEF EosQueued
  <2>4. EosHeld'
    BY <1>4, <2>1, Threads DEF SinkGetClosed, Move, Ended, ThreadsOK, StagesOK, EosHeld, Goto,
       others, stageState
  <2>5. Phases'
    BY <1>4, Threads DEF SinkGetClosed, Move, Ended, ThreadsOK, Labels, Phases, Spent, Goto,
       others, supervision, stageState, result
  <2>6. (SinkEnd /\ Settled)'
    BY <1>4, <2>1, Threads, ChannelPlaces, EosHead DEF SinkGetClosed, Move, Ended, ThreadsOK,
       Labels, Phases, SinkEnd, Settled, EosQueued, Spent, Goto, others, supervision,
       stageState, result
  <2> QED
    BY <2>3, <2>4, <2>5, <2>6
<1>5. CASE SinkConsume
  <2>1. \A j : UpstreamSpent(j) => UpstreamSpent(j)'
    BY <1>5, Threads DEF SinkConsume, ThreadsOK, Goto, Spent, UpstreamSpent, others,
       supervision, stageState, result
  <2>2. \A c \in Chan : EosIn(c)' => EosIn(c)
    BY <1>5 DEF SinkConsume, EosIn, others, supervision, stageState, result
  <2>3. EosQueued'
    BY <2>1, <2>2, ChannelPlaces DEF EosQueued
  <2>4. EosHeld'
    BY <1>5, <2>1, Threads DEF SinkConsume, ThreadsOK, StagesOK, EosHeld, Goto, stageState
  <2>5. Phases'
    BY <1>5, Threads DEF SinkConsume, ThreadsOK, Labels, Phases, Spent, Goto, others,
       supervision, stageState, result
  <2>6. (SinkEnd /\ Settled)'
    BY <1>5, <2>1, Threads, ChannelPlaces, EosHead DEF SinkConsume, ThreadsOK, Labels, Phases,
       SinkEnd, Settled, EosQueued, Spent, Goto, others, supervision, stageState, result
  <2> QED
    BY <2>3, <2>4, <2>5, <2>6
<1>6. CASE SinkStop
  <2>1. \A j : UpstreamSpent(j) => UpstreamSpent(j)'
    BY <1>6, Threads DEF SinkStop, Fail, Cancel, ThreadsOK, Goto, Spent, UpstreamSpent,
       others, supervision, stageState, result
  <2>2. \A c \in Chan : EosIn(c)' => EosIn(c)
    BY <1>6 DEF SinkStop, Fail, Cancel, EosIn, others, supervision, stageState, result
  <2>3. EosQueued'
    BY <2>1, <2>2, ChannelPlaces DEF EosQueued
  <2>4. EosHeld'
    BY <1>6, <2>1, Threads DEF SinkStop, Fail, Cancel, ThreadsOK, StagesOK, EosHeld, Goto,
       stageState
  <2>5. Phases'
    BY <1>6, Threads DEF SinkStop, Fail, Cancel, ThreadsOK, Labels, Phases, Spent, Goto,
       others, supervision, stageState, result
  <2>6. (SinkEnd /\ Settled)'
    BY <1>6, <2>1, Threads, ChannelPlaces, EosHead DEF SinkStop, Fail, Cancel, ThreadsOK,
       Labels, Phases, SinkEnd, Settled, EosQueued, Spent, Goto, others, supervision,
       stageState, result
  <2> QED
    BY <2>3, <2>4, <2>5, <2>6
<1>7. CASE SinkFails
  <2>1. \A j : UpstreamSpent(j) => UpstreamSpent(j)'
    BY <1>7, Threads DEF SinkFails, Fail, Cancel, ThreadsOK, Goto, Spent, UpstreamSpent,
       others, supervision, stageState, result
  <2>2. \A c \in Chan : EosIn(c)' => EosIn(c)
    BY <1>7 DEF SinkFails, Fail, Cancel, EosIn, others, supervision, stageState, result
  <2>3. EosQueued'
    BY <2>1, <2>2, ChannelPlaces DEF EosQueued
  <2>4. EosHeld'
    BY <1>7, <2>1, Threads DEF SinkFails, Fail, Cancel, ThreadsOK, StagesOK, EosHeld, Goto,
       stageState
  <2>5. Phases'
    BY <1>7, Threads DEF SinkFails, Fail, Cancel, ThreadsOK, Labels, Phases, Spent, Goto,
       others, supervision, stageState, result
  <2>6. (SinkEnd /\ Settled)'
    BY <1>7, <2>1, Threads, ChannelPlaces, EosHead DEF SinkFails, Fail, Cancel, ThreadsOK,
       Labels, Phases, SinkEnd, Settled, EosQueued, Spent, Goto, others, supervision,
       stageState, result
  <2> QED
    BY <2>3, <2>4, <2>5, <2>6
<1>8. CASE CloseNext(Sink)
  BY <1>8, CloseNextSettled, Threads
<1>9. CASE SinkFinally
  <2>1. \A j : UpstreamSpent(j) => UpstreamSpent(j)'
    BY <1>9, Threads DEF SinkFinally, ThreadsOK, Goto, Spent, UpstreamSpent, others,
       supervision, stageState, result
  <2>2. \A c \in Chan : EosIn(c)' => EosIn(c)
    BY <1>9 DEF SinkFinally, EosIn, others, supervision, stageState, result
  <2>3. EosQueued'
    BY <2>1, <2>2, ChannelPlaces DEF EosQueued
  <2>4. EosHeld'
    BY <1>9, <2>1, Threads DEF SinkFinally, ThreadsOK, StagesOK, EosHeld, Goto, stageState
  <2>5. Phases'
    BY <1>9, Threads DEF SinkFinally, ThreadsOK, Labels, Phases, Spent, Goto, others,
       supervision, stageState, result
  <2>6. (SinkEnd /\ Settled)'
    BY <1>9, <2>1, Threads, ChannelPlaces, EosHead DEF SinkFinally, ThreadsOK, Labels, Phases,
       SinkEnd, Settled, EosQueued, Spent, Goto, others, supervision, stageState, result
  <2> QED
    BY <2>3, <2>4, <2>5, <2>6
<1>10. CASE SinkFinishFails
  <2>1. \A j : UpstreamSpent(j) => UpstreamSpent(j)'
    BY <1>10, Threads DEF SinkFinishFails, Fail, Cancel, ThreadsOK, Goto, Spent, UpstreamSpent,
       others, supervision, stageState, result
  <2>2. \A c \in Chan : EosIn(c)' => EosIn(c)
    BY <1>10, EosDequeue, ChannelPlaces DEF SinkFinishFails, Fail
  <2>3. EosQueued'
    BY <2>1, <2>2, ChannelPlaces DEF EosQueued
  <2>4. EosHeld'
    BY <1>10, <2>1, Threads DEF SinkFinishFails, Fail, Cancel, ThreadsOK, StagesOK, EosHeld, Goto,
       stageState
  <2>5. Phases'
    BY <1>10, Threads DEF SinkFinishFails, Fail, Cancel, ThreadsOK, Labels, Phases, Spent, Goto,
       others, supervision, stageState, result
  <2>6. (SinkEnd /\ Settled)'
    BY <1>10, <2>1, Threads, ChannelPlaces, EosHead DEF SinkFinishFails, Fail, Cancel, ThreadsOK,
       Labels, Phases, SinkEnd, Settled, EosQueued, Spent, Goto, others, supervision,
       stageState, result
  <2> QED
    BY <2>3, <2>4, <2>5, <2>6
<1> QED
  BY <1>1, <1>2, <1>3, <1>4, <1>5, <1>6, <1>7, <1>8, <1>9, <1>10 DEF SinkStep

\* The calling thread.
LEMMA MainSettled ==
  ASSUME TypeInv, OutcomeInv, MainStep \/ MainFails \/ Close PROVE OutcomeInv'
<1> USE DEF TypeInv, TypeOK, OutcomeInv
<1>1. CASE Start
  <2>1. \A j : ~UpstreamSpent(j)
    BY <1>1, Threads DEF Start, Phases, UpstreamSpent, Spent
  <2>2. \A j : UpstreamSpent(j) => UpstreamSpent(j)'
    BY <1>1, <2>1, Threads DEF Start, ThreadsOK, Goto, Spent, UpstreamSpent, others,
       supervision, stageState, result
  <2>3. \A c \in Chan : EosIn(c)' => EosIn(c)
    BY <1>1 DEF Start, EosIn, others, supervision, stageState, result
  <2>4. EosQueued'
    BY <2>2, <2>3, ChannelPlaces DEF EosQueued
  <2>5. EosHeld'
    BY <1>1, <2>2, <2>1, Threads DEF Start, ThreadsOK, StagesOK, EosHeld, Goto, others,
       stageState
  <2>6. Phases'
    BY <1>1, <2>1, Threads DEF Start, ThreadsOK, Labels, Phases, Spent, Goto, others,
       supervision, stageState, result
  <2>7. (SinkEnd /\ Settled)'
    BY <1>1, <2>2, <2>1, Threads, ChannelPlaces, EosHead DEF Start, ThreadsOK, Labels, Phases,
       SinkEnd, Settled, EosQueued, Spent, Goto, others, supervision, stageState, result
  <2> QED
    BY <2>4, <2>5, <2>6, <2>7
<1>2. CASE HostPull
  <2>1. \A j : UpstreamSpent(j) => UpstreamSpent(j)'
    BY <1>2, Threads DEF HostPull, ThreadsOK, Goto, Spent, UpstreamSpent, others, supervision,
       stageState, result
  <2>2. \A c \in Chan : EosIn(c)' => EosIn(c)
    BY <1>2 DEF HostPull, EosIn, others, supervision, stageState, result
  <2>3. EosQueued'
    BY <2>1, <2>2, ChannelPlaces DEF EosQueued
  <2>4. EosHeld'
    BY <1>2, <2>1, Threads DEF HostPull, ThreadsOK, StagesOK, EosHeld, Goto, stageState
  <2>5. Phases'
    BY <1>2, Threads DEF HostPull, ThreadsOK, Labels, Phases, Spent, Goto, others,
       supervision, stageState, result
  <2>6. (SinkEnd /\ Settled)'
    BY <1>2, <2>1, Threads, ChannelPlaces, EosHead DEF HostPull, ThreadsOK, Labels, Phases,
       SinkEnd, Settled, EosQueued, Spent, Goto, others, supervision, stageState, result
  <2> QED
    BY <2>3, <2>4, <2>5, <2>6
<1>3. CASE HostGetUnit
  <2>1. \A j : UpstreamSpent(j) => UpstreamSpent(j)'
    BY <1>3, Threads DEF HostGetUnit, ThreadsOK, Goto, Spent, UpstreamSpent, others,
       supervision, stageState, result
  <2>2. \A c \in Chan : EosIn(c)' => EosIn(c)
    BY <1>3, EosDequeue, ChannelPlaces DEF HostGetUnit
  <2>3. EosQueued'
    BY <2>1, <2>2, ChannelPlaces DEF EosQueued
  <2>4. EosHeld'
    BY <1>3, <2>1, Threads DEF HostGetUnit, ThreadsOK, StagesOK, EosHeld, Goto, stageState
  <2>5. Phases'
    BY <1>3, Threads DEF HostGetUnit, ThreadsOK, Labels, Phases, Spent, Goto, others,
       supervision, stageState, result
  <2>6. (SinkEnd /\ Settled)'
    BY <1>3, <2>1, Threads, ChannelPlaces, EosHead DEF HostGetUnit, ThreadsOK, Labels, Phases,
       SinkEnd, Settled, EosQueued, Spent, Goto, others, supervision, stageState, result
  <2> QED
    BY <2>3, <2>4, <2>5, <2>6
<1>4. CASE HostGetEos
  <2>1. \A j : UpstreamSpent(j) => UpstreamSpent(j)'
    BY <1>4, Threads DEF HostGetEos, Fail, Cancel, ThreadsOK, Goto, Spent, UpstreamSpent,
       others, supervision, stageState, result
  <2>2. \A c \in Chan : EosIn(c)' => EosIn(c)
    BY <1>4, EosDequeue, ChannelPlaces DEF HostGetEos, Fail, Cancel
  <2>3. EosQueued'
    BY <2>1, <2>2, ChannelPlaces DEF EosQueued
  <2>4. EosHeld'
    BY <1>4, <2>1, Threads DEF HostGetEos, Fail, Cancel, ThreadsOK, StagesOK, EosHeld, Goto,
       stageState
  <2>5. Phases'
    BY <1>4, Threads DEF HostGetEos, Fail, Cancel, ThreadsOK, Labels, Phases, Spent, Goto,
       others, supervision, stageState, result
  <2>6. (SinkEnd /\ Settled)'
    BY <1>4, <2>1, Threads, ChannelPlaces, EosHead DEF HostGetEos, Fail, Cancel, ThreadsOK,
       Labels, Phases, SinkEnd, Settled, EosQueued, Spent, Goto, others, supervision,
       stageState, result
  <2> QED
    BY <2>3, <2>4, <2>5, <2>6
<1>5. CASE HostGetClosed
  <2>1. \A j : UpstreamSpent(j) => UpstreamSpent(j)'
    BY <1>5, Threads DEF HostGetClosed, Fail, Cancel, ThreadsOK, Goto, Spent, UpstreamSpent,
       others, supervision, stageState, result
  <2>2. \A c \in Chan : EosIn(c)' => EosIn(c)
    BY <1>5 DEF HostGetClosed, Fail, Cancel, EosIn, others, supervision, stageState, result
  <2>3. EosQueued'
    BY <2>1, <2>2, ChannelPlaces DEF EosQueued
  <2>4. EosHeld'
    BY <1>5, <2>1, Threads DEF HostGetClosed, Fail, Cancel, ThreadsOK, StagesOK, EosHeld,
       Goto, stageState
  <2>5. Phases'
    BY <1>5, Threads DEF HostGetClosed, Fail, Cancel, ThreadsOK, Labels, Phases, Spent, Goto,
       others, supervision, stageState, result
  <2>6. (SinkEnd /\ Settled)'
    BY <1>5, <2>1, Threads, ChannelPlaces, EosHead DEF HostGetClosed, Fail, Cancel, ThreadsOK,
       Labels, Phases, SinkEnd, Settled, EosQueued, Spent, Goto, others, supervision,
       stageState, result
  <2> QED
    BY <2>3, <2>4, <2>5, <2>6
<1>6. CASE WaitReturns
  <2>1. \A j : UpstreamSpent(j) => UpstreamSpent(j)'
    BY <1>6, Threads DEF WaitReturns, Fail, Cancel, ThreadsOK, Goto, Spent, UpstreamSpent,
       others, supervision, stageState, result
  <2>2. \A c \in Chan : EosIn(c)' => EosIn(c)
    BY <1>6 DEF WaitReturns, Fail, Cancel, EosIn, others, supervision, stageState, result
  <2>3. EosQueued'
    BY <2>1, <2>2, ChannelPlaces DEF EosQueued
  <2>4. EosHeld'
    BY <1>6, <2>1, Threads DEF WaitReturns, Fail, Cancel, ThreadsOK, StagesOK, EosHeld, Goto,
       stageState
  <2>5. Phases'
    BY <1>6, Threads DEF WaitReturns, Fail, Cancel, ThreadsOK, Labels, Phases, Spent, Goto,
       others, supervision, stageState, result
  <2>6. (SinkEnd /\ Settled)'
    BY <1>6, <2>1, Threads, ChannelPlaces, EosHead DEF WaitReturns, Fail, Cancel, ThreadsOK,
       Labels, Phases, SinkEnd, Settled, EosQueued, Spent, Goto, others, supervision,
       stageState, result
  <2> QED
    BY <2>3, <2>4, <2>5, <2>6
<1>7. CASE CloseNext(Main)
  BY <1>7, CloseNextSettled, Threads
<1>8. CASE Join
  <2>1. \A j : UpstreamSpent(j) => UpstreamSpent(j)'
    BY <1>8, Threads DEF Join, ThreadsOK, Goto, Spent, UpstreamSpent, others, supervision,
       stageState, result
  <2>2. \A c \in Chan : EosIn(c)' => EosIn(c)
    BY <1>8 DEF Join, EosIn, others, supervision, stageState, result
  <2>3. EosQueued'
    BY <2>1, <2>2, ChannelPlaces DEF EosQueued
  <2>4. EosHeld'
    BY <1>8, <2>1, Threads DEF Join, ThreadsOK, StagesOK, EosHeld, Goto, stageState
  <2>5. Phases'
    BY <1>8, Threads DEF Join, ThreadsOK, Labels, Phases, Spent, Goto, others, supervision,
       stageState, result
  <2>6. (SinkEnd /\ Settled)'
    BY <1>8, <2>1, Threads, ChannelPlaces, EosHead DEF Join, ThreadsOK, Labels, Phases,
       SinkEnd, Settled, EosQueued, Spent, Goto, others, supervision, stageState, result
  <2> QED
    BY <2>3, <2>4, <2>5, <2>6
<1>9. CASE \E c \in Chan : Drain(c)
  <2>1. \A j : UpstreamSpent(j) => UpstreamSpent(j)'
    BY <1>9, Threads DEF Drain, ThreadsOK, Goto, Spent, UpstreamSpent, others, supervision,
       stageState, result
  <2>2. \A c \in Chan : EosIn(c)' => EosIn(c)
    BY <1>9, EosDequeue, ChannelPlaces DEF Drain
  <2>3. EosQueued'
    BY <2>1, <2>2, ChannelPlaces DEF EosQueued
  <2>4. EosHeld'
    BY <1>9, <2>1, Threads DEF Drain, ThreadsOK, StagesOK, EosHeld, Goto, stageState
  <2>5. Phases'
    BY <1>9, Threads DEF Drain, ThreadsOK, Labels, Phases, Spent, Goto, others, supervision,
       stageState, result
  <2>6. (SinkEnd /\ Settled)'
    BY <1>9, <2>1, Threads, ChannelPlaces, EosHead DEF Drain, ThreadsOK, Labels, Phases,
       SinkEnd, Settled, EosQueued, Spent, Goto, others, supervision, stageState, result
  <2> QED
    BY <2>3, <2>4, <2>5, <2>6
<1>10. CASE DropTerminal
  <2>1. \A j : UpstreamSpent(j) => UpstreamSpent(j)'
    BY <1>10, Threads DEF DropTerminal, ThreadsOK, Goto, Spent, UpstreamSpent, others,
       supervision, stageState, result
  <2>2. \A c \in Chan : EosIn(c)' => EosIn(c)
    BY <1>10 DEF DropTerminal, EosIn, others, supervision, stageState, result
  <2>3. EosQueued'
    BY <2>1, <2>2, ChannelPlaces DEF EosQueued
  <2>4. EosHeld'
    BY <1>10, <2>1, Threads DEF DropTerminal, ThreadsOK, StagesOK, EosHeld, Goto, stageState
  <2>5. Phases'
    BY <1>10, Threads DEF DropTerminal, ThreadsOK, Labels, Phases, Spent, Goto, others,
       supervision, stageState, result
  <2>6. (SinkEnd /\ Settled)'
    BY <1>10, <2>1, Threads, ChannelPlaces, EosHead DEF DropTerminal, ThreadsOK, Labels,
       Phases, SinkEnd, Settled, EosQueued, Spent, Goto, others, supervision, stageState,
       result
  <2> QED
    BY <2>3, <2>4, <2>5, <2>6
<1>11. CASE CloseAll
  <2>1. \A j : UpstreamSpent(j) => UpstreamSpent(j)'
    BY <1>11, Threads DEF CloseAll, Move, ThreadsOK, Goto, Spent, UpstreamSpent, others,
       supervision, stageState, result
  <2>2. \A c \in Chan : EosIn(c)' => EosIn(c)
    BY <1>11 DEF CloseAll, Move, EosIn, others, supervision, stageState, result
  <2>3. EosQueued'
    BY <2>1, <2>2, ChannelPlaces DEF EosQueued
  <2>4. EosHeld'
    BY <1>11, <2>1, Threads DEF CloseAll, Move, ThreadsOK, StagesOK, EosHeld, Goto, others,
       stageState
  <2>5. Phases'
    BY <1>11, Threads DEF CloseAll, Move, ThreadsOK, Labels, Phases, Spent, Goto, others,
       supervision, stageState, result
  <2>6. (SinkEnd /\ Settled)'
    BY <1>11, <2>1, Threads, ChannelPlaces, EosHead DEF CloseAll, Move, ThreadsOK, Labels,
       Phases, SinkEnd, Settled, EosQueued, Spent, Goto, others, supervision, stageState,
       result
  <2> QED
    BY <2>3, <2>4, <2>5, <2>6
<1>12. CASE StartFails
  <2>1. \A j : UpstreamSpent(j) => UpstreamSpent(j)'
    BY <1>12, Threads DEF StartFails, Fail, Cancel, ThreadsOK, Goto, Spent, UpstreamSpent,
       others, supervision, stageState, result
  <2>2. \A c \in Chan : EosIn(c)' => EosIn(c)
    BY <1>12 DEF StartFails, Fail, Cancel, EosIn, others, supervision, stageState, result
  <2>3. EosQueued'
    BY <2>1, <2>2, ChannelPlaces DEF EosQueued
  <2>4. EosHeld'
    BY <1>12, <2>1, Threads DEF StartFails, Fail, Cancel, ThreadsOK, StagesOK, EosHeld, Goto,
       stageState
  <2>5. Phases'
    BY <1>12, Threads DEF StartFails, Fail, Cancel, ThreadsOK, Labels, Phases, Spent, Goto,
       others, supervision, stageState, result
  <2>6. (SinkEnd /\ Settled)'
    BY <1>12, <2>1, Threads, ChannelPlaces, EosHead DEF StartFails, Fail, Cancel, ThreadsOK,
       Labels, Phases, SinkEnd, Settled, EosQueued, Spent, Goto, others, supervision,
       stageState, result
  <2> QED
    BY <2>3, <2>4, <2>5, <2>6
<1>13. CASE Close
  <2>1. \A j : UpstreamSpent(j) => UpstreamSpent(j)'
    BY <1>13, Threads DEF Close, Fail, Cancel, ThreadsOK, Goto, Spent, UpstreamSpent, others,
       supervision, stageState, result
  <2>2. \A c \in Chan : EosIn(c)' => EosIn(c)
    BY <1>13 DEF Close, Fail, Cancel, EosIn, others, supervision, stageState, result
  <2>3. EosQueued'
    BY <2>1, <2>2, ChannelPlaces DEF EosQueued
  <2>4. EosHeld'
    BY <1>13, <2>1, Threads DEF Close, Fail, Cancel, ThreadsOK, StagesOK, EosHeld, Goto,
       stageState
  <2>5. Phases'
    BY <1>13, Threads DEF Close, Fail, Cancel, ThreadsOK, Labels, Phases, Spent, Goto, others,
       supervision, stageState, result
  <2>6. (SinkEnd /\ Settled)'
    BY <1>13, <2>1, Threads, ChannelPlaces, EosHead DEF Close, Fail, Cancel, ThreadsOK,
       Labels, Phases, SinkEnd, Settled, EosQueued, Spent, Goto, others, supervision,
       stageState, result
  <2> QED
    BY <2>3, <2>4, <2>5, <2>6
<1>14. CASE HostRaises
  <2>1. \A j : UpstreamSpent(j) => UpstreamSpent(j)'
    BY <1>14, Threads DEF HostRaises, Fail, Cancel, ThreadsOK, Goto, Spent, UpstreamSpent,
       others, supervision, stageState, result
  <2>2. \A c \in Chan : EosIn(c)' => EosIn(c)
    BY <1>14 DEF HostRaises, Fail, Cancel, EosIn, others, supervision, stageState, result
  <2>3. EosQueued'
    BY <2>1, <2>2, ChannelPlaces DEF EosQueued
  <2>4. EosHeld'
    BY <1>14, <2>1, Threads DEF HostRaises, Fail, Cancel, ThreadsOK, StagesOK, EosHeld, Goto,
       stageState
  <2>5. Phases'
    BY <1>14, Threads DEF HostRaises, Fail, Cancel, ThreadsOK, Labels, Phases, Spent, Goto,
       others, supervision, stageState, result
  <2>6. (SinkEnd /\ Settled)'
    BY <1>14, <2>1, Threads, ChannelPlaces, EosHead DEF HostRaises, Fail, Cancel, ThreadsOK,
       Labels, Phases, SinkEnd, Settled, EosQueued, Spent, Goto, others, supervision,
       stageState, result
  <2> QED
    BY <2>3, <2>4, <2>5, <2>6
<1>15. CASE HostInterrupted
  <2>1. \A j : UpstreamSpent(j) => UpstreamSpent(j)'
    BY <1>15, Threads DEF HostInterrupted, Fail, Cancel, ThreadsOK, Goto, Spent, UpstreamSpent,
       others, supervision, stageState, result
  <2>2. \A c \in Chan : EosIn(c)' => EosIn(c)
    BY <1>15 DEF HostInterrupted, Fail, Cancel, EosIn, others, supervision, stageState, result
  <2>3. EosQueued'
    BY <2>1, <2>2, ChannelPlaces DEF EosQueued
  <2>4. EosHeld'
    BY <1>15, <2>1, Threads DEF HostInterrupted, Fail, Cancel, ThreadsOK, StagesOK, EosHeld, Goto,
       stageState
  <2>5. Phases'
    BY <1>15, Threads DEF HostInterrupted, Fail, Cancel, ThreadsOK, Labels, Phases, Spent, Goto,
       others, supervision, stageState, result
  <2>6. (SinkEnd /\ Settled)'
    BY <1>15, <2>1, Threads, ChannelPlaces, EosHead DEF HostInterrupted, Fail, Cancel, ThreadsOK,
       Labels, Phases, SinkEnd, Settled, EosQueued, Spent, Goto, others, supervision,
       stageState, result
  <2> QED
    BY <2>3, <2>4, <2>5, <2>6
<1>16. CASE HostUnitFails
  <2>1. \A j : UpstreamSpent(j) => UpstreamSpent(j)'
    BY <1>16, Threads DEF HostUnitFails, ThreadsOK, Goto, Spent, UpstreamSpent, others,
       supervision, stageState, result
  <2>2. \A c \in Chan : EosIn(c)' => EosIn(c)
    BY <1>16, EosDequeue, ChannelPlaces DEF HostUnitFails
  <2>3. EosQueued'
    BY <2>1, <2>2, ChannelPlaces DEF EosQueued
  <2>4. EosHeld'
    BY <1>16, <2>1, Threads DEF HostUnitFails, ThreadsOK, StagesOK, EosHeld, Goto, stageState
  <2>5. Phases'
    BY <1>16, Threads DEF HostUnitFails, ThreadsOK, Labels, Phases, Spent, Goto, others,
       supervision, stageState, result
  <2>6. (SinkEnd /\ Settled)'
    BY <1>16, <2>1, Threads, ChannelPlaces, EosHead DEF HostUnitFails, ThreadsOK, Labels, Phases,
       SinkEnd, Settled, EosQueued, Spent, Goto, others, supervision, stageState, result
  <2> QED
    BY <2>3, <2>4, <2>5, <2>6
<1> QED
  BY <1>1, <1>2, <1>3, <1>4, <1>5, <1>6, <1>7, <1>8, <1>9, <1>10, <1>11, <1>12, <1>13,
     <1>14, <1>15, <1>16 DEF MainStep, MainFails

-----------------------------------------------------------------------------
(* The outcome *)

\* The initial state satisfies the invariant.
LEMMA InitSettled == Init => OutcomeInv
BY Threads, GraphConstants
   DEF Init, OutcomeInv, EosQueued, EosHeld, EosIn, Phases, SinkEnd, Settled, Spent,
      PendingOf, Chan, Edge, Stage

\* Every step keeps the invariant.
LEMMA NextSettled == TypeInv /\ OutcomeInv /\ [Next]_vars => OutcomeInv'
<1> SUFFICES ASSUME TypeInv, OutcomeInv, [Next]_vars PROVE OutcomeInv'
  OBVIOUS
<1>1. CASE SourceStep
  BY <1>1, SourceSettled
<1>2. CASE \E i \in Stage : StageStep(i) \/ CourierStep(i)
  BY <1>2, StageSettled, CourierSettled
<1>3. CASE SinkStep
  BY <1>3, SinkSettled
<1>4. CASE MainStep \/ MainFails \/ Close
  BY <1>4, MainSettled
<1>5. CASE Finished \/ UNCHANGED vars
  BY <1>5 DEF Finished, vars, others, supervision, stageState, result, OutcomeInv,
     EosQueued, EosHeld, EosIn, Phases, SinkEnd, Settled, Spent, UpstreamSpent
<1> QED
  BY <1>1, <1>2, <1>3, <1>4, <1>5 DEF Next

\* A run that reports the end of the stream, and whose consumer did not stop
\* it early, had no failure and can have none any more: wait() and the
\* iterator read the supervisor's failure once (pipeline/streaming.py,
\* __next__ and wait) and nothing may be recorded after that.
THEOREM FailureIsReported == Spec => []SuccessMeansNoFailure
<1>1. OutcomeInv => SuccessMeansNoFailure
  BY DEF OutcomeInv, Settled, SuccessMeansNoFailure
<1> QED
  BY <1>1, InitTyped, NextTyped, InitSettled, NextSettled, PTL DEF Spec
=============================================================================
