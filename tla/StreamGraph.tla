---------------------------- MODULE StreamGraph ----------------------------
(***************************************************************************)
(* The bounded actor graph behind a pipeline run (pipeline/streaming.py).  *)
(*                                                                         *)
(*   source -> edge 0 -> stage 1 -> pending 1 -> publisher 1 -> edge 1     *)
(*          -> ... -> stage N -> pending N -> publisher N -> edge N        *)
(*          -> terminal: the host iterator, or the sink actor              *)
(*                                                                         *)
(* Every arrow is a BoundedChannel; every name on it is a thread.  A frame *)
(* travels in an envelope that owns one handle on a payload lease.  A      *)
(* stage flushes, resets and only then processes a unit that carries a     *)
(* boundary.  The supervisor holds the first failure and stops the graph   *)
(* by raising a flag and then closing the channels one after the other.    *)
(*                                                                         *)
(* A step is what one thread does between two points where another thread  *)
(* can see or change what it depends on.  Callbacks of a processor run on  *)
(* an affinity lane that serialises them (module OwnerLane); here each is  *)
(* one step of the stage that called it.                                   *)
(***************************************************************************)
EXTENDS Integers, Sequences

CONSTANTS
  N,            \* number of physical operations
  NumUnits,     \* length of the source stream
  Cuts,         \* source units that arrive with a boundary of their own
  Delay,        \* Delay[i]: units processor i holds before it emits one
  Drops,        \* Drops[i]: units processor i swallows
  Alias,        \* processors that yield the very payload they were given
  Slots,        \* Slots[i]: operation.output_slots (0: no slot semaphore)
  EdgeCap,      \* max_units of an edge channel
  PendingCap,   \* PendingCap[i]: max_units of the pending channel of i
  SinkModes,    \* whether a terminal consumer is attached (FALSE: a host iterates)
  Retains,      \* the terminal consumer's retains_input_payload
  MayStop,      \* whether consume() may return False
  MayFail,      \* the actors whose callbacks may raise
  MayCancel,    \* whether the host may close, or interrupt wait()
  EOS, None

Stage == 1..N
Unit  == 1..NumUnits
Edge  == 0..N
Chan  == 0..(2 * N)          \* edges 0..N, then pending channels N+1..2N
PendingOf(i) == N + i

Source     == <<"source", 0>>
Worker(i)  == <<"stage", i>>
Courier(i) == <<"publish", i>>
Sink       == <<"sink", 0>>
Main       == <<"main", 0>>
Workers    == {Worker(i)  : i \in Stage}
Couriers   == {Courier(i) : i \in Stage}
Thread     == {Source, Sink, Main} \cup Workers \cup Couriers

Lease    == (0..N) \X Unit
Envelope == [unit : Unit, bnds : Seq(Unit), lease : Lease]
Wrap(u, bnds, l) == [unit |-> u, bnds |-> bnds, lease |-> l]

\* What a consumer sees of an envelope.
Seen(e) == [unit |-> e.unit, bnds |-> e.bnds]

ASSUME GraphConstants ==
  /\ N \in Nat
  /\ NumUnits \in Nat
  /\ Cuts \subseteq Unit
  /\ Delay \in [Stage -> Nat]
  /\ Drops \in [Stage -> SUBSET Unit]
  /\ Alias \subseteq Stage
  /\ Slots \in [Stage -> Nat]
  /\ EdgeCap \in Nat \ {0}
  /\ PendingCap \in [Stage -> Nat \ {0}]
  /\ SinkModes \subseteq BOOLEAN
  /\ Retains \in BOOLEAN /\ MayStop \in BOOLEAN /\ MayCancel \in BOOLEAN
  /\ MayFail \subseteq Thread
  /\ EOS # None /\ EOS \notin Envelope /\ None \notin Envelope

Capacity(c) == IF c \in Edge THEN EdgeCap ELSE PendingCap[c - N]

\* The boundaries a source unit brings along: the source actor adds
\* STREAM_START to the first one.
SourceBnds(u) == IF u = 1 \/ u \in Cuts THEN <<u>> ELSE <<>>

VARIABLES
  chan,       \* chan[c]: the queued messages of channel c
  closed,     \* the closed channels
  cancelled,  \* _Supervisor.cancelled
  failed,     \* _Supervisor._failure is set
  pc,         \* where each thread is
  closing,    \* closing[t]: next channel thread t closes in fail() or cancel()
  cur,        \* cur[t]: the envelope (or EOS) in the hands of thread t
  next,       \* the next unit of the source iterator
  window,     \* window[i]: units processor i holds
  iter,       \* iter[i]: what the running iterator of stage i still yields
  kind,       \* kind[i]: which callback made that iterator
  marks,      \* marks[i]: boundaries waiting for the next unit stage i emits
  started,    \* the stages that have processed a unit
  epoch,      \* epoch[i]: the boundary processor i was last reset for
  drained,    \* drained[i]: leases published by the running boundary flush
  out,        \* out[i]: the envelope stage i is putting
  refs,       \* refs[l]: handles on lease l
  free,       \* free[i]: free output slots of operation i
  terminal,   \* leases the host iterator (or the sink's holdback) keeps
  delivered,  \* history: what the terminal received
  finished,   \* how the terminal consumer's finish() was reached
  outcome     \* what the run reports

supervision == <<closed, cancelled, failed, closing>>
stageState  == <<window, iter, kind, marks, started, epoch, drained, out>>
result      == <<delivered, finished, outcome>>
others == <<chan, supervision, cur, next, stageState, refs, free, terminal, result>>
vars == <<pc, others>>

-----------------------------------------------------------------------------
(* Leases, channels and the supervisor *)

\* PayloadLease.release: the last handle returns the output slot.  The count
\* goes down under the lock and the slot is returned after it, but nothing sees
\* the moment between: only an operation without slots looks at the counts of
\* its leases, and a slot that is not back yet is a release not yet done.
Release(l) ==
  /\ refs' = [refs EXCEPT ![l] = @ - 1]
  /\ free' = IF refs[l] = 1 /\ l[1] \in Stage /\ Slots[l[1]] > 0
             THEN [free EXCEPT ![l[1]] = @ + 1]
             ELSE free

\* Retain of an existing lease, or the first handle of a new one.
AddHandle(l) == refs' = [refs EXCEPT ![l] = @ + 1]

\* Faulty variant: one message too many fits.
CanPutOneMore(c) == c \notin closed /\ Len(chan[c]) <= Capacity(c)

CanPut(c) == c \notin closed /\ Len(chan[c]) < Capacity(c)
Enqueue(c, m) == chan' = [chan EXCEPT ![c] = Append(@, m)]
Dequeue(c)    == chan' = [chan EXCEPT ![c] = Tail(@)]
HasItem(c)    == chan[c] # <<>>
Ended(c)      == chan[c] = <<>> /\ c \in closed     \* get() raises ChannelClosed

Goto(t, label) == pc' = [pc EXCEPT ![t] = label]

\* A step of thread t that changes nothing but where it is.
Move(t, label) == Goto(t, label) /\ UNCHANGED others

\* _Supervisor.fail / .cancel: the flag first, the channels afterwards.
Fail(t) ==
  /\ failed' = TRUE
  /\ cancelled' = TRUE
  /\ closing' = [closing EXCEPT ![t] = 0]
  /\ Goto(t, "closing")
  /\ UNCHANGED closed

\* Faulty variant: the flag alone, no channel is closed.
CancelOnlyFlags(t) ==
  /\ cancelled' = TRUE
  /\ Goto(t, IF t = Main THEN "join" ELSE "finally")
  /\ UNCHANGED <<closed, closing, failed>>

Cancel(t) ==
  /\ cancelled' = TRUE
  /\ closing' = [closing EXCEPT ![t] = 0]
  /\ Goto(t, "closing")
  /\ UNCHANGED <<closed, failed>>

CloseNext(t) ==
  /\ pc[t] = "closing"
  /\ IF closing[t] \in Chan
     THEN /\ closed' = closed \cup {closing[t]}
          /\ closing' = [closing EXCEPT ![t] = @ + 1]
          /\ UNCHANGED pc
     ELSE /\ Goto(t, IF t = Main THEN "join" ELSE "finally")
          /\ UNCHANGED <<closed, closing>>
  /\ UNCHANGED <<chan, cancelled, failed, cur, next, stageState, refs, free,
                 terminal, result>>

-----------------------------------------------------------------------------
(* The source actor *)

SourceNext ==
  /\ pc[Source] = "next"
  /\ next <= NumUnits
  /\ next' = next + 1
  /\ IF cancelled
     THEN /\ Goto(Source, "finally")
          /\ UNCHANGED <<cur, refs>>
     ELSE /\ cur' = [cur EXCEPT ![Source] =
                       Wrap(next, SourceBnds(next), <<0, next>>)]
          /\ AddHandle(<<0, next>>)
          /\ Goto(Source, "put")
  /\ UNCHANGED <<chan, supervision, stageState, free, terminal, result>>

\* StopIteration leaves the loop without looking at the cancel flag.
SourceExhausted ==
  /\ pc[Source] = "next"
  /\ next > NumUnits
  /\ cur' = [cur EXCEPT ![Source] = EOS]
  /\ Goto(Source, "put")
  /\ UNCHANGED <<chan, supervision, next, stageState, refs, free, terminal, result>>

SourcePut ==
  /\ pc[Source] = "put"
  /\ CanPut(0)
  /\ Enqueue(0, cur[Source])
  /\ cur' = [cur EXCEPT ![Source] = None]
  /\ Goto(Source, IF cur[Source] = EOS THEN "finally" ELSE "next")
  /\ UNCHANGED <<supervision, next, stageState, refs, free, terminal, result>>

SourceRefused ==
  /\ pc[Source] = "put"
  /\ 0 \in closed
  /\ Move(Source, "finally")

\* next() on the source may raise, and so may the close() of a source that is
\* given up; a failure after the first changes nothing.
SourceFails ==
  /\ Source \in MayFail
  /\ \/ pc[Source] = "next"
     \/ pc[Source] = "finally" /\ cancelled /\ closing[Source] = 0
  /\ Fail(Source)
  /\ UNCHANGED <<chan, cur, next, stageState, refs, free, terminal, result>>

-----------------------------------------------------------------------------
(* A stage actor *)

StageTop(i) ==
  /\ pc[Worker(i)] = "top"
  /\ Move(Worker(i), IF cancelled THEN "finally" ELSE "get")

\* processor.flush(): the iterator yields what the processor holds.
StartFlush(i, why) ==
  /\ iter' = [iter EXCEPT ![i] = window[i]]
  /\ window' = [window EXCEPT ![i] = <<>>]
  /\ kind' = [kind EXCEPT ![i] = why]
  /\ drained' = [drained EXCEPT ![i] = {}]
  /\ Goto(Worker(i), "publish")
  /\ UNCHANGED <<marks, started, epoch, out>>

StageGetEos(i) ==
  /\ pc[Worker(i)] = "get"
  /\ HasItem(i - 1) /\ Head(chan[i - 1]) = EOS
  /\ Dequeue(i - 1)
  /\ StartFlush(i, "eos")
  /\ UNCHANGED <<supervision, cur, next, refs, free, terminal, result>>

\* Faulty variant: the tail of a shot is flushed only at the end of the stream.
NeverFlushes(i, bnds) == FALSE

\* A boundary inside the stream drains the processor before it resets it.
NeedsFlush(i, bnds) == bnds # <<>> /\ i \in started

StageGetUnit(i) ==
  /\ pc[Worker(i)] = "get"
  /\ HasItem(i - 1) /\ Head(chan[i - 1]) # EOS
  /\ Dequeue(i - 1)
  /\ cur' = [cur EXCEPT ![Worker(i)] = Head(chan[i - 1])]
  /\ LET bnds == Head(chan[i - 1]).bnds
     IN  IF NeedsFlush(i, bnds)
         THEN StartFlush(i, "boundary")
         ELSE /\ Goto(Worker(i), IF bnds # <<>> THEN "reset" ELSE "process")
              /\ UNCHANGED stageState
  /\ UNCHANGED <<supervision, next, refs, free, terminal, result>>

StageGetClosed(i) ==
  /\ pc[Worker(i)] = "get"
  /\ Ended(i - 1)
  /\ Move(Worker(i), "finally")

\* Faulty variant: only STREAM_START resets a processor.
StageResetOnce(i) ==
  LET bnds == cur[Worker(i)].bnds IN
  /\ pc[Worker(i)] = "reset"
  /\ epoch' = [epoch EXCEPT ![i] = IF @ = 0 THEN bnds[Len(bnds)] ELSE @]
  /\ marks' = [marks EXCEPT ![i] = @ \o bnds]
  /\ Goto(Worker(i), "process")
  /\ UNCHANGED <<chan, supervision, cur, next, window, iter, kind, started, drained,
                 out, refs, free, terminal, result>>

\* processor.reset() for each boundary of the unit; the boundaries then wait
\* for the first unit this stage emits.
StageReset(i) ==
  LET bnds == cur[Worker(i)].bnds IN
  /\ pc[Worker(i)] = "reset"
  /\ epoch' = [epoch EXCEPT ![i] = bnds[Len(bnds)]]
  /\ window' = [window EXCEPT ![i] = <<>>]
  /\ marks' = [marks EXCEPT ![i] = @ \o bnds]
  /\ Goto(Worker(i), "process")
  /\ UNCHANGED <<chan, supervision, cur, next, iter, kind, started, drained, out,
                 refs, free, terminal, result>>

\* processor.process(): absorb the unit, yield the oldest one held beyond
\* the processor's delay.
StageProcess(i) ==
  LET u    == cur[Worker(i)].unit
      held == IF u \in Drops[i] THEN window[i] ELSE Append(window[i], u)
  IN
  /\ pc[Worker(i)] = "process"
  /\ started' = started \cup {i}
  /\ IF Len(held) > Delay[i]
     THEN /\ iter' = [iter EXCEPT ![i] = <<Head(held)>>]
          /\ window' = [window EXCEPT ![i] = Tail(held)]
     ELSE /\ iter' = [iter EXCEPT ![i] = <<>>]
          /\ window' = [window EXCEPT ![i] = held]
  /\ kind' = [kind EXCEPT ![i] = "process"]
  /\ Goto(Worker(i), "publish")
  /\ UNCHANGED <<chan, supervision, cur, next, marks, epoch, drained, out,
                 refs, free, terminal, result>>

\* Faulty variant: the last slot is never given out.
SlotFreeButOne(i) == Slots[i] = 0 \/ free[i] > 1

\* _acquire_output_slot polls a semaphore: it returns at once without slots.
SlotFree(i) == Slots[i] = 0 \/ free[i] > 0

\* A turn of _publish_iterator looks at the flag before it asks for a slot.
StageTurn(i) ==
  /\ pc[Worker(i)] = "publish"
  /\ ~cancelled
  /\ Move(Worker(i), "emit")

\* The turn up to output.put(): slot, next(iterator), boundaries, lease.  The
\* flag may be up by now; the slots of i are taken by no other thread.  An
\* aliased payload keeps the lease of its source and gives the slot back; any
\* other output owns the slot until its last release.
StageEmit(i) ==
  LET u     == Head(iter[i])
      alias == /\ i \in Alias
               /\ kind[i] = "process" /\ u = cur[Worker(i)].unit
      lease == IF alias THEN cur[Worker(i)].lease ELSE <<i, u>>
  IN
  /\ pc[Worker(i)] = "emit"
  /\ SlotFree(i)
  /\ iter[i] # <<>>
  /\ iter' = [iter EXCEPT ![i] = Tail(@)]
  /\ out' = [out EXCEPT ![i] = Wrap(u, marks[i], lease)]
  /\ marks' = [marks EXCEPT ![i] = <<>>]
  /\ AddHandle(lease)
  /\ free' = IF alias \/ Slots[i] = 0 THEN free ELSE [free EXCEPT ![i] = @ - 1]
  /\ drained' = [drained EXCEPT ![i] = IF kind[i] = "boundary" THEN @ \cup {lease} ELSE @]
  /\ Goto(Worker(i), "put")
  /\ UNCHANGED <<chan, supervision, cur, next, window, kind, started, epoch,
                 terminal, result>>

StagePut(i) ==
  /\ pc[Worker(i)] = "put"
  /\ CanPut(PendingOf(i))
  /\ Enqueue(PendingOf(i), out[i])
  /\ out' = [out EXCEPT ![i] = None]
  /\ Goto(Worker(i), "publish")
  /\ UNCHANGED <<supervision, cur, next, window, iter, kind, marks, started, epoch,
                 drained, refs, free, terminal, result>>

\* Faulty variant: the refused envelope is forgotten, not released.
StagePutRefusedLeaks(i) ==
  /\ pc[Worker(i)] = "put"
  /\ PendingOf(i) \in closed
  /\ out' = [out EXCEPT ![i] = None]
  /\ Goto(Worker(i), "finally")
  /\ UNCHANGED <<chan, supervision, cur, next, window, iter, kind, marks, started,
                 epoch, drained, refs, free, terminal, result>>

StagePutRefused(i) ==
  /\ pc[Worker(i)] = "put"
  /\ PendingOf(i) \in closed
  /\ Release(out[i].lease)
  /\ out' = [out EXCEPT ![i] = None]
  /\ Goto(Worker(i), "finally")
  /\ UNCHANGED <<chan, supervision, cur, next, window, iter, kind, marks, started,
                 epoch, drained, terminal, result>>

\* Leaving _publish_iterator, with the iterator exhausted or, once cancelled,
\* cut short: what follows depends on the callback, not on which of the two.
AfterPublish(i) ==
  /\ \/ pc[Worker(i)] = "emit" /\ SlotFree(i) /\ iter[i] = <<>>
     \/ pc[Worker(i)] = "publish" /\ cancelled
  /\ iter' = [iter EXCEPT ![i] = <<>>]
  /\ Goto(Worker(i), CASE kind[i] = "process"  -> "release"
                       [] kind[i] = "boundary" -> "settle"
                       [] kind[i] = "eos"      -> "eos")
  /\ UNCHANGED <<chan, supervision, cur, next, window, kind, marks, started, epoch,
                 drained, out, refs, free, terminal, result>>

\* _acquire_output_slot gives up when it sees the flag between two timeouts.
StageSlotCancelled(i) ==
  /\ pc[Worker(i)] = "emit"
  /\ cancelled /\ Slots[i] > 0
  /\ Move(Worker(i), "finally")

\* _wait_boundary_outputs
StageSettle(i) ==
  /\ pc[Worker(i)] = "settle"
  /\ Slots[i] > 0 \/ cancelled \/ \A l \in drained[i] : refs[l] = 0
  /\ Move(Worker(i), "reset")

\* The polls of _acquire_output_slot and _wait_boundary_outputs time out.
StagePolls(i) ==
  /\ ~cancelled
  /\ \/ pc[Worker(i)] = "emit" /\ ~SlotFree(i)
     \/ pc[Worker(i)] = "settle" /\ Slots[i] = 0 /\ \E l \in drained[i] : refs[l] # 0
  /\ UNCHANGED vars

StageRelease(i) ==
  /\ pc[Worker(i)] = "release"
  /\ Release(cur[Worker(i)].lease)
  /\ cur' = [cur EXCEPT ![Worker(i)] = None]
  /\ Goto(Worker(i), "top")
  /\ UNCHANGED <<chan, supervision, next, stageState, terminal, result>>

StagePutEos(i) ==
  /\ pc[Worker(i)] = "eos"
  /\ IF PendingOf(i) \in closed
     THEN UNCHANGED chan
     ELSE CanPut(PendingOf(i)) /\ Enqueue(PendingOf(i), EOS)
  /\ Goto(Worker(i), "finally")
  /\ UNCHANGED <<supervision, cur, next, stageState, refs, free, terminal, result>>

\* Any callback of the processor may raise, and so may the close() of an
\* iterator that is cut short; the slot taken for the callback is returned.
StageFails(i) ==
  /\ Worker(i) \in MayFail
  /\ \/ pc[Worker(i)] \in {"reset", "process"}
     \/ pc[Worker(i)] = "publish" /\ cancelled
     \/ pc[Worker(i)] = "emit" /\ (SlotFree(i) \/ cancelled)
  /\ Fail(Worker(i))
  /\ UNCHANGED <<chan, cur, next, stageState, refs, free, terminal, result>>

-----------------------------------------------------------------------------
(* A publisher actor: the courier between a pending channel and an edge *)

CourierTop(i) ==
  /\ pc[Courier(i)] = "top"
  /\ Move(Courier(i), IF cancelled THEN "finally" ELSE "get")

CourierGet(i) ==
  /\ pc[Courier(i)] = "get"
  /\ HasItem(PendingOf(i))
  /\ cur' = [cur EXCEPT ![Courier(i)] = Head(chan[PendingOf(i)])]
  /\ Dequeue(PendingOf(i))
  /\ Goto(Courier(i), "put")
  /\ UNCHANGED <<supervision, next, stageState, refs, free, terminal, result>>

CourierPut(i) ==
  /\ pc[Courier(i)] = "put"
  /\ CanPut(i)
  /\ Enqueue(i, cur[Courier(i)])
  /\ cur' = [cur EXCEPT ![Courier(i)] = None]
  /\ Goto(Courier(i), IF cur[Courier(i)] = EOS THEN "finally" ELSE "top")
  /\ UNCHANGED <<supervision, next, stageState, refs, free, terminal, result>>

CourierClosed(i) ==
  /\ \/ pc[Courier(i)] = "get" /\ Ended(PendingOf(i))
     \/ pc[Courier(i)] = "put" /\ i \in closed
  /\ Move(Courier(i), "finally")

\* The finally clause of a worker: the envelope it still holds is released.
Finally(t) ==
  /\ pc[t] = "finally" /\ t # Sink
  /\ cur' = [cur EXCEPT ![t] = None]
  /\ IF cur[t] \in {None, EOS} THEN UNCHANGED <<refs, free>> ELSE Release(cur[t].lease)
  /\ Goto(t, "done")
  /\ UNCHANGED <<chan, supervision, next, stageState, terminal, result>>

-----------------------------------------------------------------------------
(* The sink actor *)

SinkTop ==
  /\ pc[Sink] = "top"
  /\ Move(Sink, IF cancelled THEN "finally" ELSE "get")

SinkGetUnit ==
  /\ pc[Sink] = "get"
  /\ HasItem(N) /\ Head(chan[N]) # EOS
  /\ Dequeue(N)
  /\ cur' = [cur EXCEPT ![Sink] = Head(chan[N])]
  /\ Goto(Sink, "consume")
  /\ UNCHANGED <<supervision, next, stageState, refs, free, terminal, result>>

\* EOS: finish() on the consumer.
SinkGetEos ==
  /\ pc[Sink] = "get"
  /\ HasItem(N) /\ Head(chan[N]) = EOS
  /\ Dequeue(N)
  /\ finished' = "eos"
  /\ Goto(Sink, "finally")
  /\ UNCHANGED <<supervision, cur, next, stageState, refs, free, terminal,
                 delivered, outcome>>

\* EOS, but finish() raises.
SinkFinishFails ==
  /\ pc[Sink] = "get" /\ Sink \in MayFail
  /\ HasItem(N) /\ Head(chan[N]) = EOS
  /\ Dequeue(N)
  /\ Fail(Sink)
  /\ UNCHANGED <<cur, next, stageState, refs, free, terminal, result>>

SinkGetClosed ==
  /\ pc[Sink] = "get"
  /\ Ended(N)
  /\ Move(Sink, "finally")

\* consume(); then a retaining consumer trades the envelope for the previous
\* one, any other gives it back at once.
SinkConsume ==
  LET got == cur[Sink] IN
  /\ pc[Sink] = "consume"
  /\ delivered' = Append(delivered, Seen(got))
  /\ cur' = [cur EXCEPT ![Sink] = None]
  /\ IF Retains
     THEN /\ terminal' = <<got.lease>>
          /\ IF terminal = <<>> THEN UNCHANGED <<refs, free>> ELSE Release(terminal[1])
     ELSE /\ Release(got.lease)
          /\ UNCHANGED terminal
  /\ \/ Goto(Sink, "top")
     \/ MayStop /\ Goto(Sink, "stop")
  /\ UNCHANGED <<chan, supervision, next, stageState, finished, outcome>>

\* consume() returned False: finish(), then cancel the graph.
SinkStop ==
  /\ pc[Sink] = "stop"
  /\ finished' = "early"
  /\ Cancel(Sink)
  /\ UNCHANGED <<chan, cur, next, stageState, refs, free, terminal, delivered, outcome>>

\* consume() raises, or finish() after an early stop.
SinkFails ==
  /\ pc[Sink] \in {"consume", "stop"} /\ Sink \in MayFail
  /\ Fail(Sink)
  /\ UNCHANGED <<chan, cur, next, stageState, refs, free, terminal, result>>

\* finally: the current envelope, then the held one, then terminal_done.
SinkFinally ==
  /\ pc[Sink] = "finally"
  /\ \/ /\ cur[Sink] # None
        /\ Release(cur[Sink].lease)
        /\ cur' = [cur EXCEPT ![Sink] = None]
        /\ UNCHANGED <<pc, terminal>>
     \/ /\ cur[Sink] = None /\ terminal # <<>>
        /\ Release(terminal[1])
        /\ terminal' = <<>>
        /\ UNCHANGED <<pc, cur>>
     \/ /\ cur[Sink] = None /\ terminal = <<>>
        /\ Goto(Sink, "done")
        /\ UNCHANGED <<cur, refs, free, terminal>>
  /\ UNCHANGED <<chan, supervision, next, stageState, result>>

-----------------------------------------------------------------------------
(* The calling thread: __next__ and close(), or wait() *)

\* _start: prepare every processor, then start the threads.
Start ==
  /\ pc[Main] = "new"
  /\ \E sink \in SinkModes :
       pc' = [t \in Thread |-> CASE t = Main   -> IF sink THEN "wait" ELSE "get"
                                 [] t = Source -> "next"
                                 [] t = Sink   -> IF sink THEN "top" ELSE "done"
                                 [] OTHER      -> "top"]
  /\ UNCHANGED others

\* A prepare() raises: the graph is cancelled before any thread exists.
StartFails ==
  /\ pc[Main] = "new" /\ Main \in MayFail
  /\ Fail(Main)
  /\ outcome' = "failed"
  /\ UNCHANGED <<chan, cur, next, stageState, refs, free, terminal, delivered, finished>>

\* The host keeps max((1, *(operation.output_slots for operation in
\* operations))) leases: as many as every one of these.
HostHoldsLimit ==
  \A limit \in {1} \cup {Slots[i] : i \in Stage} : Len(terminal) >= limit

HostPull ==
  /\ pc[Main] = "idle"
  /\ IF HostHoldsLimit
     THEN Release(Head(terminal)) /\ terminal' = Tail(terminal)
     ELSE UNCHANGED <<refs, free, terminal>>
  /\ Goto(Main, "get")
  /\ UNCHANGED <<chan, supervision, cur, next, stageState, result>>

HostGetUnit ==
  LET got == Head(chan[N]) IN
  /\ pc[Main] = "get"
  /\ HasItem(N) /\ got # EOS
  /\ Dequeue(N)
  /\ terminal' = Append(terminal, got.lease)
  /\ delivered' = Append(delivered, Seen(got))
  /\ Goto(Main, "idle")
  /\ UNCHANGED <<supervision, cur, next, stageState, refs, free, finished, outcome>>

\* The unit is not ready, or cannot be rebuilt for the host: its envelope is
\* released, and then the failure recorded.
HostUnitFails ==
  LET got == Head(chan[N]) IN
  /\ pc[Main] = "get" /\ Main \in MayFail
  /\ HasItem(N) /\ got # EOS
  /\ Dequeue(N)
  /\ Release(got.lease)
  /\ Goto(Main, "raise")
  /\ UNCHANGED <<supervision, cur, next, stageState, terminal, result>>

HostRaises ==
  /\ pc[Main] = "raise"
  /\ Fail(Main)
  /\ outcome' = "failed"
  /\ UNCHANGED <<chan, cur, next, stageState, refs, free, terminal, delivered, finished>>

\* An interrupt ends the get() of a pull.
HostInterrupted ==
  /\ pc[Main] = "get" /\ MayCancel
  /\ Fail(Main)
  /\ outcome' = "failed"
  /\ UNCHANGED <<chan, cur, next, stageState, refs, free, terminal, delivered, finished>>

HostGetEos ==
  /\ pc[Main] = "get"
  /\ HasItem(N) /\ Head(chan[N]) = EOS
  /\ Dequeue(N)
  /\ IF failed
     THEN outcome' = "failed" /\ Cancel(Main)
     ELSE outcome' = "ended" /\ Goto(Main, "join") /\ UNCHANGED supervision
  /\ UNCHANGED <<cur, next, stageState, refs, free, terminal, delivered, finished>>

\* Faulty variant: a closed channel ends the iteration like EOS.
HostGetClosedEnds ==
  /\ pc[Main] = "get"
  /\ Ended(N)
  /\ outcome' = "ended"
  /\ Cancel(Main)
  /\ UNCHANGED <<chan, cur, next, stageState, refs, free, terminal, delivered, finished>>

HostGetClosed ==
  /\ pc[Main] = "get"
  /\ Ended(N)
  /\ outcome' = "failed"
  /\ Cancel(Main)
  /\ UNCHANGED <<chan, cur, next, stageState, refs, free, terminal, delivered, finished>>

\* close(), or leaving the with block: before the first pull, between two
\* pulls, or by an interrupt that ends wait().
Close ==
  /\ MayCancel
  /\ pc[Main] \in {"new", "idle", "wait"}
  /\ outcome' = "cancelled"
  /\ Cancel(Main)
  /\ UNCHANGED <<chan, cur, next, stageState, refs, free, terminal, delivered, finished>>

\* wait() returns from terminal_done and reads the supervisor's failure.
WaitReturns ==
  /\ pc[Main] = "wait"
  /\ pc[Sink] = "done"
  /\ IF failed
     THEN outcome' = "failed" /\ Cancel(Main)
     ELSE outcome' = "ended" /\ Goto(Main, "join") /\ UNCHANGED supervision
  /\ UNCHANGED <<chan, cur, next, stageState, refs, free, terminal, delivered, finished>>

\* Faulty variant: the couriers are not waited for.
JoinedButCouriers == \A t \in Thread \ ({Main} \cup Couriers) : pc[t] \in {"new", "done"}

Joined == \A t \in Thread \ {Main} : pc[t] \in {"new", "done"}

\* _finish_graph joins every thread ...
Join ==
  /\ pc[Main] = "join"
  /\ Joined
  /\ Goto(Main, "drain")
  /\ closed' = Chan
  /\ UNCHANGED <<chan, cancelled, failed, closing, cur, next, stageState, refs, free,
                 terminal, result>>

\* ... then releases what the channels still hold, and the terminal leases.
Drain(c) ==
  /\ pc[Main] = "drain"
  /\ HasItem(c)
  /\ Dequeue(c)
  /\ IF Head(chan[c]) = EOS THEN UNCHANGED <<refs, free>> ELSE Release(Head(chan[c]).lease)
  /\ UNCHANGED <<supervision, pc, cur, next, stageState, terminal, result>>

DropTerminal ==
  /\ pc[Main] = "drain"
  /\ \A c \in Chan : ~HasItem(c)
  /\ terminal # <<>>
  /\ Release(Head(terminal))
  /\ terminal' = Tail(terminal)
  /\ UNCHANGED <<chan, supervision, pc, cur, next, stageState, result>>

\* _close_all: consumer, processors in reverse order, bridge, finalizers, lanes.
CloseAll ==
  /\ pc[Main] = "drain"
  /\ \A c \in Chan : ~HasItem(c)
  /\ terminal = <<>>
  /\ Move(Main, "closed")

Finished == pc[Main] = "closed" /\ UNCHANGED vars

-----------------------------------------------------------------------------
Init ==
  /\ chan = [c \in Chan |-> <<>>]
  /\ closed = {} /\ cancelled = FALSE /\ failed = FALSE
  /\ closing = [t \in Thread |-> 0]
  /\ pc = [t \in Thread |-> "new"]
  /\ cur = [t \in Thread |-> None]
  /\ next = 1
  /\ window = [i \in Stage |-> <<>>]
  /\ iter = [i \in Stage |-> <<>>]
  /\ kind = [i \in Stage |-> "process"]
  /\ marks = [i \in Stage |-> <<>>]
  /\ started = {}
  /\ epoch = [i \in Stage |-> 0]
  /\ drained = [i \in Stage |-> {}]
  /\ out = [i \in Stage |-> None]
  /\ refs = [l \in Lease |-> 0]
  /\ free = Slots
  /\ terminal = <<>>
  /\ delivered = <<>> /\ finished = "no" /\ outcome = "none"

SourceStep ==
  \/ SourceNext \/ SourceExhausted \/ SourcePut \/ SourceRefused \/ SourceFails
  \/ CloseNext(Source) \/ Finally(Source)

StageStep(i) ==
  \/ StageTop(i) \/ StageGetEos(i) \/ StageGetUnit(i) \/ StageGetClosed(i)
  \/ StageReset(i) \/ StageProcess(i)
  \/ StageTurn(i) \/ StageEmit(i) \/ StagePut(i) \/ StagePutRefused(i)
  \/ AfterPublish(i) \/ StageSlotCancelled(i)
  \/ StageSettle(i) \/ StagePolls(i) \/ StageRelease(i) \/ StagePutEos(i)
  \/ StageFails(i) \/ CloseNext(Worker(i)) \/ Finally(Worker(i))

CourierStep(i) ==
  \/ CourierTop(i) \/ CourierGet(i) \/ CourierPut(i) \/ CourierClosed(i)
  \/ Finally(Courier(i))

SinkStep ==
  \/ SinkTop \/ SinkGetUnit \/ SinkGetEos \/ SinkFinishFails \/ SinkGetClosed
  \/ SinkConsume \/ SinkStop \/ SinkFails
  \/ CloseNext(Sink) \/ SinkFinally

\* What goes wrong in the calling thread.
MainFails == StartFails \/ HostUnitFails \/ HostInterrupted

\* What the calling thread does when it neither fails nor gives up.
MainStep ==
  \/ Start \/ HostPull \/ HostGetUnit \/ HostRaises \/ HostGetEos \/ HostGetClosed
  \/ WaitReturns \/ CloseNext(Main) \/ Join
  \/ (\E c \in Chan : Drain(c)) \/ DropTerminal \/ CloseAll

Next ==
  \/ SourceStep
  \/ \E i \in Stage : StageStep(i) \/ CourierStep(i)
  \/ SinkStep
  \/ MainStep \/ MainFails \/ Close
  \/ Finished

Spec == Init /\ [][Next]_vars

\* Some thread that can go on does, and the host keeps pulling until it stops.
\* No thread is promised a turn of its own: every fair schedule of the threads
\* does at least this much, since a thread that can go on is stopped by nobody.
Fairness ==
  WF_vars(\/ SourceStep
          \/ \E i \in Stage : StageStep(i) \/ CourierStep(i)
          \/ SinkStep
          \/ MainStep)

FairSpec == Spec /\ Fairness

=============================================================================
