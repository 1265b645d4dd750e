----------------------------- MODULE OwnerLane -----------------------------
(***************************************************************************)
(* Owner lanes, resource permits and accelerator windows.                  *)
(*                                                                         *)
(* A lane (pipeline/streaming.py, _AffinityLane) is one thread that runs   *)
(* the callbacks of every stage with its affinity.  A callback takes its   *)
(* permits one by one (_ResourceArbiter) and gives them back as it returns.*)
(* A stage that works in accelerator windows (processors/feed_driver.py,   *)
(* WindowWavefront) waits inside its callback by running other callbacks   *)
(* of its lane on top of it (run_until), while three parties move the      *)
(* window: progress callbacks on the lane, a completion thread that waits  *)
(* for the native dispatch, and the worker that executes it.               *)
(***************************************************************************)
EXTENDS Integers, SequencesExt

CONSTANTS
  N,          \* number of stages; a stage is its index, downstream is larger
  Lane,       \* the affinity lanes
  LaneOf,     \* the lane of a stage
  Windowed,   \* the stages that work in accelerator windows
  Calls,      \* how often another stage calls its lane
  Permits,    \* the permits of each resource, resources numbered in order
  Claims,     \* the permits a callback of a stage takes, in order
  Windows,    \* windows of a windowed stage
  Inputs,     \* inputs of a window
  Dispatches, \* native dispatches of a window
  MayFail,    \* the windowed stages whose dispatches may fail
  MayCancel   \* the run may be cancelled

Stage    == 1..N
Resource == DOMAIN Permits

\* A graph has a stage at least: its sink.
ASSUME LaneConstants ==
  /\ N \in Nat \ {0} /\ LaneOf \in [Stage -> Lane] /\ Windowed \subseteq Stage
  /\ Calls \in Nat \ {0} /\ Permits \in Seq(Nat)
  /\ Claims \in [Stage -> Seq(Resource)]
  /\ Windows \in Nat \ {0} /\ Inputs \in Nat \ {0} /\ Dispatches \in Nat \ {0}
  /\ MayFail \subseteq Windowed /\ MayCancel \in BOOLEAN

VARIABLES
  items,      \* _items of a lane, in the order of submission
  stack,      \* the callbacks a lane is inside, the running one last
  stopped,    \* the lanes whose thread has returned
  permits,    \* the permits nobody holds
  caller,     \* what the thread of a stage does: "idle", "calling", "done"
  count,      \* the calls, or the inputs, a stage has made so far
  pos,        \* where the iterator of a windowed stage stands
  batch,      \* outputs collected and not yet yielded
  emitted,    \* outputs yielded
  begun,      \* windows begun
  handle,     \* _handle: the window in flight, 0 for None
  done,       \* _done
  failure,    \* _progress_failure is set
  collected,  \* next_output of the window's collect()
  step,       \* how far the window's generator of dispatches has run
  broken,     \* its _failed
  future,     \* _future of the dispatch pipeline is set
  jobs,       \* dispatches on the worker that have not finished
  bad,        \* the last dispatch raised
  waits,      \* the windowed stages whose windows have wait_until_ready()
  waiter,     \* the completion thread: <<what it does, for which window>>
  cancelled,  \* the supervisor has cancelled
  main        \* the calling thread: <<what it does, to which stage>>

lanes   == <<items, stack, stopped, permits>>
callers == <<caller, count>>
iter    == <<pos, batch, emitted>>
wave    == <<begun, handle, done, failure, collected>>
window  == <<step, broken>>
native  == <<future, jobs, bad>>
ends    == <<waits, waiter, cancelled, main>>
vars    == <<lanes, callers, iter, wave, window, native, ends>>

-----------------------------------------------------------------------------
(* The lane and the permits *)

JobOf(kind, i, k) == [kind |-> kind, stage |-> i, window |-> k]

Submitted(l, job, ripe) == [items EXCEPT ![l] = Append(@, [job |-> job, ripe |-> ripe])]

Top(l) == Last(stack[l])

\* What the callback claims; closing a processor claims nothing.
Claim(job) == IF job.kind = "close" THEN <<>> ELSE Claims[job.stage]

Ripe(l) == {n \in DOMAIN items[l] : items[l][n].ripe}

\* Of the items that are due, the one with the smallest priority (the stage
\* furthest downstream; the stop item has none), then the oldest.
Chosen(l) ==
  CHOOSE n \in Ripe(l) : \A o \in Ripe(l) :
    LET due == items[l][n].job  other == items[l][o].job
    IN  due.stage > other.stage \/ (due.stage = other.stage /\ n <= o)

\* Outputs materialised after a number of steps of the window's generator: one
\* per dispatch, the last dispatch of the window brings one more.
OutputsAfter(s) == CASE s = 0 -> 0
                     [] s \in 1..Dispatches -> s - 1
                     [] OTHER -> Dispatches + 1
Complete(i) == step[i] > Dispatches

\* The predicate a windowed stage waits for.
Ready(i) == done[i] \/ failure[i] \/ OutputsAfter(step[i]) > collected[i]

\* The lane is between callbacks, or in a wait that is not over.
Serving(l) ==
  /\ l \notin stopped
  /\ stack[l] # <<>> => Top(l).at = "wait" /\ ~Ready(Top(l).job.stage)

Take(l) ==
  /\ Serving(l) /\ Ripe(l) # {}
  /\ LET job == items[l][Chosen(l)].job
     IN  /\ job.kind # "stop"
         /\ stack' = [stack EXCEPT ![l] = Append(@, [job |-> job, got |-> 0,
                        at |-> IF Claim(job) = <<>> THEN "run" ELSE "permits"])]
  /\ items' = [items EXCEPT ![l] = RemoveAt(@, Chosen(l))]
  /\ UNCHANGED <<stopped, permits, callers, iter, wave, window, native, ends>>

LaneEnds(l) ==
  /\ Serving(l) /\ Ripe(l) # {} /\ items[l][Chosen(l)].job.kind = "stop"
  /\ items' = [items EXCEPT ![l] = RemoveAt(@, Chosen(l))]
  /\ stopped' = stopped \cup {l}
  /\ UNCHANGED <<stack, permits, callers, iter, wave, window, native, ends>>

\* An item with a delay becomes due; the stop item is due last.
Ripen(l) ==
  /\ \E n \in DOMAIN items[l] :
       /\ ~items[l][n].ripe
       /\ items[l][n].job.kind = "stop" => Ripe(l) \cup {n} = DOMAIN items[l]
       /\ items' = [items EXCEPT ![l][n].ripe = TRUE]
  /\ UNCHANGED <<stack, stopped, permits, callers, iter, wave, window, native, ends>>

AcquirePermit(l) ==
  /\ stack[l] # <<>> /\ Top(l).at = "permits"
  /\ LET top == Top(l)  r == Claim(top.job)[top.got + 1]
     IN  /\ permits[r] > 0
         /\ permits' = [permits EXCEPT ![r] = @ - 1]
         /\ stack' = [stack EXCEPT ![l][Len(stack[l])] =
              [top EXCEPT !.got = @ + 1,
                          !.at = IF top.got + 1 = Len(Claim(top.job)) THEN "run" ELSE "permits"]]
  /\ UNCHANGED <<items, stopped, callers, iter, wave, window, native, ends>>

WaitOver(l) ==
  /\ stack[l] # <<>> /\ Top(l).at = "wait" /\ Ready(Top(l).job.stage)
  /\ stack' = [stack EXCEPT ![l][Len(stack[l])].at = "run"]
  /\ UNCHANGED <<items, stopped, permits, callers, iter, wave, window, native, ends>>

\* The permits of r that a callback holds, by their places in its claim.
Taken(frame, r) == {n \in 1..frame.got : Claim(frame.job)[n] = r}
Held(frame, r) == Cardinality(Taken(frame, r))

\* run_until() also looks at its predicate now and then.
Polls(l) ==
  /\ Serving(l) /\ stack[l] # <<>>
  /\ UNCHANGED vars

Running(l, kind) == stack[l] # <<>> /\ Top(l).at = "run" /\ Top(l).job.kind = kind

\* Faulty variant: the last permit taken is not given back.
LeaveButLast(l) ==
  /\ stack' = [stack EXCEPT ![l] = Front(@)]
  /\ permits' = [r \in Resource |->
       permits[r] + Cardinality({n \in 1..(Top(l).got - 1) : Claim(Top(l).job)[n] = r})]

\* The callback returns or raises, and gives its permits back.
Leave(l) ==
  /\ stack' = [stack EXCEPT ![l] = Front(@)]
  /\ permits' = [r \in Resource |-> permits[r] + Held(Top(l), r)]

\* run_until(): the callback waits for its window.
Suspend(l) == stack' = [stack EXCEPT ![l][Len(stack[l])].at = "wait"] /\ UNCHANGED permits

-----------------------------------------------------------------------------
(* The stages *)

Calling(i) ==
  /\ caller[i] = "idle" /\ ~cancelled
  /\ caller' = [caller EXCEPT ![i] = "calling"]
  /\ items' = Submitted(LaneOf[i], JobOf("call", i, 0), TRUE)
  /\ UNCHANGED <<stack, stopped, permits, count, iter, wave, window, native, ends>>

\* A stage looks at the supervisor between two calls.
GivesUp(i) ==
  /\ caller[i] = "idle" /\ cancelled
  /\ caller' = [caller EXCEPT ![i] = "done"]
  /\ UNCHANGED <<lanes, count, iter, wave, window, native, ends>>

Cancel ==
  /\ MayCancel /\ ~cancelled
  /\ cancelled' = TRUE
  /\ UNCHANGED <<lanes, callers, iter, wave, window, native, waits, waiter, main>>

Called(l, i) == Running(l, "call") /\ Top(l).job.stage = i

\* The call of a stage without windows.
PlainCall(l) ==
  \E i \in Stage \ Windowed :
    /\ Called(l, i) /\ Leave(l)
    /\ count' = [count EXCEPT ![i] = @ + 1]
    /\ caller' = [caller EXCEPT ![i] = IF count[i] + 1 = Calls THEN "done" ELSE "idle"]
    /\ UNCHANGED <<items, stopped, iter, wave, window, native, ends>>

-----------------------------------------------------------------------------
(* The iterator of a windowed stage: feed() until the last input of the last *)
(* window, then flush().  It runs on the lane up to its next yield.          *)

At(l, i, p) == Called(l, i) /\ batch[i] = <<>> /\ pos[i] = p

\* Faulty variant: collects from the start of the window again.
CollectsAgain(i) == [n \in 1..OutputsAfter(step[i]) |-> <<handle[i], n>>]

\* collect(): the outputs that were materialised since the last time.
Fresh(i) ==
  [n \in 1..(OutputsAfter(step[i]) - collected[i]) |-> <<handle[i], collected[i] + n>>]

Collect(i) ==
  /\ batch' = [batch EXCEPT ![i] = Fresh(i)]
  /\ collected' = [collected EXCEPT ![i] = OutputsAfter(step[i])]

\* _finish(): the last outputs, and no window in flight.
Finish(i) ==
  /\ Collect(i)
  /\ handle' = [handle EXCEPT ![i] = 0]
  /\ done' = [done EXCEPT ![i] = FALSE]
  /\ failure' = [failure EXCEPT ![i] = FALSE]

Goto(i, p) == pos' = [pos EXCEPT ![i] = p]

\* _begin(): the next window, and the first link of its progress.  Downstream
\* pressure may delay a progress callback (_progress_delay).
BeginWindow(i) ==
  /\ begun' = [begun EXCEPT ![i] = @ + 1]
  /\ handle' = [handle EXCEPT ![i] = begun[i] + 1]
  /\ done' = [done EXCEPT ![i] = FALSE]
  /\ failure' = [failure EXCEPT ![i] = FALSE]
  /\ collected' = [collected EXCEPT ![i] = 0]
  /\ step' = [step EXCEPT ![i] = 0]
  /\ broken' = [broken EXCEPT ![i] = FALSE]
  /\ \E ripe \in BOOLEAN :
       items' = Submitted(LaneOf[i], JobOf("progress", i, begun[i] + 1), ripe)

\* One unit leaves the iterator, and the callback returns.
Yield(l, i) ==
  /\ Called(l, i) /\ batch[i] # <<>>
  /\ emitted' = [emitted EXCEPT ![i] = Append(@, Head(batch[i]))]
  /\ batch' = [batch EXCEPT ![i] = Tail(@)]
  /\ Leave(l) /\ caller' = [caller EXCEPT ![i] = "idle"]
  /\ UNCHANGED <<items, stopped, count, pos, wave, window, native, ends>>

\* poll(), available(): a failed window raises, any other gives what it has.
FeedPolls(l, i) ==
  /\ At(l, i, "feed") /\ ~(handle[i] # 0 /\ failure[i])
  /\ IF handle[i] = 0 THEN UNCHANGED <<batch, handle, done, failure, collected>>
     ELSE IF done[i] THEN Finish(i)
     ELSE Collect(i) /\ UNCHANGED <<handle, done, failure>>
  /\ Goto(i, "buffer")
  /\ UNCHANGED <<lanes, callers, emitted, begun, window, native, ends>>

\* The input only joins the buffer of its window, and the iterator ends.
FeedBuffers(l, i) ==
  /\ At(l, i, "buffer") /\ count[i] + 1 < Inputs
  /\ count' = [count EXCEPT ![i] = @ + 1]
  /\ Goto(i, "feed") /\ Leave(l) /\ caller' = [caller EXCEPT ![i] = "idle"]
  /\ UNCHANGED <<items, stopped, batch, emitted, wave, window, native, ends>>

\* The input completes its window: submit() with no window in flight.
SubmitFirst(l, i) ==
  /\ At(l, i, "buffer") /\ count[i] + 1 = Inputs /\ handle[i] = 0
  /\ BeginWindow(i)
  /\ count' = [count EXCEPT ![i] = 0] /\ Goto(i, "begun")
  /\ UNCHANGED <<stack, stopped, permits, caller, batch, emitted, native, ends>>

\* submit() with a window in flight: _handoff().
SubmitNext(l, i) ==
  /\ At(l, i, "buffer") /\ count[i] + 1 = Inputs /\ handle[i] # 0
  /\ count' = [count EXCEPT ![i] = 0] /\ Goto(i, "handoff")
  /\ UNCHANGED <<lanes, caller, batch, emitted, wave, window, native, ends>>

\* The loop of _handoff(): yield what there is, or wait for more.
HandoffWaits(l, i) ==
  /\ At(l, i, "handoff") /\ ~done[i] /\ ~failure[i]
  /\ IF Fresh(i) # <<>> THEN Collect(i) /\ UNCHANGED <<stack, permits>>
     ELSE Suspend(l) /\ UNCHANGED <<batch, collected>>
  /\ UNCHANGED <<items, stopped, callers, pos, emitted, begun, handle, done, failure, window,
                 native, ends>>

\* The window is complete: its last outputs are collected before the next
\* window begins, and yielded after.
HandoffFinishes(l, i) ==
  /\ At(l, i, "handoff") /\ done[i] /\ ~failure[i]
  /\ batch' = [batch EXCEPT ![i] = Fresh(i)]
  /\ BeginWindow(i)
  /\ Goto(i, "begun")
  /\ UNCHANGED <<stack, stopped, permits, callers, emitted, native, ends>>

\* available() once the next window has begun.
Begun(l, i) ==
  /\ At(l, i, "begun") /\ ~failure[i]
  /\ IF done[i] THEN Finish(i) ELSE Collect(i) /\ UNCHANGED <<handle, done, failure>>
  /\ Goto(i, IF begun[i] = Windows THEN "drain" ELSE "fed")
  /\ UNCHANGED <<lanes, callers, emitted, begun, window, native, ends>>

\* The iterator of an input ends.
FeedEnds(l, i) ==
  /\ At(l, i, "fed")
  /\ Goto(i, "feed") /\ Leave(l) /\ caller' = [caller EXCEPT ![i] = "idle"]
  /\ UNCHANGED <<items, stopped, count, batch, emitted, wave, window, native, ends>>

\* drain(): yield what there is, or wait for more.
Drains(l, i) ==
  /\ At(l, i, "drain") /\ handle[i] # 0 /\ ~failure[i]
  /\ IF done[i] THEN Finish(i) /\ UNCHANGED <<stack, permits>>
     ELSE /\ UNCHANGED <<handle, done, failure>>
          /\ IF Fresh(i) # <<>> THEN Collect(i) /\ UNCHANGED <<stack, permits>>
             ELSE Suspend(l) /\ UNCHANGED <<batch, collected>>
  /\ UNCHANGED <<items, stopped, callers, pos, emitted, begun, window, native, ends>>

FlushEnds(l, i) ==
  /\ At(l, i, "drain") /\ handle[i] = 0
  /\ Leave(l) /\ caller' = [caller EXCEPT ![i] = "done"]
  /\ UNCHANGED <<items, stopped, count, iter, wave, window, native, ends>>

\* Every operation on a failed window raises, and the supervisor cancels.
Raises(l, i) ==
  /\ Called(l, i) /\ batch[i] = <<>> /\ handle[i] # 0 /\ failure[i]
  /\ pos[i] \in {"feed", "handoff", "begun", "drain"}
  /\ cancelled' = TRUE /\ Leave(l) /\ caller' = [caller EXCEPT ![i] = "done"]
  /\ UNCHANGED <<items, stopped, count, iter, wave, window, native, waits, waiter, main>>

Iterates(l) ==
  \E i \in Windowed :
    \/ Yield(l, i) \/ FeedPolls(l, i) \/ FeedBuffers(l, i) \/ SubmitFirst(l, i)
    \/ SubmitNext(l, i) \/ HandoffWaits(l, i) \/ HandoffFinishes(l, i) \/ Begun(l, i)
    \/ FeedEnds(l, i) \/ Drains(l, i) \/ FlushEnds(l, i) \/ Raises(l, i)

-----------------------------------------------------------------------------
(* The window in flight *)

\* _submit of the dispatch pipeline, or the end of the generator.
Dispatch(i) ==
  /\ step' = [step EXCEPT ![i] = @ + 1]
  /\ future' = [future EXCEPT ![i] = step[i] < Dispatches]
  /\ jobs' = [jobs EXCEPT ![i] = IF step[i] < Dispatches THEN @ + 1 ELSE @]
  /\ UNCHANGED bad

\* The dispatch that is joined raises: the window is broken.
Breaks(i) ==
  /\ broken' = [broken EXCEPT ![i] = TRUE]
  /\ future' = [future EXCEPT ![i] = FALSE]

\* Faulty variant: what a dispatch raised is not kept.
TellsNoFailure(i, k, failed, complete) ==
  /\ done' = [done EXCEPT ![i] = IF handle[i] = k THEN complete ELSE @]
  /\ UNCHANGED <<begun, handle, failure, collected>>

\* What the callback of a finished future tells the window it was for.
Tells(i, k, failed, complete) ==
  /\ failure' = [failure EXCEPT ![i] = IF handle[i] = k THEN failed ELSE @]
  /\ done' = [done EXCEPT ![i] = IF handle[i] = k THEN complete ELSE @]
  /\ UNCHANGED <<begun, handle, collected>>

\* Faulty variant: progress goes on to the next dispatch without a join.
NeverBlocks(i) == FALSE

\* A join of the dispatch in flight would block.
WouldBlock(i) == future[i] /\ jobs[i] > 0

\* The link after a progress callback: the completion thread waits for the
\* dispatch, or the next callback comes a little later.
Continues(i, k) ==
  IF handle[i] # k THEN UNCHANGED <<items, waiter>>
  ELSE IF i \in waits THEN waiter' = [waiter EXCEPT ![i] = <<"queued", k>>] /\ UNCHANGED items
  ELSE items' = Submitted(LaneOf[i], JobOf("progress", i, k), FALSE) /\ UNCHANGED waiter

\* One progress callback: join what is finished, materialise, dispatch the next.
Progress(l) ==
  \E i \in Windowed :
    /\ Running(l, "progress") /\ Top(l).job.stage = i
    /\ Leave(l)
    /\ LET k == Top(l).job.window
       IN  \/ /\ WouldBlock(i)
              /\ Tells(i, k, FALSE, FALSE) /\ Continues(i, k)
              /\ UNCHANGED <<window, native>>
           \/ /\ ~WouldBlock(i) /\ (broken[i] \/ (future[i] /\ bad[i]))
              /\ Breaks(i) /\ Tells(i, k, TRUE, FALSE)
              /\ UNCHANGED <<step, jobs, bad, items, waiter>>
           \/ /\ ~WouldBlock(i) /\ ~broken[i] /\ ~(future[i] /\ bad[i])
              /\ IF Complete(i) THEN UNCHANGED <<step, native>> ELSE Dispatch(i)
              /\ Tells(i, k, FALSE, step'[i] > Dispatches)
              /\ IF step'[i] > Dispatches THEN UNCHANGED <<items, waiter>> ELSE Continues(i, k)
              /\ UNCHANGED broken
    /\ UNCHANGED <<stopped, callers, iter, waits, cancelled, main>>

\* The worker finishes a dispatch.
WorkerFinishes(i) ==
  /\ jobs[i] > 0
  /\ jobs' = [jobs EXCEPT ![i] = @ - 1]
  /\ \E raised \in (IF i \in MayFail THEN BOOLEAN ELSE {FALSE}) : bad' = [bad EXCEPT ![i] = raised]
  /\ UNCHANGED <<lanes, callers, iter, wave, window, future, ends>>

\* After a native wait: the next progress callback, unless the window is gone.
NextProgress(i, k) ==
  IF handle[i] = k
  THEN \E ripe \in BOOLEAN : items' = Submitted(LaneOf[i], JobOf("progress", i, k), ripe)
  ELSE UNCHANGED items

Idle == <<"idle", 0>>

\* wait_until_ready() on the completion thread takes the future ...
WaitStarts(i) ==
  /\ waiter[i][1] = "queued"
  /\ LET k == waiter[i][2]
     IN  \/ /\ ~broken[i] /\ future[i]
            /\ future' = [future EXCEPT ![i] = FALSE]
            /\ waiter' = [waiter EXCEPT ![i] = <<"joining", k>>]
            /\ UNCHANGED <<items, wave>>
         \/ /\ broken[i] \/ ~future[i]
            /\ waiter' = [waiter EXCEPT ![i] = Idle]
            /\ IF broken[i] THEN Tells(i, k, TRUE, FALSE) /\ UNCHANGED items
               ELSE NextProgress(i, k) /\ UNCHANGED wave
            /\ UNCHANGED future
  /\ UNCHANGED <<stack, stopped, permits, callers, iter, window, jobs, bad, waits, cancelled, main>>

\* ... and joins it outside the lane.
WaitEnds(i) ==
  /\ waiter[i][1] = "joining" /\ jobs[i] = 0
  /\ waiter' = [waiter EXCEPT ![i] = Idle]
  /\ LET k == waiter[i][2]
     IN  IF bad[i]
         THEN /\ broken' = [broken EXCEPT ![i] = TRUE]
              /\ Tells(i, k, TRUE, FALSE) /\ UNCHANGED items
         ELSE NextProgress(i, k) /\ UNCHANGED <<wave, broken>>
  /\ UNCHANGED <<stack, stopped, permits, callers, iter, step, native, waits, cancelled, main>>

-----------------------------------------------------------------------------
(* The end of the graph: join, close the stages, end the threads *)

MainJoins ==
  /\ main[1] = "join" /\ \A i \in Stage : caller[i] = "done"
  /\ main' = <<"close", N>>
  /\ UNCHANGED <<lanes, callers, iter, wave, window, native, waits, waiter, cancelled>>

MainCloses ==
  /\ main[1] = "close"
  /\ items' = Submitted(LaneOf[main[2]], JobOf("close", main[2], 0), TRUE)
  /\ main' = <<"closing", main[2]>>
  /\ UNCHANGED <<stack, stopped, permits, callers, iter, wave, window, native, waits, waiter, cancelled>>

\* close() of a windowed stage: abandon() forgets the window first.
Abandon(l) ==
  \E i \in Windowed :
    /\ Running(l, "close") /\ Top(l).job.stage = i /\ handle[i] # 0
    /\ handle' = [handle EXCEPT ![i] = 0]
    /\ done' = [done EXCEPT ![i] = FALSE] /\ failure' = [failure EXCEPT ![i] = FALSE]
    /\ Goto(i, "abandon")
    /\ UNCHANGED <<lanes, callers, batch, emitted, begun, collected, window, native, ends>>

\* The window is run to its end, whatever it raises.
AbandonAdvances(l) ==
  \E i \in Windowed :
    /\ Running(l, "close") /\ Top(l).job.stage = i
    /\ pos[i] = "abandon" /\ ~Complete(i) /\ ~broken[i] /\ ~WouldBlock(i)
    /\ IF future[i] /\ bad[i] THEN Breaks(i) /\ UNCHANGED <<step, jobs, bad>>
       ELSE Dispatch(i) /\ UNCHANGED broken
    /\ UNCHANGED <<lanes, callers, iter, wave, ends>>

\* The dispatch pipeline is closed once its worker has nothing left.
Closable(i) ==
  /\ handle[i] = 0 /\ (pos[i] = "abandon" => Complete(i) \/ broken[i])
  /\ jobs[i] = 0

CloseEnds(l) ==
  /\ Running(l, "close")
  /\ Top(l).job.stage \in Windowed => Closable(Top(l).job.stage)
  /\ Leave(l)
  /\ main' = IF main[2] > 1 THEN <<"close", main[2] - 1>> ELSE <<"shutdown", 0>>
  /\ UNCHANGED <<items, stopped, callers, iter, wave, window, native, waits, waiter, cancelled>>

\* Faulty variant: the executor is shut down without waiting.
ShutdownAtOnce ==
  /\ main[1] = "shutdown"
  /\ main' = <<"stop", 0>>
  /\ UNCHANGED <<lanes, callers, iter, wave, window, native, waits, waiter, cancelled>>

\* The completion threads are waited for before the lanes are stopped.
Shutdown ==
  /\ main[1] = "shutdown" /\ \A i \in Windowed : waiter[i] = Idle
  /\ main' = <<"stop", 0>>
  /\ UNCHANGED <<lanes, callers, iter, wave, window, native, waits, waiter, cancelled>>

StopLane(l) ==
  /\ main[1] = "stop" /\ l \notin stopped
  /\ \A m \in Lane : \A n \in DOMAIN items[m] : items[m][n].job.kind # "stop"
  /\ items' = Submitted(l, JobOf("stop", 0, 0), Ripe(l) = DOMAIN items[l])
  /\ UNCHANGED <<stack, stopped, permits, callers, iter, wave, window, native, ends>>

Ended ==
  /\ main[1] = "stop" /\ stopped = Lane
  /\ UNCHANGED vars

-----------------------------------------------------------------------------
Init ==
  /\ items = [l \in Lane |-> <<>>] /\ stack = [l \in Lane |-> <<>>] /\ stopped = {}
  /\ permits = Permits
  /\ caller = [i \in Stage |-> "idle"] /\ count = [i \in Stage |-> 0]
  /\ pos = [i \in Windowed |-> "feed"]
  /\ batch = [i \in Windowed |-> <<>>] /\ emitted = [i \in Windowed |-> <<>>]
  /\ begun = [i \in Windowed |-> 0] /\ handle = [i \in Windowed |-> 0]
  /\ done = [i \in Windowed |-> FALSE] /\ failure = [i \in Windowed |-> FALSE]
  /\ collected = [i \in Windowed |-> 0]
  /\ step = [i \in Windowed |-> 0] /\ broken = [i \in Windowed |-> FALSE]
  /\ future = [i \in Windowed |-> FALSE] /\ jobs = [i \in Windowed |-> 0]
  /\ bad = [i \in Windowed |-> FALSE]
  /\ waits \in SUBSET Windowed
  /\ waiter = [i \in Windowed |-> Idle]
  /\ cancelled = FALSE /\ main = <<"join", 0>>

LaneStep(l) ==
  \/ Take(l) \/ LaneEnds(l) \/ AcquirePermit(l) \/ WaitOver(l)
  \/ PlainCall(l) \/ Iterates(l) \/ Progress(l)
  \/ Abandon(l) \/ AbandonAdvances(l) \/ CloseEnds(l)
StageStep(i) == Calling(i) \/ GivesUp(i)
NativeStep(i) == WorkerFinishes(i)
WaiterStep(i) == WaitStarts(i) \/ WaitEnds(i)
MainStep == MainJoins \/ MainCloses \/ Shutdown \/ \E l \in Lane : StopLane(l)

Next ==
  \/ \E l \in Lane : LaneStep(l) \/ Ripen(l) \/ Polls(l)
  \/ \E i \in Stage : StageStep(i)
  \/ \E i \in Windowed : NativeStep(i) \/ WaiterStep(i)
  \/ MainStep \/ Cancel \/ Ended

Spec == Init /\ [][Next]_vars

\* Every thread goes on; the clock advances; a dispatch finishes.
FairSpec ==
  /\ Spec
  /\ \A l \in Lane : WF_vars(LaneStep(l)) /\ WF_vars(Ripen(l))
  /\ \A i \in Stage : WF_vars(StageStep(i))
  /\ \A i \in Windowed : WF_vars(NativeStep(i)) /\ WF_vars(WaiterStep(i))
  /\ WF_vars(MainStep)

-----------------------------------------------------------------------------
\* Output n of a stage: its window and its place in the window.
Output(n) == <<((n - 1) \div (Dispatches + 1)) + 1, ((n - 1) % (Dispatches + 1)) + 1>>

\* A windowed stage yields every output of every window once, in order, however
\* its progress is cut into callbacks, waits and nested turns, and all of them
\* when it comes to its end without a failure.
OutputsInOrder ==
  \A i \in Windowed :
    /\ \A n \in DOMAIN emitted[i] : emitted[i][n] = Output(n)
    /\ caller[i] = "done" /\ ~cancelled => Len(emitted[i]) = Windows * (Dispatches + 1)

\* The buffers of a dispatch are not touched while it runs, and no two threads
\* join it: the window's generator goes on only when no dispatch is unfinished
\* and nobody waits for one.  (abandon() is the exception.)
SettledBeforeStep ==
  [][\A i \in Windowed : step'[i] > step[i] /\ pos[i] # "abandon" =>
        jobs[i] = 0 /\ waiter[i][1] # "joining"]_vars

\* The permits of r held on a lane: which callback holds which.
HeldOn(l, r) ==
  UNION {{<<l, k, n>> : n \in Taken(stack[l][k], r)} : k \in DOMAIN stack[l]}

\* Permits are held by callbacks that are under way, and by nothing else: none
\* is lost when a callback raises, waits or is cancelled.
PermitsAccounted ==
  \A r \in Resource :
    permits[r] + Cardinality(UNION {HeldOn(l, r) : l \in Lane}) = Permits[r]

\* "Deadlock-free weighted permits" (_ResourceArbiter): a lane never waits for a
\* permit that only its own suspended callbacks hold.
PermitsDeadlockFree ==
  \A l \in Lane : stack[l] # <<>> /\ Top(l).at = "permits" =>
    LET r == Claim(Top(l).job)[Top(l).got + 1]
    IN  Cardinality(HeldOn(l, r)) < Permits[r]

\* When the last lane has ended nothing is left: no callback or progress in a
\* queue, no dispatch on a worker, no wait for one.
QuietAtEnd ==
  stopped = Lane =>
    /\ \A l \in Lane : items[l] = <<>> /\ stack[l] = <<>>
    /\ \A i \in Windowed : jobs[i] = 0 /\ waiter[i] = Idle

\* Every call is answered, whatever is suspended above or below it, and the
\* lanes come to their end.
LanesTerminate == <>(stopped = Lane)
=============================================================================
