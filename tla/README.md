# KinoVSR, modelled and checked

KinoVSR runs video frames through a chain of processors (super-resolution,
denoising, frame-rate conversion, ...) and hands the result to a host iterator
or writes a movie. The image arithmetic is in native frameworks and neural
networks; what is left, and what this directory is about, is the machinery that
moves frames: threads, bounded channels, leases on native buffers, boundaries
between shots, cancellation, and the files a run leaves behind.

All paths are relative to `src/kinovsr/` unless they say otherwise.

## 1. Inventory

### The streaming graph (`pipeline/streaming.py`, `channels.py`, `leases.py`)

*State.* One `BoundedChannel` per edge and one "pending" channel per operation
(a deque, a unit and a byte bound, a closed flag); one thread for the source,
one per operation, one publisher per operation, one sink thread for a terminal
consumer; the supervisor (first failure, cancel flag, the channels it closes);
reference counts of `PayloadLease`; an output-slot semaphore per operation that
declares slots; boundaries waiting for the next output of each stage; the leases
the host iterator keeps.

*Operations.* `_source_worker`, `_stage_worker` (flush at a boundary, wait for
the tail, reset, process, publish), `_publisher_worker`, `_sink_worker`,
`__next__`, `wait`, `close`, `_Supervisor.fail`/`cancel`, `_finish_graph`,
`_close_all`.

*Interaction.* Channels between neighbours; the supervisor's flag and its
closing of channels; a lease's release callback that returns a slot to an
operation upstream of the releasing thread; processors are only called on
affinity lanes, under claims of the resource arbiter.

*Hard behaviour.* `fail` and `cancel` raise the flag and then close one channel
at a time, while every actor may have an envelope in its hands; a stage waits at
a boundary for leases that others hold; the host learns of a failure from the
flag only at the end of the stream; slots run out downstream of who needs them.

*Correct means.* Units arrive once and in order, boundaries ride on the right
unit, no processor mixes two shots, every lease is released exactly once per
handle, nothing runs when processors are closed, failures are reported, and the
run comes to an end.

### Affinity lanes and the resource arbiter (`pipeline/streaming.py`)

A lane is a thread with a heap of work items ordered by readiness, priority and
submission; `run_until` runs other items of the lane from inside one. The
arbiter hands out weighted permits of GPU, ANE, media engine, ... one permit at
a time in a fixed order. *Hard:* nested turns keep the claims of the outer one;
permits taken one at a time. *Correct means:* every call is answered, no item is
lost at stop, no permit is lost, no two claimants wait for each other.

### Output transaction and artifact reservation (`pipeline/run.py`, `media/filesystem.py`)

`_ArtifactReservation` locks artifacts exclusively and their ancestors shared,
in the process and with lock files; `_OutputTransaction` reserves a temporary
name, backs the old target up, renames, removes the backup, and rolls back.
*Hard:* failure or interrupt between any two renames; a rollback that is itself
interrupted. *Correct means:* at every instant the user's old file or the
complete new one exists, and a failed run restores the old one.

### File run (`pipeline/run.py`)

`FileSource`, `FileSink`, `_FileTerminalConsumer` (holds one unit back to learn
its duration, logs cuts, stops at a limit), `_ComparisonTee` (retains source
frames until an output pairs with them, up to a bound that the graph computes),
`run_file`. *Hard:* the last unit; early stop; frames before the start that are
only context; a bound computed from buffers for a latency that processors
decide. *Correct means:* every unit written once with its duration, finish after
the last one, the retained frames stay bounded.

### Frame-rate conform (`processors/conform/__init__.py`)

Holds one frame and fills the slots of a constant grid nearest to it; the worker
flushes it at a cut, and the grid goes on counting in the next shot. *Hard:* the
first slot, ties, the last frame of a shot and of the stream, a gap before a
cut, a jump of the clock. *Correct means:* no hole, no overlap, each slot shows
the nearest frame of its shot, the ledger adds up.

### Timestamps of joined recordings (`media/timing.py`, `media/video_reader.py`, `media/ffmpeg_reader.py`)

`EpochUnwrapper` turns a file whose clock jumps back into one rising clock. It
runs twice over a file, in the order of packets for the table of samples and in
the order of display for the pictures. *Hard:* a single damaged stamp is no
join; pauses must not become the interval at a join; the two walks must agree.
*Correct means:* one rising clock that keeps the pace, and every picture finds
its own sample.

### Movie writer (`native/writer.py`)

`AVWriter`: native mutations serialised by a lock, an audio callback on a
dispatch queue, `finish`, `cancel` with a worker thread. *Hard:* `cancelWriting`
must not overlap a mutation; the audio track closes once; ready-polling times
out. *Correct means:* no mutation after cancel, first failure wins, every
`finish` returns.

### Core Image cache janitor (`media/pixel_buffers.py`)

Renders, owners and a clear that must run alone. *Hard:* owners and renders come
while a clear is pending. *Correct means:* never a clear during a render; a
dirty cache is cleared when the last owner is gone.

### Windows (`modeling/window_buffer.py`, `processors/feed_driver.py`, `native/dispatch.py`)

`WindowBuffer` makes sliding or group-of-pictures windows; `WindowWavefront` and
`FeedFlushProcessor` complete them asynchronously on the owner lane;
`DispatchPipeline` bounds submissions. *Hard:* the first and the last group,
results out of order, flush while futures are pending. *Correct means:* each
frame emitted once, in order, at its own place in a window, and no buffer of a
dispatch touched while it runs.

### The streaming denoiser's rings (`processors/bsvd/mps.py`, `schedule.py`, `net.py`)

The accelerator graph always computes; a boolean mirror of the network decides
what is gated, pushed and popped, with one dispatch in flight and bindings that
are reused. *Hard:* a binding given back a step too early or left from the
stream before; the fill and the flush. *Correct means:* step n gives frame
n - 17, as the reference network computes it, and nothing else.

### Session, builder, scheduler, fused operations (`pipeline/session.py`, `builder.py`, `scheduler.py`, `execution.py`, `ownership.py`)

A session processes once, closes every stage once and in reverse, and delivers
one exception from which every other one can be reached. `_FusedProcessor`
chains processors in one operation. *Hard:* closing a suspended iterator;
failure while building; failures of the cleanup of a failure.

### Vision flow services (`modeling/vision_flow_services.py`)

A bounded cache of engines, one per geometry, borrowed by callers and built
outside the lock. *Hard:* concurrent builders; eviction of a borrowed engine.

### Everything else

Model families, conditioning processors, readers and decoders, colour and
timing arithmetic, native bindings, weight loading, configuration, command line,
reporting, analysis and evaluation tools: sequential code, numeric code, or
wrappers over frameworks that are not in the repository. PROJECT.json lists
each with the reason it is not modelled.


## 2. Plan

The order is: what every run goes through first, then what a run leaves on
disk, then the services the graph relies on, then the components that only some
pipelines use.

| step | modules | composes | state |
|------|---------|----------|-------|
| 1 | `StreamContract`, `StreamGraph`, `StreamGraphProps`, `CaptureBound` | the graph implements the contract; the tee extends the graph | done |
| 1 | `StreamGraphProofs`, `StreamGraphLeases`, `StreamGraphOrder`, `StreamGraphDelivery` | theorems on the graph, each on the one before | done |
| 2 | `OutputTransaction`, `OutputTransactionProofs` | stands alone: one thread and a disk | done |
| 2 | `ArtifactReservation` | runs of several processes over a tree of paths | done |
| 3 | `OwnerLane`, `OwnerLaneProofs` | lanes, permits, accelerator windows and their dispatch pipeline: callbacks that wait by running others | done |
| 4 | `MovieWriter`, `MovieWriterProofs` | appender, finishers, audio pump, cancel, native writer | done |
| 4 | `CacheJanitor`, `FlowServices` | renders, owners, clears; borrowers of shared services | done |
| 5 | `WindowBuffer`, `EpochUnwrapper`, `SkipRings` | algorithms with state, against what each promises | done |
| 5 | `FileEndpoint` | the conform stage, the worker that flushes it, the terminal consumer | done |
| 5 | `SessionCleanup` | builder, session, scheduler and graph cleanup, when anything raises | done |
| 6 | `PartsProofs` | theorems on the reservation, the janitor, the window buffer, the flow services, the end of a file run and joined recordings | done |
| 7 | more theorems | see below | open |

Abstract specifications worth stating: what a run promises its consumer
(`StreamContract`, done); an artifact set that is replaced in one step, which
the transaction implements as long as nothing disturbs a rollback; a read/write
lock per path, which the reservation implements; one clear or many renders for
the janitor.

Still open is the transaction as an implementation of a set of artifacts that is
replaced in one step; `SetIsWhole` and `OriginalSurvives` already say what it would
promise after the with block and at every step before. Of the graph itself only
liveness is left, which a proof cannot reach.

## 3. The modules and the code

### `StreamGraph`

One variable per piece of state of the graph, one step per stretch of a thread
between two points where another thread can see or change what it depends on.
`pc[t]` is where thread `t` is; a thread is the source actor, a stage worker, a
publisher (`Courier`), the sink actor, or the calling thread (`Main`) in
`__next__`, `wait`, `close` or `_finish_graph`.

| in the module | in the code |
|---|---|
| `chan`, `closed` | the deque and the closed flag of each `BoundedChannel`; edges 0..N first, then the pending channel of each operation, in the order they are registered with the supervisor |
| `cancelled`, `failed`, `closing` | the supervisor's event and failure, and how far a call of `fail()` or `cancel()` has got in closing the channels |
| `cur`, `out` | the envelope in a thread's local variable, the one it is putting |
| `window`, `iter`, `kind` | what a processor holds back; what the iterator it returned still yields; whether that came from `process`, a boundary flush or the last flush |
| `marks`, `started`, `epoch` | `pending_boundaries`, `processed`, and the shot a processor was last reset for |
| `drained` | the leases `_wait_boundary_outputs` waits for |
| `refs`, `free` | handles on each `PayloadLease`, free slots of each output-slot semaphore |
| `terminal` | the iterator's retained leases, or the sink's held envelope |
| `delivered`, `finished`, `outcome` | history: what the consumer got, how `finish()` was reached, what the run reported |

A processor is the pair `Delay[i]`, `Drops[i]`: it holds `Delay[i]` units back
and swallows some. This is what the graph can tell apart: a callback returns
units, in order, now or later. `Alias` holds the processors that yield the very
payload they were given, because the graph then keeps the lease of the source.
A unit is its place in the source stream; a boundary is named after the unit it
arrives on. The byte bound of a channel is left out.

`fail()` and `cancel()` are several steps on purpose: the flag, then one channel
at a time. `StagePolls` is the time-out of the two polls; it changes nothing.
A stage that makes outputs looks at the flag (`StageTurn`), and then takes a slot
and the next output of its iterator (`StageEmit`): what it takes then it takes
although the flag may be up by now. `Release` counts down and returns the slot in
one step. In the code the slot comes back after the lock of the lease is left, but
nothing can tell: only an operation without slots looks at the counts of its
leases, and to one with slots a slot that is not back yet is a release not yet
done. What may raise is each callback of a processor, `next()` and `close()` of
the source, `consume()` and `finish()` of a consumer, `prepare()` at the start,
and, in the calling thread, the readiness of a unit and its copy for the host
(`HostUnitFails`, which gives the envelope back before it reports), and an
interrupt of `get()` (`HostInterrupted`).

### `StreamContract` and the refinement

The contract has two variables: what was delivered, and whether the run is open,
ended or stopped. `KeepsContract` instantiates it with the units no processor
swallows and the source's boundaries; the status is computed from the outcome
and from how the consumer was finished. Every step of the graph is one of the
contract's (the next unit is delivered, the run ends, the run stops) or leaves
what the contract sees alone; the theorem `ContractKept` shows it step by step.

### `CaptureBound`

Extends the graph by the comparison tee: the frames retained are those from the
one paired with the last output to the last one admitted, so no variable is
added. `CaptureLimit` is the sum the constructor of the graph computes; a sum is
written as the number of places it counts (`Total`), which a proof can reason
about; `Native[i]` is the number of native buffers that operation `i` declares.
The first `Context` frames lie before the start of the run: their outputs are
dropped before anything is paired with them.

### `OutputTransaction`

One thread and a disk. `disk[a][p]` is what is at the final, temporary or backup
name of artifact `a`: nothing, the user's file, the run's artifact, or another
program's file. `phase` and `k` say which loop of `commit`, `_rollback` or
`__exit__` is at which entry. One step is one call of the file system with the
bookkeeping after it. A call may fail without effect, or take effect and be
interrupted before the bookkeeping, and an interrupt may come between two
entries (site `between`): it is caught by `commit`, or, inside a rollback,
leaves it where it is. `discarding` tells the rollback of `commit` from the
second one that `__exit__` runs through `discard()`. A killed process needs no
step: it leaves the disk of whatever state it is killed in, so a property that
must survive it is an invariant of every state. A frame directory is an artifact
that `Path.replace` cannot overwrite; a video sink is one whose frames are
never deleted. `Intrude` is another program creating a file at a free final
name, at any moment.

### `OwnerLane`

A lane is its queue (`items`, in order of submission; `_before_item` orders them
by readiness, priority and submission) and a stack of callbacks: `run_until`
pushes the next callback on top of the one that waits. A callback takes its
permits one after another (`Claims`) and returns them when it ends; it keeps
them while it waits in a nested turn. A stage in `Windowed` runs its input
through an accelerator window: `submit`, `available`, `drain`, the progress
callbacks that join the last dispatch and make the next, the completion thread
that waits for a dispatch outside the lane, and `abandon` when the stage is
closed. The worker of the dispatch pipeline finishes a dispatch or, for stages
in `MayFail`, makes its future raise. The other stages only call their lane.
`MainStep` is the calling thread: it joins the stages, closes the windows, shuts
the completion threads down and stops the lanes. Time is reduced to "not ready
yet" and `Ripen`. There is a stage at least (`LaneConstants`): the sink.

### `MovieWriter`

Five threads: `app` builds the writer, appends and finishes; `other` finishes as
well; `host` cancels; `pump` is the audio callback on its serial queue; `worker`
is the coordinator that a cancel starts. One step is one hold of `_state_lock`
or one event of the native side. `inside` are the threads between the admission
and the retirement of a native mutation, which is what the coordinator waits
for. `writer` is AVFoundation's own status, external: it may complete once
asked, and fail at any time; `marked` are the inputs marked as finished. `kept`
says that the file exists under its own name, `second` counts the names beside
it, and `link` what became of the attempt to give it one: none was needed, it was
given, or the file system refused it. `LinkBeforeCancel`, `CancelWriting` (which
removes the file under its own name, or raises) and `RestoreAfterCancel` (which
may fail and leave the second name) are steps of their own. Time-outs are steps that are
possible whenever the wait they end is not over. A track has a chunk at least
(`WriterConstants`): the readers return no reader for a track without samples
(media/audio.py:425-434), so the pump always has something to read first.

### `CacheJanitor`, `FlowServices`, `ArtifactReservation`

`CacheJanitor` has one step per hold of the condition; a thread that waits is in
`asleep` until a `notify_all`, so a lost wake-up is a thread that sleeps without
reason. A clear may fail, and `backoff` delays the next one. `owed` remembers
what had been rendered when a clear was asked for.

`FlowServices` has the two locked blocks of `borrow`, with the eviction and the
making of a service between them, the end of a lease, and `close`. Services are
numbered, so that one that is closed twice or never is told apart.

`ArtifactReservation` has the table and the holder counts of each process, and
the kernel's locks as triples of process, path and mode (`LOCK_EX` for the
artifacts, `LOCK_SH` for the directories above them); as in POSIX they belong to
the process, which is why the counts exist. `taken[r]` is the set of locks the
run has so far; the order in which it takes them is that of `_requests`. A run locks its paths one step at
a time under the guard of its process, may be refused at any of them, and its
process may die at any point.

### `WindowBuffer`, `EpochUnwrapper`, `SkipRings`

`WindowBuffer` holds positions where the code holds frames; `last` is the window
that was run last, with what it emits. `Buffers` are settings of both modes.

`EpochUnwrapper` runs the unwrapper twice over the files of `Sources`; `keys` is
the table and `shown` the decoder's clock. A file is two recordings with a pace,
a number of B-frames, perhaps a pause and a damaged stamp. `Recording` says of
which files the unwrapper can know what it claims to know: the first two pictures
tell the pace, a pause is longer than any pace, at most one stamp is damaged, it jumps
back by more than the threshold and another of its recording follows (directly
before a join no reader can tell the two apart), and what is joined has two
pictures and begins further back than the threshold. A damaged stamp that jumps
forward as far is left out: `push()` takes it for the clock, and the true stamps
after it commit a reset that the file does not have (section 6).
`EpochConstants` assumes `Recording` of every file.

`SkipRings` follows a step of the denoiser: the mirror, the feeds (two buffers,
by parity), the bindings popped, the join of the dispatch in flight, the bindings
pushed, the new dispatch, whose worker runs at any later moment. A tensor is the
number of the frame whose value it rightly holds, zeros, or `Junk`; a unit gives
`Junk` unless it sees the very neighbours that the reference network would.

### `FileEndpoint`

The conform stage as its worker drives it (`process`, flush and reset at a cut,
the last flush), a queue, and the terminal consumer with its held-back frame,
context frames, cut log, limit and, in a chain that preserves the duration
(`preserve`), clamped end. Time is in ticks; the length of a
slot in half ticks, so that rounding and ties occur, and midpoints are compared
in quarter ticks. `EndpointConstants` is what the reader hands over: frames that
do not overlap, a first frame at or before the start of the run and a last one at
or after it (time is counted from the first frame wanted), and no cut on the very
first frame, from which nothing could be cut off.

### `SessionCleanup`

A failure is its place in the order of events; `context` is the exception's
`__context__`, set as Python sets it when something is raised inside a handler,
and rewritten as `_append_context` does. The steps are the build of each stage
with its rollback, the construction of the graph, the open run and its ways to
end (`entry`), the closing of the run's handle, the join, the closing of each
owner, and the delivery of one exception to the caller.

### `MCParts` and the other MC modules

`MCStreamGraph`, `MCTransaction`, `MCLane`, `MCEndpoint` and `MCEpoch` give
instances their functions and sets. `MCParts` checks the components that do not
interact in one run: a behaviour chooses its `part` in the initial state, takes
only steps of that part, and leaves the variables of the others alone, so every
part is explored in full and no product of parts is. The part `foreign` is a
second transaction, without overwrite, with an intruder at two destinations.

## 4. The runs

| run | what it asks | states |
|-----|--------------|--------|
| `graph_run` | two operations over sixteen units with a boundary at the ninth and three frames of context; the first yields the payload it was given, the second holds a unit back, swallows the unit of the boundary and has two output slots; a host that iterates, or a consumer that keeps the previous payload: types, shot isolation, the contract, the bound of the tee, completeness at `finish()`, termination | 640 thousand |
| `graph_stop` | two units, the second one a boundary, through an operation that holds one back and has two slots; a host, or a consumer that may stop after any unit; the source, the stage, the consumer and the calling thread may each fail at any of their callbacks, and the run may be closed at any point: leases and slots, outcome, quiescence, termination | 1.6 million |
| `lanes` | a windowed and an ordinary stage on one lane, a native one on another; a dispatch may fail, the run may be cancelled at any time | 466 thousand |
| `writer` | one frame, two chunks of audio, one cancel by the host, a native writer that may fail at any time, a file system that may refuse the second name of the file | 1.6 million |
| `parts` | ten parts, one per behaviour (section 3) | 985 thousand |
| `boundary_deadlock`, `capture_preroll`, `txn_original_lost`, `txn_video_lost`, `nested_permits`, `epoch_reorder`, `nearest_frame` | the findings of section 7 | |

*Why the bounds are enough.* In `graph_run` two operations are the least number at
which a stage has both a predecessor and a successor stage, a boundary passes one
processor before another delays it, and slots of one operation are kept by leases
downstream of it. Channels hold one message, the least there is, so that the graph
is full from the consumer to the source within a few units. The stream is longer
than the bound of the tee (fifteen frames), and its context is the greatest that
the theorem `CaptureIsBounded` allows for these operations. A boundary in the
middle and the one at the start are both present; a second one in the middle
repeats the same steps. Nothing fails there: that is `graph_stop`, where one
operation, which has the source before it and the consumer behind it, meets every
failure, stop and close at every point, with a slot pool and with a boundary whose
tail holds a slot while the next output needs one. Two slots are what the code
declares (`processors/videotoolbox/__init__.py:527`); with one slot and a consumer
that keeps the previous payload the graph would stop for good.

In `lanes` two windows of two dispatches make one window begin while the outputs
of the one before are still waiting, and two inputs end one iterator inside a
window; the ordinary stage on the same lane is what nested turns run, and two
permits of each resource are one more than a callback needs. In `writer` one
frame is a file worth keeping and none is one that is not, both of which occur
because a cancel may come first; two chunks let the pump be called again, stop
half-way or complete; each failure of the native writer sends the code through
`cancel()` a second time.

In `parts`: the transactions have one artifact of each kind, and three
disturbances reach a fault in `commit`, one in its rollback and one in the
second rollback. Three renderers, a period of two renders and four renders give
a clear that is due, one that is asked for and one that fails, with a third
thread in the way. Three borrowers of two geometries with room for one give
eviction, a service made twice, and a bound that is exceeded. Four runs of two
processes have siblings with a shared ancestor, that ancestor as an artifact,
and one path wanted by both processes. Nine frames go through two full windows
and a rest for windows of up to five. The films of the file endpoint are four
frames of one or three ticks with gaps and any set of cuts, over slots shorter
than, as long as, and longer than a frame. The streams of the rings are shorter
and longer than the delay of seventeen steps, and a second stream follows each.
Four failures are one more than the deepest chain of handlers.

*Deadlock* is checked in every run but three: a finished run has a step that
changes nothing (`Finished`, `Closed`, `Ended`, `Rests`), and a state from which
nothing else is possible is an error. `parts`, `epoch_reorder` and `nearest_frame`
hold sequential components that come to the end of their input and stop, so there
the check is off; that no thread of the janitor waits for ever is
`SleepsForReason`.

*Fairness.* The threads are those of the operating system, all started before the
first step, and none waits in a way that a scheduler could starve (conditions are
notified with `notify_all`, polls time out). `StreamGraph` assumes less than that:
one weak fairness of all its threads together, so that some thread that can go on
does. It is enough because a thread that can go on is never stopped by another
one, and it includes that a host keeps pulling and leaves the iterator, and that a
callback returns. `OwnerLane` and `MovieWriter` assume weak fairness of each
actor. No fairness is assumed of closing or of the host giving up, and none of a
failure where anything else can happen. Strong fairness is needed nowhere: a
channel has one reader and one writer, a slot one taker, and a finisher that waits
for the pump's lock has told the pump to stop first, so that the callbacks which
still come no longer hold it. In `OwnerLane` weak fairness of the worker says
that a dispatch ends, and of `Ripen` that time passes. The native writer is not
assumed to complete: the deadline of `finish` is what ends the wait. The parts
of `MCParts` have no liveness property.

## 5. What is proved

TLC checks each property on the instances of section 4; the theorems below hold
for every value of the constants, under the assumption named in each module and
nothing else. An assumption says what the code guarantees of a setting before
the component runs: `GraphConstants`, `TransactionConstants`,
`ReservationConstants`, `LaneConstants`, `WriterConstants`, `JanitorConstants`,
`WindowConstants`, `FlowConstants`, `EndpointConstants`, `EpochConstants`, and
`ContextIsPrefix` for the tee. Where a theorem needs more, its entry below says
what and why. Sets of
threads, runs, paths and geometries are not assumed to be finite. Where a
component has parts of `MCParts` beside it its specification alone is
`JanitorSpec`, `ReservationSpec`, `WindowSpec`, `FlowSpec` or `EndpointSpec`, and
`EpochSpec` is that of the unwrapper; for safety, steps of the other parts are
stutters.

**The graph** (`StreamGraphProofs`, `StreamGraphLeases`, `StreamGraphOrder`,
`StreamGraphDelivery`). Its inductive invariant `GraphInv` has five parts, and
each module adds some: `TypeInv` and `OutcomeInv`, `CountInv`, then `OrderInv`
with `QuietInv`; the last module draws the conclusions. The numbers of
operations, units and slots, the delays, what is swallowed, where the boundaries
lie and which actors may fail are arbitrary throughout.

*`TypeCorrect`: `Spec => []TypeOK`*. Types and channel bounds are not inductive
alone: that a publisher puts a message and not nothing depends on where it is.
`TypeInv` adds `Labels` (which labels each kind of thread visits) and `InHand`
(what a thread holds where it uses it). One lemma per kind of thread, one step
per action.

*`FailureIsReported`: `Spec => []SuccessMeansNoFailure`*. The code reads the
failure once, when the end of the stream arrives, so the theorem needs that
nobody can fail afterwards. `OutcomeInv` follows EOS: whoever has it, in a
channel (`EosQueued`) or in hand (`EosHeld`), has only actors before it that run
no callback any more. `SinkEnd` says why a sink that is through without EOS was
stopped by a failure or by its consumer, `Phases` that channels close only after
the flag, and `Settled` is the claim with what keeps it true.

*`LeasesAreAccounted`: `Spec => []LeasesAccounted`*. A handle is in a channel, in
a hand, in an output that waits to be put, or with the consumer. `CountInv` says
that the count of every lease is the sum of the sizes of these four sets, which
is the form that one step can be followed in: it takes an element from one set,
puts it into another, or does one of both together with `Release` or
`AddHandle`. That the four never overlap gives the property. The second half,
the slots, is an invariant of its own, `SlotInv`: a slot is free or belongs to a
unit whose lease is alive. It needs that no unit is emitted twice, which is a fact
about the order of units and so comes after `OrderInv`.

*`ClosedIsQuiet`: `Spec => []QuietWhenClosed`*. From the counts: in `closed` all
threads have ended (`QuietInv`), nothing is in a hand, and the channels and the
consumer's leases have been drained (`EmptyAtEnd`), so every sum is empty.

*`ContractKept`: `Spec => KeepsContract`* and *`ShotsStayApart`: `Spec =>
[]ShotsDoNotMix`*. Both rest on `OrderInv`: as long as the graph is not drained,
there is a mark at every place that a unit passes (`made`: what a stage emitted
last; `pend`: what it put into its pending channel; `took`: what its publisher
took out; `sent`: what was put into the edge; `got`: what the next actor took
from there), and what is between two marks is what lies there. `Follows` says what
may come next after a mark: the next unit that is not swallowed on the way, with
exactly the boundaries between the two. `Chain` is a channel of such messages,
`Hand` an actor between taking and putting, `InOrder` and `InShot` a processor:
what it holds and still yields is what lies between its two marks, belongs to the
shot it was reset to, and while it turns to the next shot the unit in hand stays
outside. The marks are not variables of the model; they are quantified in the
invariant, and each step is proved by naming the new ones. As long as nothing is
cancelled the line has no gap, and EOS comes after everything (`Over`), which is
what makes a run that reports its end complete. A cancelled graph may lose
units, but only behind those it has delivered: the order and the boundaries of
what arrives hold to the end, and so does the isolation of shots.

*`FinishIsWhole`: `Spec => []FinishIsComplete` if `MayCancel` is `FALSE`*, and
*`FinishFollowsStream`: `Spec => [](outcome # "cancelled" => FinishIsComplete)`*.
A failure raises the flag, and a flush it cuts short may be followed by EOS; the
claim is that this EOS never arrives. `BlameInv` says why a run is cancelled: it
was closed, the sink is already through, or some actor gave up and no EOS is past
it (`CutAt`), nor ever will be. `Prefix` says that the consumer has all that is
left of the stream up to the last unit it has seen. The run `graph_run` has
`MayCancel = FALSE`. Where a host may close the run the exception is needed: an
interrupt of `wait()` reaches `cancel()`, no actor has given up, and the EOS of
a stage whose last flush was cut short may reach the sink; TLC finds such a run
when `MayCancel` is set to `TRUE` for a consumer that does not stop early
(`streaming.py:1627-1638`, listed under the hazards).

*`CaptureIsBounded`: `Spec => []CaptureWithinLimit` if no operation swallows a
unit, there is an operation, and `Context + N <= Total(PendingCap) +
Total(Native) + 2`*. The tee
of `CaptureBound` refuses a frame beyond its bound, and this says that it never
has to. Where nothing is swallowed the marks of `OrderInv` are counts: between the
two ends of a channel lie as many units as it holds (`ChainLength`), and inside an
operation no more than its delay and one on its way out (`StageSpan`, from
`HoldInv`, which counts the window, what the iterator still yields, the unit being
put and the one not yet processed). Adding these along the line (`Telescope`)
gives `Room`: every window and every channel, one unit for each publisher, and one
at each end (`InFlight`; `EndsInv` keeps a unit from being lost behind an actor
that is through). That argument ends at a cancellation, after which units are
lost; `CaptureInv` carries the bound on, because a cancelled source takes one unit
more at most and a full first channel is not read again. The bound leaves out the
publishers' hands, counts the pending channels twice, once as the outputs an
operation may have pending, and counts the native buffers besides; as each pending
channel holds one at least, `N` is covered
(`SumsTyped`), and what is left over is all there is for the context, whose frames
are captured and never paired. The hypothesis holds for a run without context, or
with two frames of it, whatever the operations are; the run `graph_run` has
the greatest context it allows, and swallows one unit, which the theorem does not
cover; and `capture_preroll` shows that a long one breaks
the bound. An operation that swallows units is excluded because the tee then pairs
nothing while it swallows, however long that is.

**The output transaction** (`OutputTransactionProofs`).

*`TransactionTyped`: `Spec => []TypeOK`*, with the cursor of each pass: inside the
entries, or one past the end it runs to.

*`OriginalSurvives`, `SetIsWhole`, `VideoSurvives`: `Spec => []OriginalKept`,
`[]AllOrNone`, `[]VideoKept`, each if `"unpublish"` is not in `FaultSites`*.
`AllOrNone` is about runs in which one step at most was disturbed: it says nothing
of a run that is disturbed again in its rollback, which may leave a mixed set. The
invariant `Safe(a)` says, until the commit point: the user's file is at its
final or its backup name; it is displaced before anything is published over it;
a flag that says "this run's artifact is at the final name" is never set while
the user's file is there. The last part is what the hypothesis buys: with a
failing removal the flags stay set, and `txn_original_lost` is the run in which
the second rollback then removes the restored original, `txn_video_lost` the one
in which the original is restored over the finished video. `SetInv` says the same
of the whole set, disturbances included: `Whereabouts` (what the run wrote is at
its temporary name until it is published, and a name that holds it is known to
be published), `PassesDone` (what each finished pass has left) and `RolledBack`
(a rollback that nothing disturbs leaves every name as it was, and the second one
finishes what the first did not). The number of disturbances in a run is not
bounded.

*`ForeignersAreLeft`: `Spec => ForeignKept` without overwrite, if neither
`"unpublish"` nor `"between"` is in `FaultSites`* (the run checks it as
`ForeignersKept`). A flag that stays set after its artifact was taken back would
let the second rollback take a file that appeared meanwhile for the run's own;
`OwnOnly` says that the flags are set only while the run's artifact is there, and
clean once the pass over the published ones is over.

**The artifact reservation** (`PartsProofs`).

*`HoldersDisjoint`: `ReservationSpec => []ReservationsDisjoint`* and
*`RangesAreThoseOfRuns`: `ReservationSpec => []RangesFollowRuns`*. Two mechanisms
meet, and `ReservationInv` has both: within a process `TableFollowsRuns` and
`PeersDisjoint`, which is what the guard of the process checks, and between
processes `RangesMatch` (the kernel holds, in the mode each needs, exactly what
the living runs of a process have taken) with `KernelExcludes`, which the kernel
gives. `HoldersCounted`, a cardinality, is what makes a release drop the
range of the last holder only.

**Lanes and windows** (`OwnerLaneProofs`).

*`OutputsAreInOrder`: `Spec => []OutputsInOrder`*. `OutputsInv` counts for a
windowed stage: what it has yielded and what is in its batch are the outputs of
the windows before and the collected part of this one (`OutputsSoFar`),
`WindowAt` says which window that is at each position of the generator, and
that an abandoned or finished handle is never read again.

*`LanesEndQuiet`: `Spec => []QuietAtEnd`*, *`DispatchIsSettled`: `Spec =>
SettledBeforeStep`*. A lane runs callbacks inside callbacks, so the invariant is
about the queue and the stack of a lane together (`Placed`): of each kind a
stage has at most one job, in the queue or on the stack, and an abandoned one
never waits. `CallersInv` ties them to who submitted them and to where shutdown
stands, `WaveAt` ties progress jobs to the dispatch they wait for. Of
`SettledBeforeStep` the abandonment of a window is excepted. Removal from
the middle of a queue and of a stack is what most of the lemmas are about.

*`PermitsAreAccounted`: `Spec => []PermitsAccounted`*. The permits that a pool is
short of are in the hands of callbacks, which are anywhere on the stacks of the
lanes, each with a part of what it claims. `PermitsInv` counts the set of them
(`HeldIn`: a lane, a callback on its stack, a place in its claim) instead of
adding up numbers, so that each step is one of four lemmas: a callback begins and
has nothing, takes its next permit, leaves with all of them given back, or goes
on with what it has.

**The movie writer** (`MovieWriterProofs`).

*`CancelIsAlone`, `NothingAfterMark`, `ReadsBeforeClose`, `FinishReturnsComplete`,
`FramesKept`*, the five invariants of the run, and *`EndsStay`: `Spec =>
EndsAreFinal`*. One invariant, `WriterInv`, carries all of them: who is inside a
native call is registered (`MutationsMatch`) and who is between acquiring and
releasing has the lock (`LocksMatch`); a finisher past its claim owns the end of
the life (`Ownership`); `PumpMatches`, `VideoMatches`, `TrackMatches` and
`ClosingMatches` say what each label of a thread has behind it, and
`CancelMatches` why the coordinator cancels only when nobody is inside, and under
which name the frames are while it does. `FramesKept` excepts a file whose second
name the file system refused.

**The cache janitor** (`PartsProofs`).

*`ClearIsAlone`: `JanitorSpec => []ClearsAlone`*, *`WakeupsReachSleepers`:
`JanitorSpec => []SleepsForReason`*, *`RequestsAreCovered`: `JanitorSpec =>
ClearCovers`*. `JanitorInv`: `_active` is the cardinality of the threads that
render (`RendersCounted`), `_clearing` belongs to one thread and excludes renders
(`OneClears`), every render is cleared or dirty (`NothingForgotten`), and nobody
sleeps without reason, which is inductive with the others.

**The modelling helpers** (`PartsProofs`).

*`EveryFrameEmitted`: `WindowSpec => []EmitsAll`*, *`EveryWindowHasContext`:
`WindowSpec => WindowsHaveContext`*, for every window, trim, group length and
stream. `WindowInv` says where a buffer's base stands relative to the start of
the next window (`GopPlaces`, `FixedPlaces`, one for each mode), which bounds
what it keeps.

*`LeasesAreExclusive`: `FlowSpec => []LeasesExclusive`*, *`ServicesAreAccounted`:
`FlowSpec => []ServicesAccounted`*. `FlowInv`: a service that was made is in one
place (the cache, the list that `close` took, or in the hands of the thread that
publishes or evicts it) or it was closed once (`OnePlace`), and a leased service
is in the cache, marked, with one borrower (`LeasesMatch`).

**The end of a file run** (`PartsProofs`).

*`MovieFollowsTheSource`: `EndpointSpec => []MovieFollowsSource`*, for every film
that `EndpointConstants` allows (frames of a tick or more that do not overlap),
every slot of whole half ticks, every limit and number of slots that a frame may
fill, with and without the clamp of the last frame. A slot shows the nearest frame
of its own shot; the nearest of all frames is refuted by `nearest_frame`. What is on the way to the
movie is the concatenation of what is written, what the consumer holds back and
what waits in the queue, and `EndpointInv` is about it: the slots follow one
another (`InSlots`) and lie on the grid but for a clamped end (`OnGrid`); a slot
shows the first frame whose share of the time is not over (`AllInPlace`); every cut
that was met is logged, waits as a mark or goes with an output in the queue, in
order and ahead of the outputs of its shot (`CutsKept`, `CutsInOrder`,
`CutsAhead`); the first slot starts at zero
(`FromZero`), the ledger adds up (`LedgerAddsUp`), and a finished run ends where
the source does (`EndsWithSource`).

**Joined recordings** (`PartsProofs`).

*`JoinsKeepOneClock`: `EpochSpec => []JoinsAreSeamless`*, for every file that
`Recording` allows (section 3): of damaged stamps only one that jumps back. The
decoder's unwrapper
sees the stamps in the order of the pictures, so `EpochInv` can say what it
remembers after each of them (`TrimAt`): the stamp before, the offset that the
joins so far require, and intervals that are all of the pace but for one that a
damaged stamp may have doubled (`Steady`), from which the median is the pace
(`SteadyMedian`). After a stamp far back it waits for the next, which tells a join
from damage. One lemma per kind of stamp: the first, an ordinary one, one far back,
one that shows the last was damaged, one that confirms a join (`TrimFirst`,
`TrimOn`, `TrimJumps`, `TrimAbsorbs`, `TrimCommits`).

**Only model-checked**, and why:

* `ResultsInOrder`: it compares every unit's output with a reference network, to
  which the inputs of many steps before contribute;
* `CleanupIsComplete`: the walk along the chain of contexts is a RECURSIVE
  operator, and the prover has no SMT backend in a module that reaches one;
* `Terminates`, `LanesTerminate` and `WriterSettles`: liveness
  under fairness, and so out of the prover's reach.

## 6. What is not modelled

PROJECT.json lists every component with its status and the reason. In the
components that are modelled:

* graph: metrics and tracing, the byte bound of channels (it is the unit bound
  times the size of a frame, so it only bites for payloads larger than the frame
  they were declared with), and `PayloadLease.promote`, which the graph does not
  use;
* lanes: `_mlx_lock`, `LANE_STOP` taken in a nested turn, the cancellation of
  futures and the closing of generators, the unbound mode of a wavefront,
  `barrier()` and the fallback when a window is refused;
* graph: the close of an iterator that raises after a refused put, and an interrupt
  of `get()` after it has taken the message;
* writer: formats, metadata, colour attachments, and the search for a second name
  that is free (`LinkBeforeCancel` finds one or is refused);
* transaction: the choice of temporary names, the creation and removal of parent
  directories; of the reservation, the creation and replacement of the lock
  file (`_open_shared_lock` unlinks and opens again) and an interrupt between a
  kernel lock and its count;
* joined recordings: a damaged stamp that jumps forward by more than the threshold.
  `push()` commits a reset for the true stamps behind it (media/timing.py:224-233),
  although the comment at 188-190 says that one damaged stamp must not shift the
  clock for good; `Recording` excludes such a file;
* session: the view of a closed session, and the resolution of specs and layouts,
  which is a pure function.

Image arithmetic, colour, demuxing and decoding, native frameworks, the networks
of the model families, weight loading, configuration, reporting and the
analysis tools are not modelled: they are numeric code, input and output, or
wrappers of frameworks that are not in the repository. They are the larger part
of the lines of this repository.

## 7. Where code and documentation disagree

* `boundary_deadlock`. The host iterator keeps as many leases as the largest
  slot count of *any* operation. An operation without slots that waits at a
  boundary for the leases of its tail never gets them when another operation
  has two: `next(run)` does not return.
* `capture_preroll`. What the tee retains is said to be bounded by the latency of
  the chain. When a run starts inside a group of pictures, the frames of the
  context are captured and never paired, and enough of them exceed the bound.
* `txn_original_lost`. If the removal of a published artifact fails once, the
  rollback restores the user's file over it with the flags still set, and the
  second rollback removes the user's file.
* `txn_video_lost`. A video is said never to be deleted. If the rename that takes a
  published video back to its partial name fails once, the rollback restores the
  user's file over it, and the finished video is gone.
* `nested_permits`. The arbiter is said to be free of deadlocks. A lane whose
  suspended callbacks hold both permits of a resource runs a callback that wants
  one more, and waits for itself.
* `epoch_reorder`. The walks in packet order and in display order are said to
  compute identical mappings. The interval put at a join is a median of recent
  intervals, which differs between the orders as soon as pictures are reordered,
  and pictures of the second recording are matched with the samples of others.
* `nearest_frame`. Conform is said to give each slot the nearest source frame. At a
  cut the stage is flushed, and a slot in a gap behind the last frame of the shot
  goes to the first frame of the next one, however much nearer the last one is.
  `MovieFollowsSource` therefore asks for the nearest frame of the shot.

Behaviours that were met while modelling and have no property:

* A stage that is inside a boundary flush when the host closes goes on to reset
  its processor (streaming.py:1665-1680), while docs/API.md:58-61 says that
  closing resets nothing. What it emits then is refused.
* An interrupt of `wait()` may cut the last flush short, and the stage then still
  puts EOS, so a consumer may be told to finish a truncated stream. `run_file`
  discards the output of an interrupted run.
* The bound of the tee counts buffers and not the units an operation swallows; a
  chain that decimates for long exceeds it.
* A last frame without duration is not counted in the ledger of conform.
* An actor that fails after its consumer stopped the run early, when `wait()` has
  already read the failure, is not reported (streaming.py:1117).
* `abandon()` may step the generator of a window while its dispatch is unsettled
  (feed_driver.py:449), which `SettledBeforeStep` excepts.
* Concurrent builders leave more flow services than `max_geometries`. If closing a
  service that was not needed raises, the one in the cache stays borrowed for
  ever (vision_flow_services.py:102-114); `FlowServices` has that step, and no
  property denies it.
* A clear that keeps failing may starve the other threads of the janitor.
* The time-out of a second finisher cancels a first one that is draining its
  audio as it should.
* If the constructor of the graph fails, the processors already built are not
  closed: there is no run, and closing the session finds nothing to close
  (session.py:113-143). `CleanupIsComplete` excepts this entry.
* `_deliver_cleanup` with an ordinary error under way chains an interrupt raised
  by a join instead of delivering it, and goes on to close processors while
  threads may still run.
