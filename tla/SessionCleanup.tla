--------------------------- MODULE SessionCleanup ---------------------------
(***************************************************************************)
(* How a session builds its stages and gives them up (pipeline/builder.py, *)
(* session.py, scheduler.py, ownership.py, and the cleanup in              *)
(* streaming.py), when any call on the way may raise an error or an        *)
(* interrupt.  A failure is its place in the order of events; it has the   *)
(* __context__ that Python or the code gave it.                            *)
(***************************************************************************)
EXTENDS Integers, SequencesExt

CONSTANTS
  Plan,       \* the stages of the chain, in order
  PostOf,     \* the stages whose build also makes the post half at the end: [pre -> post]
  MaxFailures

Posts == {PostOf[s] : s \in DOMAIN PostOf}

ASSUME CleanupConstants ==
  /\ IsInjective(Plan) /\ DOMAIN PostOf \cup Posts \subseteq ToSet(Plan)
  /\ MaxFailures \in Nat

VARIABLES
  spc,        \* "build", "rollback", "construct", "hook", "open", "stream", "finish",
              \* "close", "deliver", "lease", "over"
  entry,      \* who cleans up: "build", "construct", "hook", "next", "close", "copy", "with"
  built,      \* stages built and placed
  todo,       \* owners still to be closed
  closed,     \* owners whose close was called, in order
  current,    \* the failure that is delivered, or 0
  handled,    \* the exception being handled while the owners are closed, or 0
  errors, interrupts,   \* what closing them raised
  streamError, \* what closing the handle of the run raised, or 0
  graphError, \* what joining the threads raised, or 0
  fails,      \* every failure: "error" or "interrupt"
  place,      \* where it was raised
  context,    \* its __context__, or 0
  raised      \* what the caller gets, or 0

causes    == <<errors, interrupts, streamError, graphError>>
chainVars == <<fails, place, context>>
cvars == <<spc, entry, built, todo, closed, current, handled, causes, chainVars, raised>>

Kinds == {"error", "interrupt"}

CleanupInit ==
  /\ spc = "build" /\ entry = "build" /\ built = <<>> /\ todo = <<>> /\ closed = <<>>
  /\ current = 0 /\ handled = 0 /\ errors = <<>> /\ interrupts = <<>>
  /\ streamError = 0 /\ graphError = 0
  /\ fails = <<>> /\ place = <<>> /\ context = <<>> /\ raised = 0

-----------------------------------------------------------------------------
\* A call raises: the failure gets the exception being handled as its context.
Fails(kind, where, under) ==
  /\ Len(fails) < MaxFailures
  /\ fails' = Append(fails, kind) /\ place' = Append(place, where)
  /\ context' = Append(context, under)

New == Len(fails) + 1

RECURSIVE Collect(_, _, _)
\* The exceptions in order, and those reached from one that are not in it yet.
Collect(ctx, ordered, n) ==
  IF n = 0 \/ Contains(ordered, n) THEN ordered ELSE Collect(ctx, Append(ordered, n), ctx[n])

\* Faulty variant: only what was outranked first is linked.
RelinkFirst(ctx, winner, losers) == [ctx EXCEPT ![winner] = Head(losers)]

\* _append_context(): the winner, its context, each loser and its context, in
\* one chain without cycles.
Relink(ctx, winner, losers) ==
  LET all == FoldLeft(LAMBDA seen, n : Collect(ctx, seen, n), <<>>, <<winner>> \o losers)
  IN  [n \in DOMAIN ctx |->
         IF ~Contains(all, n) THEN ctx[n]
         ELSE LET k == CHOOSE k \in DOMAIN all : all[k] = n
              IN  IF k = Len(all) THEN 0 ELSE all[k + 1]]

Appended(ctx, winner, losers) == IF losers = <<>> THEN ctx ELSE Relink(ctx, winner, losers)

\* A raise inside a handler puts what is handled in the place of the context,
\* and cuts the link that would close a circle.
Reraise(ctx, n, under) ==
  IF under \in {0, n} THEN ctx
  ELSE [m \in DOMAIN ctx |-> IF m = n THEN under
                             ELSE IF ctx[m] = n /\ Contains(Collect(ctx, <<>>, under), m) THEN 0
                             ELSE ctx[m]]

Without(seq, n) == SelectSeq(seq, LAMBDA m : m # n)
IfAny(n) == IF n = 0 THEN <<>> ELSE <<n>>
IsInterrupt(n) == fails[n] = "interrupt"

-----------------------------------------------------------------------------
(* build_processors() *)

NextStage == Plan[Len(built) + 1]
Pending == {PostOf[s] : s \in DOMAIN PostOf \cap ToSet(built)} \ ToSet(built)

\* The post half of a bracket waits for its place at the end of the chain.
Build ==
  /\ spc = "build" /\ Len(built) < Len(Plan)
  /\ built' = Append(built, NextStage)
  /\ spc' = IF Len(built') = Len(Plan) THEN "construct" ELSE spc
  /\ UNCHANGED <<entry, todo, closed, current, handled, causes, chainVars, raised>>

\* What was built, and the halves without a place, are closed in reverse.
BuildFails ==
  /\ spc = "build" /\ Len(built) < Len(Plan) /\ NextStage \notin Posts
  /\ \E kind \in Kinds : Fails(kind, "build", 0)
  /\ current' = New /\ handled' = New /\ spc' = "rollback"
  /\ todo' = SetToSeq(Pending) \o Reverse(built)
  /\ UNCHANGED <<entry, built, closed, causes, raised>>

\* One owner is closed; an error that is wrapped loses its context.
CloseOne ==
  /\ todo # <<>> /\ todo' = Tail(todo) /\ closed' = Append(closed, Head(todo))
  /\ \/ UNCHANGED <<chainVars, errors, interrupts>>
     \/ /\ \E under \in {handled, IF spc = "rollback" THEN 0 ELSE handled} :
             Fails("error", "close", under)
        /\ errors' = Append(errors, New) /\ UNCHANGED interrupts
     \/ /\ Fails("interrupt", "close", handled)
        /\ interrupts' = Append(interrupts, New) /\ UNCHANGED errors

RollbackCloses ==
  /\ spc = "rollback" /\ CloseOne
  /\ UNCHANGED <<spc, entry, built, current, handled, streamError, graphError, raised>>

\* An interrupt of the rollback wins, else what made the build fail.
RollbackEnds ==
  /\ spc = "rollback" /\ todo = <<>>
  /\ current' = IF interrupts # <<>> THEN Head(interrupts) ELSE current
  /\ context' = IF interrupts # <<>>
                THEN Relink(context, current', <<current>> \o errors \o Tail(interrupts))
                ELSE Appended(context, current, errors)
  /\ errors' = <<>> /\ interrupts' = <<>> /\ handled' = 0 /\ spc' = "lease"
  /\ UNCHANGED <<entry, built, todo, closed, streamError, graphError, fails, place, raised>>

-----------------------------------------------------------------------------
(* PipelineSession.process() *)

Construct ==
  /\ spc = "construct" /\ spc' = "hook"
  /\ UNCHANGED <<entry, built, todo, closed, current, handled, causes, chainVars, raised>>

\* The graph cannot be made: there is no run that would close the stages.
ConstructFails ==
  /\ spc = "construct" /\ \E kind \in Kinds : Fails(kind, "construct", 0)
  /\ current' = New /\ entry' = "construct" /\ spc' = "lease"
  /\ UNCHANGED <<built, todo, closed, handled, causes, raised>>

\* The owner of the Core Image cache is all there is to close.
LeaseCloses ==
  /\ spc = "lease" /\ closed' = Append(closed, "lease") /\ spc' = "over"
  /\ \/ raised' = current /\ UNCHANGED chainVars
     \/ \E kind \in Kinds :
          /\ Len(fails) < MaxFailures
          /\ fails' = Append(fails, kind) /\ place' = Append(place, "close")
          /\ raised' = IF kind = "interrupt" THEN New ELSE current
          /\ context' = Relink(Append(context, 0), raised', IF kind = "interrupt" THEN <<current>>
                                                            ELSE <<New>>)
  /\ UNCHANGED <<entry, built, todo, current, handled, causes>>

RunOpens ==
  /\ spc = "hook" /\ spc' = "open"
  /\ UNCHANGED <<entry, built, todo, closed, current, handled, causes, chainVars, raised>>

\* The cleanup begins, for someone, with a failure or none, inside its handler or
\* not.  What _shutdown() does first is to close the handle of a run that started.
CleanUp(who, failure, under) ==
  /\ entry' = who /\ current' = failure /\ handled' = under
  /\ spc' = IF who \in {"next", "hook"} THEN "finish" ELSE "stream"
  /\ UNCHANGED <<built, todo, closed, causes, raised>>

HookFails ==
  /\ spc = "hook" /\ \E kind \in Kinds : Fails(kind, "hook", 0)
  /\ CleanUp("hook", New, 0)

\* __next__ or wait(): the stream ends, as it should or with an actor's failure.
RunEnds ==
  /\ spc = "open"
  /\ \/ UNCHANGED chainVars /\ CleanUp("next", 0, 0)
     \/ \E kind \in Kinds : Fails(kind, "run", 0) /\ CleanUp("next", New, 0)

\* The wait for the next unit is interrupted, or readying or rehoming it raises.
\* ("raise failure from active" gives the interrupt that outranks an error in
\* rehoming the context that _append_context() gave it before.)
PullFails ==
  /\ spc = "open"
  /\ \E kind \in Kinds : Fails(kind, "run", 0) /\ CleanUp("next", New, New)

HostCloses == spc = "open" /\ UNCHANGED chainVars /\ CleanUp("close", 0, 0)

\* OwnedCvOutputs: the copy of a native output fails; the host's block raises.
HostFails ==
  /\ spc = "open"
  /\ \E who \in {"copy", "with"}, kind \in Kinds : Fails(kind, who, 0) /\ CleanUp(who, New, New)

-----------------------------------------------------------------------------
(* _deliver_cleanup(), _shutdown() *)

Owners == <<"consumer">> \o Reverse(built) \o <<"bridge", "lease", "completion">>

CloseHandle ==
  /\ spc = "stream" /\ spc' = "finish"
  /\ \/ UNCHANGED <<chainVars, streamError>>
     \/ \E kind \in Kinds : Fails(kind, "close", handled) /\ streamError' = New
  /\ UNCHANGED <<entry, built, todo, closed, current, handled, errors, interrupts, graphError,
                 raised>>

\* _finish_graph(): a join may be interrupted, and the owners are closed anyway.
FinishGraph ==
  /\ spc = "finish" /\ spc' = "close" /\ todo' = Owners
  /\ \/ UNCHANGED <<chainVars, graphError>>
     \/ Fails("interrupt", "finish", handled) /\ graphError' = New
  /\ UNCHANGED <<entry, built, closed, current, handled, errors, interrupts, streamError, raised>>

CloseAll ==
  /\ spc = "close" /\ CloseOne
  /\ spc' = IF todo' = <<>> THEN "deliver" ELSE spc
  /\ UNCHANGED <<entry, built, current, handled, streamError, graphError, raised>>

JoinAndClose == IfAny(graphError) \o errors

\* What the run raises, and the chain that it has then.
Delivered ==
  IF current # 0
  THEN IF interrupts # <<>>
       THEN [winner |-> Head(interrupts),
             chain  |-> Relink(context, Head(interrupts),
                               <<current>> \o JoinAndClose \o Tail(interrupts))]
       ELSE [winner |-> current, chain |-> Appended(context, current, JoinAndClose)]
  ELSE LET ordered == JoinAndClose \o interrupts
           winner  == IF interrupts # <<>> THEN Head(interrupts) ELSE Head(ordered)
       IN  IF ordered = <<>> THEN [winner |-> 0, chain |-> context]
           ELSE [winner |-> winner, chain |-> Appended(context, winner, Without(ordered, winner))]

ShutDown ==
  LET ordered == IfAny(streamError) \o JoinAndClose \o interrupts
      urgent  == SelectSeq(ordered, IsInterrupt)
      winner  == IF urgent # <<>> THEN Head(urgent) ELSE Head(ordered)
  IN  IF ordered = <<>> THEN [winner |-> 0, chain |-> context]
      ELSE [winner |-> winner, chain |-> Appended(context, winner, Without(ordered, winner))]

\* The failure of close() meets the one before it: an interrupt wins, unless a
\* failed copy was one itself.
Meets(chain, cleanup) ==
  LET wins == IsInterrupt(cleanup) /\ ~(entry = "copy" /\ IsInterrupt(current))
  IN  IF wins
      THEN [winner |-> cleanup,
            chain  |-> IF entry = "with" THEN chain ELSE Relink(chain, cleanup, <<current>>)]
      ELSE [winner |-> current, chain |-> Relink(chain, current, <<cleanup>>)]

Outcome ==
  CASE entry = "next"  -> Delivered
    [] entry = "close" -> ShutDown
    [] OTHER ->
         IF ShutDown.winner = 0 THEN [winner |-> current, chain |-> context]
         ELSE Meets(IF entry = "with" /\ ~IsInterrupt(ShutDown.winner) THEN ShutDown.chain
                    ELSE Reraise(ShutDown.chain, ShutDown.winner, handled), ShutDown.winner)

Deliver ==
  /\ spc = "deliver" /\ spc' = "over"
  /\ raised' = Outcome.winner /\ context' = Outcome.chain
  /\ UNCHANGED <<entry, built, todo, closed, current, handled, causes, fails, place>>

CleanupNext ==
  \/ Build \/ BuildFails \/ RollbackCloses \/ RollbackEnds \/ Construct \/ ConstructFails
  \/ LeaseCloses \/ RunOpens \/ HookFails \/ RunEnds \/ PullFails \/ HostCloses \/ HostFails
  \/ CloseHandle \/ FinishGraph \/ CloseAll \/ Deliver

CleanupSpec == CleanupInit /\ [][CleanupNext]_cvars

-----------------------------------------------------------------------------
ClosedOf(what) == SelectSeq(closed, LAMBDA owner : owner \in what)

\* Whatever raises, every stage that was built and the lease of the Core Image
\* cache are closed, once, the stages in reverse order; a failed construction of
\* the graph is the exception.
EverythingClosed ==
  /\ ClosedOf({"lease"}) = <<"lease">>
  /\ entry # "construct" =>
       ClosedOf(ToSet(Plan)) = IF entry = "build" THEN SetToSeq(Pending) \o Reverse(built)
                             ELSE Reverse(built)

\* The caller gets the first failure, unless closing was interrupted: then an
\* interrupt; and from it every failure can be reached, though Python sets the
\* __context__ of what is raised again inside a handler.
NothingSwallowed ==
  /\ raised = 0 <=> fails = <<>>
  /\ (\A n \in DOMAIN fails : ~IsInterrupt(n)) => raised = (IF fails = <<>> THEN 0 ELSE 1)
  /\ (\E n \in DOMAIN fails : IsInterrupt(n) /\ place[n] = "close") => IsInterrupt(raised)
  /\ ToSet(Collect(context, <<>>, raised)) = DOMAIN fails

CleanupIsComplete == spc = "over" => EverythingClosed /\ NothingSwallowed
=============================================================================
