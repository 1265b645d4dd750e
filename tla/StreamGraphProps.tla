-------------------------- MODULE StreamGraphProps --------------------------
(***************************************************************************)
(* What must hold of the actor graph.                                      *)
(***************************************************************************)
EXTENDS StreamGraph, FiniteSets

Label == {"new", "next", "top", "get", "reset", "process", "publish", "emit",
          "put", "settle", "release", "eos", "consume", "stop", "closing", "finally",
          "done", "idle", "wait", "raise", "join", "drain", "closed"}

Message == Envelope \cup {EOS}

ChannelsOK ==
  /\ chan \in [Chan -> Seq(Message)]
  /\ \A c \in Chan : Len(chan[c]) <= Capacity(c)

SupervisionOK ==
  /\ closed \subseteq Chan
  /\ cancelled \in BOOLEAN /\ failed \in BOOLEAN
  /\ closing \in [Thread -> 0..(2 * N + 1)]

ThreadsOK ==
  /\ pc \in [Thread -> Label]
  /\ cur \in [Thread -> Message \cup {None}]
  /\ next \in 1..(NumUnits + 1)

StagesOK ==
  /\ window \in [Stage -> Seq(Unit)]
  /\ iter \in [Stage -> Seq(Unit)]
  /\ kind \in [Stage -> {"process", "boundary", "eos"}]
  /\ marks \in [Stage -> Seq(Unit)]
  /\ started \subseteq Stage
  /\ epoch \in [Stage -> 0..NumUnits]
  /\ drained \in [Stage -> SUBSET Lease]
  /\ out \in [Stage -> Envelope \cup {None}]

LeasesOK ==
  /\ refs \in [Lease -> Int]
  /\ free \in [Stage -> Int]
  /\ terminal \in Seq(Lease)

ResultOK ==
  /\ delivered \in Seq([unit : Unit, bnds : Seq(Unit)])
  /\ finished \in {"no", "eos", "early"}
  /\ outcome \in {"none", "ended", "failed", "cancelled"}

\* Every variable has its type; no channel exceeds its bound.
TypeOK == ChannelsOK /\ SupervisionOK /\ ThreadsOK /\ StagesOK /\ LeasesOK /\ ResultOK

-----------------------------------------------------------------------------
\* The places that hold a handle on lease l.
Holders(l) ==
  (UNION {{<<"queued", c, k>> : k \in {k \in DOMAIN chan[c] :
             chan[c][k] # EOS /\ chan[c][k].lease = l}} : c \in Chan})
  \cup {<<"hand", t>> : t \in {t \in Thread : cur[t] \notin {EOS, None} /\ cur[t].lease = l}}
  \cup {<<"out", i>> : i \in {i \in Stage : out[i] # None /\ out[i].lease = l}}
  \cup {<<"terminal", k>> : k \in {k \in DOMAIN terminal : terminal[k] = l}}

\* A lease is released exactly as often as it is held: its count is the number
\* of envelopes and terminal handles that carry it, whichever thread gives them
\* up and however the run ends.  A slot is taken exactly while an output of
\* its operation lives, so a pooled buffer is never recycled under a reader.
LeasesAccounted ==
  /\ \A l \in Lease : refs[l] = Cardinality(Holders(l))
  /\ \A i \in Stage : Slots[i] > 0 =>
       free[i] + Cardinality({u \in Unit : refs[<<i, u>>] > 0}) = Slots[i]

\* The boundary a unit belongs to: the last one at or before it.
EpochOf(u) ==
  LET upto == {b \in {1} \cup Cuts : b <= u}
  IN  CHOOSE b \in upto : \A a \in upto : a <= b

\* A processor sees a unit, and emits one, only in the state it was reset to
\* for that unit's shot: the tail of a shot leaves before the reset, and no
\* unit of the next shot is processed before it (protocol.py).
ShotsDoNotMix ==
  \A i \in Stage :
    /\ pc[Worker(i)] = "process" => epoch[i] = EpochOf(cur[Worker(i)].unit)
    /\ out[i] # None => epoch[i] = EpochOf(out[i].unit)

\* When processors are closed no thread runs any more, every lease is released
\* and every slot is back: what a pool of native buffers relies on.
QuietWhenClosed ==
  pc[Main] = "closed" =>
    /\ \A t \in Thread \ {Main} : pc[t] \in {"new", "done"}
    /\ \A l \in Lease : refs[l] = 0
    /\ free = Slots

\* A failure is never reported as a complete stream.
SuccessMeansNoFailure ==
  outcome = "ended" /\ finished # "early" => ~failed

\* A consumer is told that the stream ended only after it consumed all of it.
FinishIsComplete ==
  finished = "eos" => {delivered[k].unit : k \in DOMAIN delivered}
                        = Unit \ UNION {Drops[i] : i \in Stage}

-----------------------------------------------------------------------------
\* What the contract knows of a run: whether it is over, and how.
Reported ==
  IF outcome = "ended" /\ finished # "early" THEN "ended"
  ELSE IF pc[Main] \in {"drain", "closed"} THEN "stopped"
  ELSE "open"

\* The run as its consumer sees it.
Contract == INSTANCE StreamContract WITH
  Kept       <- Unit \ UNION {Drops[i] : i \in Stage},
  Boundaries <- {1} \cup Cuts,
  status     <- Reported

\* The graph implements the contract: order, completeness, boundary placement.
KeepsContract == Contract!Spec

\* A run that is driven comes to its end: no thread waits for ever.
Terminates == <>(pc[Main] = "closed")

\* A host that pulls gets an answer.
PullReturns == pc[Main] = "get" ~> pc[Main] # "get"
=============================================================================
