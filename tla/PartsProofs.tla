---------------------------- MODULE PartsProofs -----------------------------
(***************************************************************************)
(* Theorems about the parts of module MCParts that share state between     *)
(* threads or processes, and about the helpers of the models: the Core     *)
(* Image cache janitor, for any set of threads, period and number of       *)
(* renders; the reservation of output paths, for any runs in any processes *)
(* over any tree of paths; the window buffer, for every size of window and *)
(* length of the stream; the optical-flow services, for every number of    *)
(* threads, geometries and services; about the end of a file run, for      *)
(* every film and every grid; and about timestamp resets in joined files,  *)
(* for every pair of recordings the unwrapper can know.                    *)
(***************************************************************************)
EXTENDS CacheJanitor, ArtifactReservation, WindowBuffer, FlowServices, FileEndpoint,
        EpochUnwrapper, FiniteSetTheorems, SequenceTheorems, WellFoundedInduction, TLAPS

-----------------------------------------------------------------------------
(* The cache janitor *)

Label == {"idle", "begin", "render", "settle", "clear"}

JanitorTypes ==
  /\ cpc \in [Renderer -> Label] /\ asleep \subseteq Renderer /\ owning \subseteq Renderer
  /\ active \in Nat /\ dirty \in Nat /\ backoff \in Nat /\ rendered \in Nat /\ cleared \in Nat
  /\ clearing \in BOOLEAN /\ owed \in [Renderer -> Nat]

\* The threads inside a render, or inside a clear.
RenderersIn(label) == {t \in Renderer : cpc[t] = label}

\* _active counts the renders under way.
RendersCounted == IsFiniteSet(RenderersIn("render")) /\ active = Cardinality(RenderersIn("render"))

\* _clearing is the flag of one thread, which runs while nothing renders.
OneClears ==
  /\ clearing => active = 0 /\ dirty > 0 /\ \E t \in Renderer : RenderersIn("clear") = {t}
  /\ ~clearing => RenderersIn("clear") = {}

\* Every completed render is either cleared or still dirty.
NothingForgotten ==
  rendered = cleared + dirty /\ \A t \in Renderer : owed[t] <= rendered

JanitorInv ==
  JanitorTypes /\ RendersCounted /\ OneClears /\ NothingForgotten /\ SleepsForReason

-----------------------------------------------------------------------------
(* The cache janitor: counting *)

\* A thread that neither comes to a label nor leaves it changes nobody there.
LEMMA SameThere ==
  ASSUME NEW label \in Label, cpc \in [Renderer -> Label], NEW t \in Renderer, NEW to \in Label,
         cpc[t] # label, to # label, cpc' = [cpc EXCEPT ![t] = to]
  PROVE  RenderersIn(label)' = RenderersIn(label)
BY DEF RenderersIn

\* The thread comes.
LEMMA OneMore ==
  ASSUME NEW label \in Label, cpc \in [Renderer -> Label], NEW t \in Renderer,
         cpc[t] # label, cpc' = [cpc EXCEPT ![t] = label]
  PROVE  RenderersIn(label)' = RenderersIn(label) \cup {t} /\ t \notin RenderersIn(label)
BY DEF RenderersIn

\* The thread leaves.
LEMMA OneLess ==
  ASSUME NEW label \in Label, cpc \in [Renderer -> Label], NEW t \in Renderer, NEW to \in Label,
         cpc[t] = label, to # label, cpc' = [cpc EXCEPT ![t] = to]
  PROVE  RenderersIn(label)' = RenderersIn(label) \ {t} /\ t \in RenderersIn(label)
BY DEF RenderersIn

\* Whoever renders is counted, and is the only one when the count is one.
LEMMA CountOfRenders ==
  ASSUME JanitorTypes, RendersCounted, NEW t \in Renderer, cpc[t] = "render"
  PROVE  active > 0 /\ (active = 1 => RenderersIn("render") = {t})
<1>1. t \in RenderersIn("render")
  BY DEF RenderersIn
<1>2. active > 0
  BY <1>1, FS_EmptySet DEF RendersCounted, JanitorTypes
<1>3. ASSUME active = 1 PROVE RenderersIn("render") = {t}
  BY <1>1, <1>3, FS_Singleton DEF RendersCounted
<1> QED
  BY <1>2, <1>3
-----------------------------------------------------------------------------
(* The cache janitor: the inductive invariant *)

LEMMA InitJanitor == JanitorInit => JanitorInv
<1> SUFFICES ASSUME JanitorInit PROVE JanitorInv
  OBVIOUS
<1>1. JanitorTypes
  BY DEF JanitorInit, JanitorTypes, Label
<1>2. RenderersIn("render") = {} /\ RenderersIn("clear") = {}
  BY DEF JanitorInit, RenderersIn
<1>3. RendersCounted
  BY <1>2, FS_EmptySet DEF JanitorInit, RendersCounted
<1> QED
  BY <1>1, <1>2, <1>3 DEF JanitorInit, JanitorInv, OneClears, NothingForgotten, SleepsForReason

LEMMA TypesStep == JanitorInv /\ [JanitorNext]_jvars => JanitorTypes'
<1> SUFFICES ASSUME JanitorInv, [JanitorNext]_jvars PROVE JanitorTypes'
  OBVIOUS
<1> USE DEF JanitorTypes, Step, Label
<1> JanitorTypes
  BY DEF JanitorInv
<1>1. ASSUME NEW t \in Renderer, JanitorCall(t) PROVE JanitorTypes'
  BY <1>1 DEF JanitorCall, AcquireOwner, ReleaseOwner, ClearIfDirty, Render
<1>2. ASSUME NEW t \in Renderer, BeginRender(t) PROVE JanitorTypes'
  BY <1>2 DEF BeginRender, Sleep
<1>3. ASSUME NEW t \in Renderer, FinishRender(t) PROVE JanitorTypes'
  <2>1. active > 0
    BY <1>3, CountOfRenders DEF JanitorInv, FinishRender
  <2>2. active' \in Nat /\ dirty' \in Nat /\ rendered' \in Nat
    BY <1>3, <2>1 DEF FinishRender
  <2> QED
    BY <1>3, <2>2 DEF FinishRender
<1>4. ASSUME NEW t \in Renderer, Settles(t) PROVE JanitorTypes'
  <2>1. clearing' = clearing \/ clearing' = WorthClearing
    BY <1>4 DEF Settles, Sleep
  <2>2. WorthClearing \in BOOLEAN
    BY DEF WorthClearing
  <2>3. clearing' \in BOOLEAN
    BY <2>1, <2>2
  <2> QED
    BY <1>4, <2>3 DEF Settles, Sleep
<1>5. ASSUME NEW t \in Renderer, Cleared(t) PROVE JanitorTypes'
  <2>1. cleared + dirty \in Nat
    OBVIOUS
  <2>2. cleared' \in Nat /\ dirty' \in Nat /\ backoff' \in Nat
    BY <1>5, <2>1 DEF Cleared
  <2> QED
    BY <1>5, <2>2 DEF Cleared
<1>6. ASSUME NEW t \in Renderer, ClearFails(t) PROVE JanitorTypes'
  BY <1>6 DEF ClearFails, WakesAll
<1> QED
  BY <1>1, <1>2, <1>3, <1>4, <1>5, <1>6 DEF JanitorNext, JanitorStep, jvars

LEMMA CountStep == JanitorInv /\ [JanitorNext]_jvars => RendersCounted'
<1> SUFFICES ASSUME JanitorInv, [JanitorNext]_jvars PROVE RendersCounted'
  OBVIOUS
<1> USE DEF RendersCounted, JanitorInv, Step
<1> JanitorTypes /\ RendersCounted /\ {"idle", "settle", "clear", "begin", "render"} \subseteq Label
  BY DEF Label
<1>0. cpc \in [Renderer -> Label]
  BY DEF JanitorTypes
<1>1. ASSUME NEW t \in Renderer, BeginRender(t) \/ FinishRender(t) PROVE RendersCounted'
  <2>1. CASE active' = active + 1 /\ Step(t, "begin", "render")
    <3>1. RenderersIn("render")' = RenderersIn("render") \cup {t} /\ t \notin RenderersIn("render")
      BY <1>0, <2>1, OneMore
    <3> QED
      BY <2>1, <3>1, FS_AddElement DEF JanitorTypes
  <2>2. CASE FinishRender(t)
    <3>1. PICK to \in {"clear", "idle"} : Step(t, "render", to)
      BY <2>2 DEF FinishRender
    <3>2. RenderersIn("render")' = RenderersIn("render") \ {t} /\ t \in RenderersIn("render")
      BY <1>0, <3>1, OneLess
    <3> QED
      BY <2>2, <3>2, FS_RemoveElement DEF JanitorTypes, FinishRender
  <2>3. CASE Sleep(t, "begin")
    BY <2>3 DEF Sleep, RenderersIn
  <2> QED
    BY <1>1, <2>1, <2>2, <2>3 DEF BeginRender
<1>2. ASSUME NEW t \in Renderer, JanitorCall(t) \/ Settles(t) \/ Cleared(t) \/ ClearFails(t)
      PROVE  RendersCounted'
  <2>1. active' = active
    BY <1>2 DEF JanitorCall, AcquireOwner, ReleaseOwner, ClearIfDirty, Render, Settles, Sleep,
       Cleared, ClearFails
  <2>2. cpc' = cpc
        \/ \E from, to \in {"idle", "settle", "clear", "begin"} : Step(t, from, to)
    BY <1>2 DEF JanitorCall, AcquireOwner, ReleaseOwner, ClearIfDirty, Render, Settles, Sleep,
       Cleared, ClearFails
  <2>3. RenderersIn("render")' = RenderersIn("render")
    BY <1>0, <2>2, SameThere DEF RenderersIn
  <2> QED
    BY <2>1, <2>3
<1>3. CASE UNCHANGED jvars
  BY <1>3 DEF jvars, RenderersIn
<1> QED
  BY <1>1, <1>2, <1>3 DEF JanitorNext, JanitorStep

LEMMA ClearStep == JanitorInv /\ [JanitorNext]_jvars => OneClears'
<1> SUFFICES ASSUME JanitorInv, [JanitorNext]_jvars PROVE OneClears'
  OBVIOUS
<1> USE DEF OneClears, JanitorInv, Step
<1> JanitorTypes /\ OneClears /\ {"idle", "settle", "clear", "begin", "render"} \subseteq Label
  BY DEF Label
<1>0. cpc \in [Renderer -> Label]
  BY DEF JanitorTypes
<1>1. ASSUME NEW t \in Renderer, JanitorCall(t) \/ BeginRender(t) PROVE OneClears'
  <2>1. RenderersIn("clear")' = RenderersIn("clear")
    <3>1. cpc' = cpc \/ \E from, to \in {"idle", "settle", "begin", "render"} : Step(t, from, to)
      BY <1>1 DEF JanitorCall, AcquireOwner, ReleaseOwner, ClearIfDirty, Render, BeginRender,
         Sleep
    <3> QED
      BY <1>0, <3>1, SameThere DEF RenderersIn
  <2>2. clearing' = clearing /\ dirty' = dirty /\ (clearing => active' = active)
    BY <1>1 DEF JanitorCall, AcquireOwner, ReleaseOwner, ClearIfDirty, Render, BeginRender,
       Sleep, MayEnter
  <2> QED
    BY <2>1, <2>2
<1>2. ASSUME NEW t \in Renderer, FinishRender(t) PROVE OneClears'
  <2>1. active > 0 /\ ~clearing
    BY <1>2, CountOfRenders DEF FinishRender
  <2>2. CASE clearing'
    <3>1. active = 1 /\ Step(t, "render", "clear") /\ dirty' = dirty + 1 /\ active' = active - 1
      BY <1>2, <2>1, <2>2 DEF FinishRender
    <3>2. RenderersIn("clear")' = RenderersIn("clear") \cup {t}
      BY <1>0, <3>1, OneMore
    <3> QED
      BY <2>1, <2>2, <3>1, <3>2 DEF JanitorTypes
  <2>3. CASE ~clearing'
    <3>1. Step(t, "render", "idle")
      BY <1>2, <2>1, <2>3 DEF FinishRender
    <3>2. RenderersIn("clear")' = RenderersIn("clear")
      BY <1>0, <3>1, SameThere
    <3> QED
      BY <2>1, <2>3, <3>2
  <2> QED
    BY <2>2, <2>3
<1>3. ASSUME NEW t \in Renderer, Settles(t) PROVE OneClears'
  <2>1. CASE Sleep(t, "settle")
    BY <2>1 DEF Sleep, RenderersIn
  <2>2. CASE /\ Calm /\ WorthClearing /\ Step(t, "settle", "clear") /\ clearing'
             /\ UNCHANGED <<dirty, active>>
    <3>1. RenderersIn("clear")' = RenderersIn("clear") \cup {t}
      BY <1>0, <2>2, OneMore
    <3> QED
      BY <2>2, <3>1 DEF Calm, WorthClearing
  <2>3. CASE Calm /\ Step(t, "settle", "idle") /\ ~clearing'
    <3>1. RenderersIn("clear")' = RenderersIn("clear")
      BY <1>0, <2>3, SameThere
    <3> QED
      BY <2>3, <3>1 DEF Calm
  <2> QED
    BY <1>3, <2>1, <2>2, <2>3 DEF Settles, JanitorTypes, WorthClearing
<1>4. ASSUME NEW t \in Renderer, Cleared(t) \/ ClearFails(t) PROVE OneClears'
  <2>1. Step(t, "clear", "idle") /\ ~clearing'
    BY <1>4 DEF Cleared, ClearFails
  <2>2. RenderersIn("clear")' = RenderersIn("clear") \ {t} /\ t \in RenderersIn("clear")
    BY <1>0, <2>1, OneLess
  <2> QED
    BY <2>1, <2>2
<1>5. CASE UNCHANGED jvars
  BY <1>5 DEF jvars, RenderersIn
<1> QED
  BY <1>1, <1>2, <1>3, <1>4, <1>5 DEF JanitorNext, JanitorStep

LEMMA ForgetStep == JanitorInv /\ [JanitorNext]_jvars => NothingForgotten'
<1> SUFFICES ASSUME JanitorInv, [JanitorNext]_jvars PROVE NothingForgotten'
  OBVIOUS
<1> USE DEF NothingForgotten, JanitorInv, JanitorTypes
<1>1. ASSUME NEW t \in Renderer, JanitorCall(t) PROVE NothingForgotten'
  BY <1>1 DEF JanitorCall, AcquireOwner, ReleaseOwner, ClearIfDirty, Render
<1>2. ASSUME NEW t \in Renderer, BeginRender(t) \/ Settles(t) PROVE NothingForgotten'
  BY <1>2 DEF BeginRender, Settles, Sleep
<1>3. ASSUME NEW t \in Renderer, FinishRender(t) PROVE NothingForgotten'
  BY <1>3 DEF FinishRender
<1>4. ASSUME NEW t \in Renderer, Cleared(t) \/ ClearFails(t) PROVE NothingForgotten'
  BY <1>4 DEF Cleared, ClearFails
<1> QED
  BY <1>1, <1>2, <1>3, <1>4 DEF JanitorNext, JanitorStep, jvars

LEMMA SleepStep == JanitorInv /\ [JanitorNext]_jvars => SleepsForReason'
<1> SUFFICES ASSUME JanitorInv, [JanitorNext]_jvars PROVE SleepsForReason'
  OBVIOUS
<1> USE DEF SleepsForReason, JanitorInv, JanitorTypes, Step
<1>1. ASSUME NEW t \in Renderer, JanitorCall(t) PROVE SleepsForReason'
  BY <1>1 DEF JanitorCall, AcquireOwner, ReleaseOwner, ClearIfDirty, Render
<1>2. ASSUME NEW t \in Renderer, BeginRender(t) \/ Settles(t) PROVE SleepsForReason'
  BY <1>2 DEF BeginRender, Settles, Sleep, MayEnter, Calm, WorthClearing
<1>3. ASSUME NEW t \in Renderer, FinishRender(t) PROVE SleepsForReason'
  <2>1. active > 0
    BY <1>3, CountOfRenders DEF FinishRender
  <2> QED
    BY <1>3, <2>1 DEF FinishRender
<1>4. ASSUME NEW t \in Renderer, Cleared(t) \/ ClearFails(t) PROVE SleepsForReason'
  BY <1>4 DEF Cleared, ClearFails, WakesAll
<1> QED
  BY <1>1, <1>2, <1>3, <1>4 DEF JanitorNext, JanitorStep, jvars

LEMMA JanitorInductive == JanitorSpec => []JanitorInv
<1>1. JanitorInv /\ [JanitorNext]_jvars => JanitorInv'
  BY TypesStep, CountStep, ClearStep, ForgetStep, SleepStep DEF JanitorInv
<1> QED
  BY InitJanitor, <1>1, PTL DEF JanitorSpec

-----------------------------------------------------------------------------
\* A clear never runs beside a render or beside another clear (_run_clear is
\* entered with _clearing set and _active at zero), however many threads render.
THEOREM ClearIsAlone == JanitorSpec => []ClearsAlone
<1>1. JanitorInv => ClearsAlone
  <2> SUFFICES ASSUME JanitorInv PROVE ClearsAlone
    OBVIOUS
  <2>1. {t \in Renderer : cpc[t] = "clear"} = RenderersIn("clear")
    BY DEF RenderersIn
  <2>2. Cardinality(RenderersIn("clear")) = (IF clearing THEN 1 ELSE 0)
    BY FS_EmptySet, FS_Singleton DEF JanitorInv, JanitorTypes, OneClears
  <2> QED
    BY <2>1, <2>2 DEF JanitorInv, OneClears, ClearsAlone
<1> QED
  BY JanitorInductive, <1>1, PTL

\* No wake-up of the condition is lost: whoever sleeps still has what it waits for.
THEOREM WakeupsReachSleepers == JanitorSpec => []SleepsForReason
<1>1. JanitorInv => SleepsForReason
  BY DEF JanitorInv
<1> QED
  BY JanitorInductive, <1>1, PTL

\* A request for a clear, or the release of the last owner, returns only when the
\* renders completed before it are cleared or when its clear has failed.
THEOREM RequestsAreCovered == JanitorSpec => ClearCovers
<1> DEFINE Covers ==
      \A t \in Renderer : cpc[t] \in {"settle", "clear"} /\ cpc'[t] = "idle" =>
        cleared' >= owed[t] \/ backoff' > 0
<1>1. JanitorInv /\ [JanitorNext]_jvars => [Covers]_jvars
  <2> SUFFICES ASSUME JanitorInv, JanitorNext, NEW t \in Renderer,
                      cpc[t] \in {"settle", "clear"}, cpc'[t] = "idle"
               PROVE  cleared' >= owed[t] \/ backoff' > 0
    OBVIOUS
  <2> USE DEF JanitorInv, JanitorTypes, NothingForgotten, OneClears, Step
  <2>1. ASSUME NEW u \in Renderer, JanitorCall(u) \/ BeginRender(u) \/ FinishRender(u)
        PROVE  FALSE
    BY <2>1 DEF JanitorCall, AcquireOwner, ReleaseOwner, ClearIfDirty, Render, BeginRender,
       FinishRender, Sleep
  <2>2. ASSUME NEW u \in Renderer, Settles(u) PROVE cleared' >= owed[t] \/ backoff' > 0
    BY <2>2 DEF Settles, Sleep, WorthClearing
  <2>3. ASSUME NEW u \in Renderer, Cleared(u) PROVE cleared' >= owed[t] \/ backoff' > 0
    BY <2>3 DEF Cleared
  <2>4. ASSUME NEW u \in Renderer, ClearFails(u) PROVE cleared' >= owed[t] \/ backoff' > 0
    <3>1. RenderersIn("clear") # {}
      BY <2>4 DEF ClearFails, RenderersIn
    <3> QED
      BY <2>4, <3>1 DEF ClearFails
  <2> QED
    BY <2>1, <2>2, <2>3, <2>4 DEF JanitorNext, JanitorStep
<1> QED
  BY JanitorInductive, <1>1, PTL DEF JanitorSpec, ClearCovers

-----------------------------------------------------------------------------
(* The reservation of output paths *)

ReservationTypes ==
  /\ rpc \in [Run -> {"idle", "locking", "held", "dead"}]
  /\ namespaces \in [Process -> SUBSET Path]
  /\ holders \in [Process -> [Path -> Int]]
  /\ ranges \subseteq Process \X Path \X {"LOCK_EX", "LOCK_SH"}
  /\ taken \in [Run -> SUBSET Path]

Live(r)   == rpc[r] # "dead"
Active(r) == rpc[r] \in {"locking", "held"}
Peers(r, s) == ProcessOf[r] = ProcessOf[s]

\* What each run has locked, and that one run of a process locks at a time.
Phases ==
  /\ \A r \in Run : /\ rpc[r] = "idle" => taken[r] = {}
                    /\ taken[r] \subseteq Requests(r)
                    /\ rpc[r] = "held" => taken[r] = Requests(r)
  /\ \A r, s \in Run : Peers(r, s) /\ rpc[r] = "locking" /\ rpc[s] = "locking" => r = s
  /\ \A r, s \in Run : Peers(r, s) /\ Live(r) => Live(s)

\* The table of a process holds the artifacts of the runs that hold theirs.
TableFollowsRuns ==
  \A r \in Run : rpc[r] = "held" => Outputs[r] \subseteq namespaces[ProcessOf[r]]

\* Runs of one process that are under way have separate artifacts.
PeersDisjoint ==
  \A r, s \in Run : r # s /\ Peers(r, s) /\ Active(r) /\ Active(s) =>
    \A a \in Outputs[r], b \in Outputs[s] : ~Overlap(a, b)

\* The runs of a process that have locked a path.
Lockers(p, path) == {r \in Runs(p) : path \in taken[r]}

HoldersCounted ==
  \A p \in Process, path \in Path : (\A r \in Runs(p) : Live(r)) =>
    IsFiniteSet(Lockers(p, path)) /\ holders[p][path] = Cardinality(Lockers(p, path))

\* The kernel's locks are those of the runs, with the mode each of them needs.
RangesMatch ==
  /\ \A r \in Run : Live(r) =>
       \A path \in taken[r] : <<ProcessOf[r], path, Mode(r, path)>> \in ranges
  /\ \A g \in ranges : \E r \in Runs(g[1]) : Live(r) /\ g[2] \in taken[r]

\* What the kernel guarantees.
KernelExcludes ==
  \A g, h \in ranges : g[1] # h[1] /\ g[2] = h[2] => g[3] = "LOCK_SH" /\ h[3] = "LOCK_SH"

ReservationInv ==
  /\ ReservationTypes /\ Phases /\ TableFollowsRuns /\ PeersDisjoint
  /\ HoldersCounted /\ RangesMatch /\ KernelExcludes

-----------------------------------------------------------------------------
(* The reservation of output paths: peers *)

\* A path that two runs of a process want is an artifact of neither.
LEMMA ModesAgree ==
  ASSUME ReservationInv, NEW r \in Run, NEW s \in Run, Peers(r, s), Active(r), Active(s),
         NEW path \in Requests(r) \cap Requests(s)
  PROVE  Mode(r, path) = Mode(s, path)
<1>1. ASSUME NEW u \in Run, NEW v \in Run, u # v, Peers(u, v), Active(u), Active(v),
             path \in Outputs[u], path \in Requests(v)
      PROVE  FALSE
  <2>1. PICK o \in Outputs[v] : path = o \/ path \in Parents[o]
    BY <1>1 DEF Requests
  <2>2. Overlap(path, o)
    BY <2>1 DEF Overlap
  <2> QED
    BY <1>1, <2>2 DEF ReservationInv, PeersDisjoint
<1> QED
  BY <1>1 DEF Peers, Mode

\* Whoever has locked a path in a live process is under way.
LEMMA LockerActive ==
  ASSUME ReservationInv, NEW r \in Run, Live(r), taken[r] # {}
  PROVE  Active(r)
BY DEF ReservationInv, ReservationTypes, Phases, Live, Active

\* All runs of a process live, or none does.
LEMMA PeersLive ==
  ASSUME ReservationInv, NEW r \in Run, Live(r), NEW s \in Runs(ProcessOf[r])
  PROVE  s \in Run /\ Live(s) /\ Peers(r, s) /\ ProcessOf[s] = ProcessOf[r]
BY DEF ReservationInv, Phases, Peers, Runs

-----------------------------------------------------------------------------
LEMMA InitReservation == ReservationInit => ReservationInv
<1> SUFFICES ASSUME ReservationInit PROVE ReservationInv
  OBVIOUS
<1>1. ReservationTypes /\ Phases /\ TableFollowsRuns /\ PeersDisjoint
  BY DEF ReservationInit, ReservationTypes, Phases, TableFollowsRuns, PeersDisjoint, Active,
     Live, Peers, Process
<1>2. HoldersCounted
  <2> SUFFICES ASSUME NEW p \in Process, NEW path \in Path
               PROVE  Lockers(p, path) = {} /\ holders[p][path] = 0
    BY FS_EmptySet DEF HoldersCounted
  <2> QED
    BY DEF ReservationInit, Lockers, Runs
<1>3. RangesMatch /\ KernelExcludes
  BY DEF ReservationInit, RangesMatch, KernelExcludes
<1> QED
  BY <1>1, <1>2, <1>3 DEF ReservationInv

-----------------------------------------------------------------------------
(* The reservation of output paths: steps *)

LEMMA StartKeeps ==
  ASSUME ReservationInv, NEW r \in Run, StartsLocking(r)
  PROVE  ReservationInv'
<1> USE DEF ReservationInv, ReservationTypes, StartsLocking
<1>1. ReservationTypes'
  OBVIOUS
<1>2. Phases'
  BY DEF Phases, Guarded, Runs, Peers, Live, Requests
<1>3. TableFollowsRuns'
  BY DEF TableFollowsRuns
<1>4. PeersDisjoint'
  <2>1. ASSUME NEW s \in Run, s # r, Peers(r, s), Active(s),
               NEW a \in Outputs[r], NEW b \in Outputs[s], Overlap(a, b) \/ Overlap(b, a)
        PROVE  FALSE
    <3>1. rpc[s] = "held"
      BY <2>1 DEF Active, Guarded, Runs, Peers
    <3>2. b \in namespaces[ProcessOf[r]]
      BY <2>1, <3>1 DEF TableFollowsRuns, Peers
    <3> QED
      BY <2>1, <3>2 DEF Conflicts, Overlap
  <2>2. ASSUME NEW s \in Run, s # r PROVE Active(s)' <=> Active(s)
    BY <2>2 DEF Active
  <2> QED
    BY <2>1, <2>2 DEF PeersDisjoint, Peers, Overlap
<1>5. HoldersCounted'
  <2>1. \A s \in Run : Live(s)' <=> Live(s)
    BY DEF Live
  <2>2. \A p, path : Lockers(p, path)' = Lockers(p, path)
    BY DEF Lockers, Runs
  <2> QED
    BY <2>1, <2>2 DEF HoldersCounted, Runs
<1>6. RangesMatch' /\ KernelExcludes'
  <2>1. \A s \in Run : Live(s)' <=> Live(s)
    BY DEF Live
  <2> QED
    BY <2>1 DEF RangesMatch, KernelExcludes, Runs
<1> QED
  BY <1>1, <1>2, <1>3, <1>4, <1>5, <1>6

LEMMA HoldKeeps ==
  ASSUME ReservationInv, NEW r \in Run, Holds(r)
  PROVE  ReservationInv'
<1> USE DEF ReservationInv, ReservationTypes, Holds
<1>0. /\ \A s \in Run : Live(s)' <=> Live(s)
      /\ \A s \in Run : Active(s)' <=> Active(s)
      /\ \A p, path : Lockers(p, path)' = Lockers(p, path)
  BY DEF Live, Active, Lockers, Runs
<1>1. ReservationTypes'
  BY ReservationConstants DEF Process
<1>2. Phases'
  BY <1>0 DEF Phases, Peers, Requests
<1>3. TableFollowsRuns'
  BY DEF TableFollowsRuns, Process
<1>4. PeersDisjoint'
  BY <1>0 DEF PeersDisjoint, Peers, Overlap
<1>5. HoldersCounted'
  BY <1>0 DEF HoldersCounted, Runs
<1>6. RangesMatch' /\ KernelExcludes'
  BY <1>0 DEF RangesMatch, KernelExcludes, Runs
<1> QED
  BY <1>1, <1>2, <1>3, <1>4, <1>5, <1>6

LEMMA LockKeeps ==
  ASSUME ReservationInv, NEW r \in Run, LocksNext(r)
  PROVE  ReservationInv'
<1> USE DEF ReservationInv, ReservationTypes
<1> DEFINE p == ProcessOf[r]
<1>0. PICK path \in Path :
        /\ path \in Requests(r) /\ path \notin taken[r]
        /\ IF holders[p][path] > 0 THEN UNCHANGED ranges
           ELSE /\ Granted(p, path, Mode(r, path))
                /\ ranges' = ranges \cup {<<p, path, Mode(r, path)>>}
        /\ holders' = [holders EXCEPT ![p][path] = @ + 1]
        /\ taken' = [taken EXCEPT ![r] = @ \cup {path}]
        /\ rpc[r] = "locking" /\ UNCHANGED <<rpc, namespaces>>
  BY DEF LocksNext, IsNext
<1>p. p \in Process /\ r \in Runs(p) /\ Live(r) /\ Active(r)
  BY <1>0 DEF Process, Runs, Live, Active
<1>h. /\ holders' \in [Process -> [Path -> Int]]
      /\ \A q \in Process, other \in Path :
           holders'[q][other] = IF q = p /\ other = path THEN holders[q][other] + 1
                                ELSE holders[q][other]
  BY <1>0, <1>p
<1>1. ReservationTypes'
  <2>1. ranges' \subseteq Process \X Path \X {"LOCK_EX", "LOCK_SH"}
    <3>1. <<p, path, Mode(r, path)>> \in Process \X Path \X {"LOCK_EX", "LOCK_SH"}
      BY <1>p DEF Mode
    <3> QED
      BY <1>0, <3>1
  <2>2. taken' \in [Run -> SUBSET Path]
    BY <1>0
  <2> QED
    BY <1>0, <1>h, <2>1, <2>2
<1>2. Phases'
  BY <1>0 DEF Phases, Peers, Requests, Live
<1>3. TableFollowsRuns' /\ PeersDisjoint'
  BY <1>0 DEF TableFollowsRuns, PeersDisjoint, Peers, Overlap, Active
<1>4. \A s \in Run : Live(s)' <=> Live(s)
  BY <1>0 DEF Live
<1>5. HoldersCounted'
  <2> SUFFICES ASSUME NEW q \in Process, NEW other \in Path, \A s \in Runs(q) : Live(s)
               PROVE  /\ IsFiniteSet(Lockers(q, other)')
                      /\ holders'[q][other] = Cardinality(Lockers(q, other)')
    BY <1>4 DEF HoldersCounted, Runs
  <2>1. IsFiniteSet(Lockers(q, other)) /\ holders[q][other] = Cardinality(Lockers(q, other))
    BY DEF HoldersCounted
  <2>2. CASE q = p /\ other = path
    <3>1. Lockers(q, other)' = Lockers(q, other) \cup {r} /\ r \notin Lockers(q, other)
      BY <1>0, <1>p, <2>2 DEF Lockers, Runs
    <3> QED
      <4>1. /\ IsFiniteSet(Lockers(q, other) \cup {r})
            /\ Cardinality(Lockers(q, other) \cup {r}) = Cardinality(Lockers(q, other)) + 1
        BY <2>1, <3>1, FS_AddElement
      <4> QED
        BY <1>h, <2>1, <2>2, <3>1, <4>1
  <2>3. CASE ~(q = p /\ other = path)
    <3>1. Lockers(q, other)' = Lockers(q, other)
      BY <1>0, <1>p, <2>3 DEF Lockers, Runs
    <3> QED
      BY <1>h, <2>1, <2>3, <3>1
  <2> QED
    BY <2>2, <2>3
<1>6. <<p, path, Mode(r, path)>> \in ranges'
  <2>1. CASE holders[p][path] > 0
    <3>1. \A s \in Runs(p) : Live(s)
      BY <1>p, PeersLive
    <3>2. Lockers(p, path) # {}
      BY <1>p, <2>1, <3>1, FS_EmptySet DEF HoldersCounted
    <3>3. PICK s \in Runs(p) : path \in taken[s]
      BY <3>2 DEF Lockers
    <3>4. s \in Run /\ Live(s) /\ Peers(r, s) /\ ProcessOf[s] = p
      BY <1>p, PeersLive
    <3>5. Active(s) /\ path \in Requests(s)
      BY <3>3, <3>4, LockerActive DEF Phases
    <3>6. Mode(r, path) = Mode(s, path)
      BY <1>0, <1>p, <3>4, <3>5, ModesAgree
    <3>7. <<p, path, Mode(s, path)>> \in ranges
      BY <3>3, <3>4 DEF RangesMatch
    <3> QED
      BY <1>0, <2>1, <3>6, <3>7
  <2> QED
    BY <1>0, <2>1
<1>7. RangesMatch'
  <2>1. ASSUME NEW s \in Run, Live(s), NEW other \in taken'[s]
        PROVE  <<ProcessOf[s], other, Mode(s, other)>> \in ranges'
    <3>1. CASE other \in taken[s]
      BY <1>0, <2>1, <3>1 DEF RangesMatch
    <3>2. CASE other \notin taken[s]
      <4>1. s = r /\ other = path
        BY <1>0, <2>1, <3>2
      <4> QED
        BY <1>6, <4>1
    <3> QED
      BY <3>1, <3>2
  <2>2. ASSUME NEW g \in ranges' PROVE \E s \in Runs(g[1]) : Live(s) /\ g[2] \in taken'[s]
    <3>1. CASE g \in ranges
      BY <1>0, <3>1 DEF RangesMatch, Runs
    <3>2. CASE g \notin ranges
      <4>1. g[1] = p /\ g[2] = path
        BY <1>0, <2>2, <3>2
      <4> QED
        BY <1>0, <1>p, <4>1
    <3> QED
      BY <3>1, <3>2
  <2> QED
    BY <1>4, <2>1, <2>2 DEF RangesMatch, Runs
<1>8. KernelExcludes'
  <2>1. ASSUME NEW g \in ranges, g[1] # p, g[2] = path, ranges' # ranges
        PROVE  Mode(r, path) = "LOCK_SH" /\ g[3] = "LOCK_SH"
    BY <1>0, <2>1 DEF Granted
  <2>2. ranges' = ranges \/ ranges' = ranges \cup {<<p, path, Mode(r, path)>>}
    BY <1>0
  <2> QED
    BY <2>1, <2>2 DEF KernelExcludes
<1> QED
  BY <1>1, <1>2, <1>3, <1>5, <1>7, <1>8

\* _release_offsets(), from a refusal or from a release.
LEMMA ReleaseKeeps ==
  ASSUME ReservationInv, NEW r \in Run, Releases(r), Active(r),
         \/ rpc[r] = "locking" /\ UNCHANGED namespaces
         \/ /\ Guarded(r) /\ rpc[r] = "held"
            /\ namespaces' = [namespaces EXCEPT ![ProcessOf[r]] = @ \ Outputs[r]]
  PROVE  ReservationInv'
<1> USE DEF ReservationInv, ReservationTypes
<1> DEFINE p == ProcessOf[r]
<1>0. /\ ranges' = {range \in ranges : ~(range[1] = p /\ range[2] \in Unlocks(r))}
      /\ taken' = [taken EXCEPT ![r] = {}]
      /\ rpc' = [rpc EXCEPT ![r] = "idle"]
  BY DEF Releases
<1>p. p \in Process /\ r \in Runs(p) /\ Live(r) /\ \A s \in Runs(p) : Live(s)
  BY PeersLive DEF Process, Runs, Live, Active
<1>h. /\ holders' \in [Process -> [Path -> Int]]
      /\ \A q \in Process, path \in Path :
           holders'[q][path] = IF q = p /\ path \in taken[r] THEN holders[q][path] - 1
                               ELSE holders[q][path]
  <2>1. holders' = [holders EXCEPT ![p] = [path \in Path |->
          IF path \in taken[r] THEN holders[p][path] - 1 ELSE holders[p][path]]]
    BY <1>p DEF Releases
  <2> QED
    BY <1>p, <2>1
<1>l. \A s \in Run : (Live(s)' <=> Live(s)) /\ (s # r => (Active(s)' <=> Active(s)))
  BY <1>0 DEF Live, Active
<1>1. ReservationTypes'
  BY <1>0, <1>p, <1>h
<1>2. Phases'
  BY <1>0, <1>l DEF Phases, Peers, Requests
<1>3. PeersDisjoint'
  <2>1. ~Active(r)'
    BY <1>0 DEF Active
  <2> QED
    BY <1>l, <2>1 DEF PeersDisjoint, Peers, Overlap
<1>4. TableFollowsRuns'
  <2> SUFFICES ASSUME NEW s \in Run, rpc'[s] = "held"
               PROVE  Outputs[s] \subseteq namespaces'[ProcessOf[s]]
    BY DEF TableFollowsRuns
  <2>1. s # r /\ rpc[s] = "held" /\ Outputs[s] \subseteq namespaces[ProcessOf[s]]
    BY <1>0 DEF TableFollowsRuns
  <2>2. CASE Peers(r, s)
    <3>1. \A a \in Outputs[s] : a \notin Outputs[r]
      BY <2>1, <2>2 DEF PeersDisjoint, Active, Overlap
    <3> QED
      BY <2>1, <2>2, <3>1 DEF Peers
  <2>3. CASE ~Peers(r, s)
    BY <2>1, <2>3 DEF Peers, Process
  <2> QED
    BY <2>2, <2>3
<1>5. HoldersCounted'
  <2> SUFFICES ASSUME NEW q \in Process, NEW path \in Path, \A s \in Runs(q) : Live(s)
               PROVE  /\ IsFiniteSet(Lockers(q, path)')
                      /\ holders'[q][path] = Cardinality(Lockers(q, path)')
    BY <1>l DEF HoldersCounted, Runs
  <2>1. IsFiniteSet(Lockers(q, path)) /\ holders[q][path] = Cardinality(Lockers(q, path))
    BY DEF HoldersCounted
  <2>2. CASE q = p /\ path \in taken[r]
    <3>1. Lockers(q, path)' = Lockers(q, path) \ {r} /\ r \in Lockers(q, path)
      BY <1>0, <1>p, <2>2 DEF Lockers, Runs
    <3>2. /\ IsFiniteSet(Lockers(q, path) \ {r})
          /\ Cardinality(Lockers(q, path) \ {r}) = Cardinality(Lockers(q, path)) - 1
      BY <2>1, <3>1, FS_RemoveElement
    <3> QED
      BY <1>h, <2>1, <2>2, <3>1, <3>2
  <2>3. CASE ~(q = p /\ path \in taken[r])
    <3>1. Lockers(q, path)' = Lockers(q, path)
      BY <1>0, <1>p, <2>3 DEF Lockers, Runs
    <3> QED
      BY <1>h, <2>1, <2>3, <3>1
  <2> QED
    BY <2>2, <2>3
<1>6. ASSUME NEW s \in Run, s # r, ProcessOf[s] = p, NEW path \in taken[s]
      PROVE  path \notin Unlocks(r)
  <2> SUFFICES ASSUME path \in Unlocks(r) PROVE FALSE
    OBVIOUS
  <2>1. r \in Lockers(p, path) /\ s \in Lockers(p, path)
    BY <1>6, <1>p DEF Unlocks, Lockers, Runs
  <2>2. IsFiniteSet(Lockers(p, path)) /\ Cardinality(Lockers(p, path)) = 1
    BY <1>6, <1>p DEF Unlocks, HoldersCounted
  <2> QED
    BY <1>6, <2>1, <2>2, FS_Singleton
<1>7. ASSUME NEW path \in taken[r], path \notin Unlocks(r)
      PROVE  \E s \in Runs(p) : s # r /\ path \in taken[s]
  <2>1. IsFiniteSet(Lockers(p, path)) /\ Cardinality(Lockers(p, path)) # 1
    BY <1>7, <1>p DEF Unlocks, HoldersCounted
  <2>2. Lockers(p, path) # {r}
    BY <2>1, FS_Singleton
  <2> QED
    BY <1>p, <1>7, <2>2 DEF Lockers
<1>8. RangesMatch'
  <2>1. ASSUME NEW s \in Run, Live(s), NEW path \in taken'[s]
        PROVE  <<ProcessOf[s], path, Mode(s, path)>> \in ranges'
    <3>1. s # r /\ path \in taken[s]
      BY <1>0, <2>1
    <3>2. <<ProcessOf[s], path, Mode(s, path)>> \in ranges
      BY <2>1, <3>1 DEF RangesMatch
    <3>3. ~(ProcessOf[s] = p /\ path \in Unlocks(r))
      BY <1>6, <3>1
    <3> QED
      BY <1>0, <3>2, <3>3
  <2>2. ASSUME NEW g \in ranges' PROVE \E s \in Runs(g[1]) : Live(s) /\ g[2] \in taken'[s]
    <3>1. g \in ranges /\ ~(g[1] = p /\ g[2] \in Unlocks(r))
      BY <1>0
    <3>2. PICK s \in Runs(g[1]) : Live(s) /\ g[2] \in taken[s]
      BY <3>1 DEF RangesMatch
    <3>3. CASE s = r
      <4>1. PICK u \in Runs(p) : u # r /\ g[2] \in taken[u]
        BY <1>7, <3>1, <3>2, <3>3 DEF Runs
      <4> QED
        BY <1>0, <1>p, <3>2, <3>3, <4>1 DEF Runs
    <3>4. CASE s # r
      BY <1>0, <3>2, <3>4 DEF Runs
    <3> QED
      BY <3>3, <3>4
  <2> QED
    BY <1>l, <2>1, <2>2 DEF RangesMatch, Runs, Mode
<1>9. KernelExcludes'
  BY <1>0 DEF KernelExcludes
<1> QED
  BY <1>1, <1>2, <1>3, <1>4, <1>5, <1>8, <1>9

LEMMA DeathKeeps ==
  ASSUME ReservationInv, NEW p \in Process, Dies(p)
  PROVE  ReservationInv'
<1> USE DEF ReservationInv, ReservationTypes, Dies
<1>0. \A s \in Run : /\ rpc'[s] = IF ProcessOf[s] = p THEN "dead" ELSE rpc[s]
                     /\ Live(s)' <=> Live(s) /\ ProcessOf[s] # p
                     /\ Active(s)' <=> Active(s) /\ ProcessOf[s] # p
  BY DEF Live, Active, Runs
<1>1. ReservationTypes'
  <2>1. rpc' \in [Run -> {"idle", "locking", "held", "dead"}]
    OBVIOUS
  <2> QED
    BY <2>1
<1>2. Phases'
  BY <1>0 DEF Phases, Peers, Requests
<1>3. TableFollowsRuns' /\ PeersDisjoint'
  BY <1>0 DEF TableFollowsRuns, PeersDisjoint, Peers, Overlap
<1>4. HoldersCounted'
  <2>1. \A q, path : Lockers(q, path)' = Lockers(q, path)
    BY DEF Lockers, Runs
  <2> QED
    BY <1>0, <2>1 DEF HoldersCounted, Runs
<1>5. RangesMatch'
  <2>1. ASSUME NEW s \in Run, Live(s)', NEW path \in taken[s]
        PROVE  <<ProcessOf[s], path, Mode(s, path)>> \in ranges'
    <3>1. Live(s) /\ ProcessOf[s] # p
      BY <1>0, <2>1
    <3>2. <<ProcessOf[s], path, Mode(s, path)>> \in ranges
      BY <2>1, <3>1 DEF RangesMatch
    <3> QED
      BY <3>1, <3>2
  <2>2. ASSUME NEW g \in ranges' PROVE \E s \in Runs(g[1]) : Live(s)' /\ g[2] \in taken[s]
    <3>1. g \in ranges /\ g[1] # p
      OBVIOUS
    <3>2. PICK s \in Runs(g[1]) : Live(s) /\ g[2] \in taken[s]
      BY <3>1 DEF RangesMatch
    <3> QED
      BY <1>0, <3>1, <3>2 DEF Runs
  <2> QED
    BY <2>1, <2>2 DEF RangesMatch, Runs, Mode
<1>6. KernelExcludes'
  BY DEF KernelExcludes
<1> QED
  BY <1>1, <1>2, <1>3, <1>4, <1>5, <1>6

LEMMA ReservationInductive == ReservationSpec => []ReservationInv
<1>1. ReservationInv /\ [ReservationNext]_rvars => ReservationInv'
  <2> SUFFICES ASSUME ReservationInv, [ReservationNext]_rvars PROVE ReservationInv'
    OBVIOUS
  <2>1. ASSUME NEW r \in Run, GivesUpLocking(r) PROVE ReservationInv'
    BY <2>1, ReleaseKeeps DEF GivesUpLocking, Active
  <2>2. ASSUME NEW r \in Run, ReleasesRun(r) PROVE ReservationInv'
    BY <2>2, ReleaseKeeps DEF ReleasesRun, Active
  <2>3. CASE UNCHANGED rvars
    <3> USE <2>3 DEF rvars, ReservationInv
    <3>1. ReservationTypes' /\ TableFollowsRuns' /\ KernelExcludes'
      BY DEF ReservationTypes, TableFollowsRuns, KernelExcludes
    <3>2. Phases' /\ PeersDisjoint'
      BY DEF Phases, PeersDisjoint, Peers, Requests, Live, Active, Overlap
    <3>3. HoldersCounted'
      BY DEF HoldersCounted, Lockers, Live, Runs
    <3>4. RangesMatch'
      BY DEF RangesMatch, Live, Runs, Mode
    <3> QED
      BY <3>1, <3>2, <3>3, <3>4
  <2> QED
    BY <2>1, <2>2, <2>3, StartKeeps, LockKeeps, HoldKeeps, DeathKeeps DEF ReservationNext
<1> QED
  BY InitReservation, <1>1, PTL DEF ReservationSpec

-----------------------------------------------------------------------------
\* Two runs that hold their reservations have no artifact in common and none
\* inside an artifact of the other (_ArtifactReservation.acquire), whether they
\* are of one process, where the table keeps them apart, or of two, where the
\* kernel does.
THEOREM HoldersDisjoint == ReservationSpec => []ReservationsDisjoint
<1>1. ReservationInv => ReservationsDisjoint
  <2> SUFFICES ASSUME ReservationInv, NEW r \in Run, NEW s \in Run, r # s,
                      rpc[r] = "held", rpc[s] = "held",
                      NEW a \in Outputs[r], NEW b \in Outputs[s], Overlap(a, b)
               PROVE  FALSE
    BY DEF ReservationsDisjoint
  <2> USE DEF ReservationInv, ReservationTypes
  <2>1. CASE Peers(r, s)
    BY <2>1 DEF PeersDisjoint, Active
  <2>2. CASE ~Peers(r, s)
    <3>0. Live(r) /\ Live(s) /\ ProcessOf[r] # ProcessOf[s] /\ a \in Path /\ b \in Path
      BY <2>2, ReservationConstants DEF Live, Peers
    <3>1. taken[r] = Requests(r) /\ taken[s] = Requests(s)
      BY DEF Phases
    <3>2. ASSUME NEW u \in Run, NEW v \in Run, Live(u), Live(v), ProcessOf[u] # ProcessOf[v],
                 NEW path \in taken[u] \cap taken[v]
          PROVE  Mode(u, path) = "LOCK_SH"
      <4>1. /\ <<ProcessOf[u], path, Mode(u, path)>> \in ranges
            /\ <<ProcessOf[v], path, Mode(v, path)>> \in ranges
        BY <3>2 DEF RangesMatch
      <4> QED
        BY <3>2, <4>1 DEF KernelExcludes
    <3>3. CASE a \in Requests(s)
      BY <3>0, <3>1, <3>2, <3>3 DEF Requests, Mode
    <3>4. CASE b \in Requests(r)
      BY <3>0, <3>1, <3>2, <3>4 DEF Requests, Mode
    <3> QED
      BY <3>0, <3>3, <3>4 DEF Overlap, Requests
  <2> QED
    BY <2>1, <2>2
<1> QED
  BY ReservationInductive, <1>1, PTL

\* The kernel has exactly the locks of the runs that live: nothing stays locked
\* after a refusal or a release, and no release takes what another run needs.
THEOREM RangesAreThoseOfRuns == ReservationSpec => []RangesFollowRuns
<1>1. ReservationInv => RangesFollowRuns
  <2> SUFFICES ASSUME ReservationInv, NEW p \in Process
               PROVE  {range[2] : range \in {g \in ranges : g[1] = p}}
                        = UNION {taken[r] : r \in {s \in Runs(p) : rpc[s] # "dead"}}
    BY DEF RangesFollowRuns
  <2> DEFINE Locked == {range[2] : range \in {g \in ranges : g[1] = p}}
             Needed == UNION {taken[r] : r \in {s \in Runs(p) : rpc[s] # "dead"}}
  <2> USE DEF ReservationInv, RangesMatch, Live, Runs
  <2>1. ASSUME NEW path \in Locked PROVE path \in Needed
    <3>1. PICK g \in ranges : g[1] = p /\ g[2] = path
      OBVIOUS
    <3>2. PICK s \in Runs(p) : Live(s) /\ path \in taken[s]
      BY <3>1
    <3> QED
      BY <3>2
  <2>2. ASSUME NEW path \in Needed PROVE path \in Locked
    <3>1. PICK s \in Runs(p) : Live(s) /\ path \in taken[s]
      OBVIOUS
    <3>2. <<p, path, Mode(s, path)>> \in ranges
      BY <3>1
    <3> QED
      BY <3>2
  <2> QED
    BY <2>1, <2>2
<1> QED
  BY ReservationInductive, <1>1, PTL

-----------------------------------------------------------------------------
(* The window buffer *)

\* What the greater and the smaller of two numbers are.
LEMMA MaxOfTwo == \A a, b \in Int : Max({a, b}) = IF a >= b THEN a ELSE b
BY DEF Max

LEMMA MinOfTwo == \A a, b \in Int : Min({a, b}) = IF a <= b THEN a ELSE b
BY DEF Min

WindowPlaces == {"new", "idle", "feeding", "flushing", "over"}

\* The buffer is one that can be made, and counts frames.
BufferOK ==
  /\ buffer.window \in Nat /\ buffer.trim \in Nat /\ buffer.minimum \in Nat
  /\ buffer.gop => buffer.trim = 2 /\ 1 <= buffer.minimum /\ buffer.minimum <= buffer.window
  /\ ~buffer.gop => buffer.window > 2 * buffer.trim
  /\ wpc \in WindowPlaces
  /\ base \in Nat /\ total \in Nat /\ emit \in Nat /\ anchor \in Nat

\* A new buffer has no frames.
Unfed == wpc = "new" => total = 0 /\ emit = 0 /\ anchor = 0 /\ base = 0

\* The frames emitted are frames that came, and the group began with one of them.
Reached == anchor <= emit /\ emit <= total

\* A GOP buffer keeps what its next window starts with; between two calls there
\* is a frame that is not emitted, and not so many that a window would be due.
GopPlaces ==
  buffer.gop =>
    /\ base = GopStart
    /\ total > 0 => emit < total
                    \/ wpc = "over"
    /\ wpc = "idle" => total <= emit + buffer.window + 1
    /\ wpc = "feeding" => total > 0 /\ total <= emit + buffer.window + 2
    /\ wpc = "feeding" /\ eligible => emit < total - 1

\* A fixed buffer keeps no less than the windows to come start with, and no more
\* than a window between two calls.
FixedPlaces ==
  ~buffer.gop =>
    /\ base <= FixedKeep
    /\ wpc \in {"idle", "flushing"} => total < FixedStart + buffer.window
    /\ wpc = "idle" => total - base <= buffer.window

WindowInv ==
  /\ BufferOK /\ Unfed /\ Reached /\ GopPlaces /\ FixedPlaces
  /\ last # NoWindow => last.from < last.to
  /\ wpc = "over" => emit = total

\* Where the windows start, in numbers.
StartsAre ==
  /\ GopStart = IF emit = anchor THEN emit
                ELSE IF anchor >= emit - buffer.trim THEN anchor ELSE emit - buffer.trim
  /\ FixedStart = IF emit >= buffer.trim THEN emit - buffer.trim ELSE 0
  /\ FixedKeep = IF emit >= buffer.trim /\ total >= buffer.window
                 THEN IF emit - buffer.trim <= total - buffer.window
                      THEN emit - buffer.trim ELSE total - buffer.window
                 ELSE 0

LEMMA Starts == BufferOK => StartsAre
<1> SUFFICES ASSUME BufferOK PROVE StartsAre
  OBVIOUS
<1>1. \A a, b \in Int : Max({a, b}) = IF a >= b THEN a ELSE b
  BY MaxOfTwo
<1>2. \A a, b \in Int : Min({a, b}) = IF a <= b THEN a ELSE b
  BY MinOfTwo
<1>3. /\ emit - buffer.trim \in Int /\ total - buffer.window \in Int /\ anchor \in Int /\ 0 \in Int
  BY DEF BufferOK
<1>4. Max({anchor, emit - buffer.trim})
        = IF anchor >= emit - buffer.trim THEN anchor ELSE emit - buffer.trim
  BY <1>1, <1>3
<1>5. Max({0, emit - buffer.trim}) = IF 0 >= emit - buffer.trim THEN 0 ELSE emit - buffer.trim
  BY <1>1, <1>3
<1>6. Min({emit - buffer.trim, total - buffer.window})
        = IF emit - buffer.trim <= total - buffer.window THEN emit - buffer.trim
          ELSE total - buffer.window
  BY <1>2, <1>3
<1>7. FixedKeep = IF 0 >= Min({emit - buffer.trim, total - buffer.window}) THEN 0
                  ELSE Min({emit - buffer.trim, total - buffer.window})
  BY <1>1, <1>3, <1>6 DEF FixedKeep
<1> QED
  BY <1>3, <1>4, <1>5, <1>6, <1>7 DEF BufferOK, GopStart, FixedStart, StartsAre

\* Where a split takes its context from.
LEMMA SplitEnd ==
  ASSUME BufferOK
  PROVE  Min({total, Forced + buffer.trim})
           = IF total <= Forced + buffer.trim THEN total ELSE Forced + buffer.trim
<1>1. total \in Int /\ Forced + buffer.trim \in Int
  BY DEF BufferOK, Forced
<1> QED
  BY <1>1, MinOfTwo

\* What a window leaves behind.
LEMMA Ran ==
  ASSUME BufferOK, NEW start, NEW end, NEW to \in Nat, NEW anchored \in BOOLEAN, NEW cut,
         RunWindow(start, end, to, anchored, cut), emit < to,
         buffer.gop => base = GopStart, anchor <= emit
  PROVE  /\ UNCHANGED <<buffer, total, eligible>>
         /\ last' = [start |-> start, end |-> end, from |-> emit, to |-> to, cut |-> cut]
         /\ last'.from < last'.to
         /\ emit' = to /\ anchor' = IF anchored THEN to ELSE anchor
         /\ ~buffer.gop => base' = base
         /\ buffer.gop => base' = IF to = anchor' THEN to
                                  ELSE IF anchor' >= to - buffer.trim THEN anchor'
                                  ELSE to - buffer.trim
<1>1. /\ UNCHANGED <<buffer, total, eligible>>
      /\ last' = [start |-> start, end |-> end, from |-> emit, to |-> to, cut |-> cut]
      /\ emit' = to /\ anchor' = IF anchored THEN to ELSE anchor
      /\ ~buffer.gop => base' = base
  BY DEF RunWindow
<1>2. ASSUME buffer.gop
      PROVE  base' = IF to = anchor' THEN to
                     ELSE IF anchor' >= to - buffer.trim THEN anchor' ELSE to - buffer.trim
  <2> DEFINE keep == IF to = anchor' THEN to
                     ELSE IF anchor' >= to - buffer.trim THEN anchor' ELSE to - buffer.trim
  <2>1. anchor' \in Int /\ to - buffer.trim \in Int /\ base \in Int
    BY <1>1 DEF BufferOK
  <2>2. Max({anchor', to - buffer.trim})
          = IF anchor' >= to - buffer.trim THEN anchor' ELSE to - buffer.trim
    BY <2>1, MaxOfTwo
  <2>3. base' = Max({base, keep})
    BY <1>2, <2>2 DEF RunWindow, Discarded
  <2>4. keep \in Int /\ base <= keep
    BY <1>1, <1>2, <2>1, Starts DEF BufferOK, StartsAre
  <2>5. Max({base, keep}) = keep
    <3>1. \A n \in Int : base <= n => Max({base, n}) = n
      BY <2>1, MaxOfTwo
    <3> HIDE DEF keep
    <3> QED
      BY <2>4, <3>1
  <2> QED
    BY <2>3, <2>5
<1> QED
  BY <1>1, <1>2

LEMMA InitWindow == WindowInit => WindowInv
<1> SUFFICES ASSUME WindowInit PROVE WindowInv
  OBVIOUS
<1>1. BufferOK
  BY DEF WindowInit, BufferOK, WindowPlaces
<1>2. GopPlaces
  BY DEF WindowInit, GopPlaces
<1> QED
  BY <1>1, <1>2, Starts
  DEF WindowInit, WindowInv, Unfed, Reached, FixedPlaces, StartsAre

LEMMA StartsNext == BufferOK' => StartsAre'
BY Starts, PTL

\* Every step keeps the invariant.
LEMMA WindowStep ==
  ASSUME WindowInv, [WindowNext]_wvars
  PROVE  WindowInv'
<1> SUFFICES BufferOK' /\ (BufferOK' /\ StartsAre' => WindowInv')
  BY StartsNext
<1>1. BufferOK /\ Unfed /\ Reached /\ GopPlaces /\ FixedPlaces /\ StartsAre
      /\ (last # NoWindow => last.from < last.to) /\ (wpc = "over" => emit = total)
  BY Starts DEF WindowInv
<1>2. buffer.gop => base = GopStart
  BY <1>1 DEF GopPlaces
<1> USE DEF BufferOK, Unfed, Reached, GopPlaces, FixedPlaces, StartsAre, WindowInv, WindowPlaces
<1>3. CASE Opens
  <2>1. buffer' \in Buffers
    BY <1>3 DEF Opens
  <2>2. /\ {buffer'.window, buffer'.trim, buffer'.minimum} \subseteq Nat
        /\ IF buffer'.gop THEN /\ buffer'.trim = GopSplitTrim
                               /\ 1 <= buffer'.minimum /\ buffer'.minimum <= buffer'.window
           ELSE buffer'.window > 2 * buffer'.trim
    BY <2>1, WindowConstants
  <2> QED
    BY <1>1, <1>3, <2>2 DEF Opens, GopSplitTrim
<1>4. CASE Feeds
  <2>1. /\ UNCHANGED <<buffer, base, emit, anchor, last>> /\ wpc = "idle" /\ wpc' = "feeding"
        /\ total' = total + 1 /\ (eligible' => buffer.gop /\ total - anchor >= buffer.minimum)
    BY <1>4 DEF Feeds
  <2>2. CASE buffer.gop
    BY <1>1, <2>1, <2>2
  <2>3. CASE ~buffer.gop
    BY <1>1, <2>1, <2>3
  <2> QED
    BY <2>2, <2>3
<1>5. CASE ClosesGroup
  <2>1. /\ Position \in Nat /\ emit < Position /\ buffer.gop /\ wpc' = "idle"
        /\ wpc = "feeding" /\ Position = total - 1
    BY <1>1, <1>5 DEF ClosesGroup, Position
  <2>2. /\ UNCHANGED <<buffer, total, eligible>> /\ last'.from < last'.to
        /\ emit' = Position /\ anchor' = Position /\ base' = Position
    <3> HIDE DEF BufferOK, Unfed, Reached, GopPlaces, FixedPlaces, StartsAre, WindowInv
    <3>1. RunWindow(GopStart, Position + 1, Position, TRUE, TRUE)
      BY <1>5 DEF ClosesGroup
    <3>2. BufferOK /\ anchor <= emit
      BY ONLY <1>1 DEF Reached
    <3> QED
      BY ONLY <1>2, <2>1, <3>1, <3>2, Ran
  <2> QED
    BY <1>1, <2>1, <2>2
<1>6. CASE SplitsBeforeSync
  <2>1. /\ Forced \in Nat /\ emit < Forced /\ buffer.gop /\ wpc' = wpc /\ wpc = "feeding"
        /\ Forced = emit + buffer.window
        /\ Forced < total - 1
    BY <1>1, <1>6 DEF SplitsBeforeSync, Forced, Position, ContextCame
  <2>2. RunWindow(GopStart, Position, Forced, FALSE, TRUE)
    BY <1>6 DEF SplitsBeforeSync
  <2>3. /\ UNCHANGED <<buffer, total, eligible>> /\ last'.from < last'.to
        /\ emit' = Forced /\ anchor' = anchor
        /\ base' = IF Forced = anchor THEN Forced
                   ELSE IF anchor >= Forced - buffer.trim THEN anchor ELSE Forced - buffer.trim
    <3> HIDE DEF BufferOK, Unfed, Reached, GopPlaces, FixedPlaces, StartsAre, WindowInv
    <3>1. BufferOK /\ anchor <= emit
      BY ONLY <1>1 DEF Reached
    <3> QED
      BY ONLY <1>2, <2>1, <2>2, <3>1, Ran
  <2> QED
    BY <1>1, <2>1, <2>3
<1>7. CASE SplitsWithContext
  <2>1. /\ Forced \in Nat /\ emit < Forced /\ buffer.gop /\ wpc' = wpc /\ wpc = "feeding"
        /\ Forced = emit + buffer.window
        /\ Forced + buffer.trim <= total /\ ~eligible
    BY <1>1, <1>7 DEF SplitsWithContext, Forced, Position, ContextCame
  <2>2. RunWindow(GopStart, Min({total, Forced + buffer.trim}), Forced, FALSE, FALSE)
    BY <1>7 DEF SplitsWithContext
  <2>3. /\ UNCHANGED <<buffer, total, eligible>> /\ last'.from < last'.to
        /\ emit' = Forced /\ anchor' = anchor
        /\ base' = IF Forced = anchor THEN Forced
                   ELSE IF anchor >= Forced - buffer.trim THEN anchor ELSE Forced - buffer.trim
    <3> HIDE DEF BufferOK, Unfed, Reached, GopPlaces, FixedPlaces, StartsAre, WindowInv
    <3>1. BufferOK /\ anchor <= emit
      BY ONLY <1>1 DEF Reached
    <3> QED
      BY ONLY <1>2, <2>1, <2>2, <3>1, Ran
  <2> QED
    BY <1>1, <2>1, <2>3
<1>8. CASE GopFed
  BY <1>1, <1>8 DEF GopFed, ContextCame, Forced
<1>9. CASE Slides
  <2> DEFINE to == FixedStart + buffer.window - buffer.trim
  <2>1. /\ to \in Nat /\ emit < to /\ to <= total /\ ~buffer.gop /\ wpc = "feeding" /\ wpc' = wpc
    BY <1>1, <1>9 DEF Slides
  <2>2. RunWindow(FixedStart, FixedStart + buffer.window, to, FALSE, FALSE)
    BY <1>9 DEF Slides
  <2>3. /\ UNCHANGED <<buffer, total, eligible, base>> /\ last'.from < last'.to
        /\ emit' = to /\ anchor' = anchor
    <3> HIDE DEF to
    <3> QED
      BY ONLY <1>1, <1>2, <2>1, <2>2, Ran
  <2> QED
    BY <1>1, <2>1, <2>3
<1>10. CASE FixedFed
  BY <1>1, <1>10, MaxOfTwo DEF FixedFed, Discarded
<1>11. CASE Flushes
  BY <1>1, <1>11 DEF Flushes
<1>12. CASE FlushSplits
  <2>1. /\ Forced \in Nat /\ emit < Forced /\ buffer.gop /\ wpc' = wpc /\ wpc = "flushing"
        /\ Forced = emit + buffer.window
        /\ Forced < total
    BY <1>1, <1>12 DEF FlushSplits, Forced, Position, ContextCame
  <2>2. RunWindow(GopStart, Min({total, Forced + buffer.trim}), Forced, FALSE, FALSE)
    BY <1>12 DEF FlushSplits
  <2>3. /\ UNCHANGED <<buffer, total, eligible>> /\ last'.from < last'.to
        /\ emit' = Forced /\ anchor' = anchor
        /\ base' = IF Forced = anchor THEN Forced
                   ELSE IF anchor >= Forced - buffer.trim THEN anchor ELSE Forced - buffer.trim
    <3> HIDE DEF BufferOK, Unfed, Reached, GopPlaces, FixedPlaces, StartsAre, WindowInv
    <3>1. BufferOK /\ anchor <= emit
      BY ONLY <1>1 DEF Reached
    <3> QED
      BY ONLY <1>2, <2>1, <2>2, <3>1, Ran
  <2> QED
    BY <1>1, <2>1, <2>3
<1>13. CASE FlushEndsStream
  <2>1. /\ wpc = "flushing" /\ emit < total /\ wpc' = "over" /\ total \in Nat
        /\ \E start : RunWindow(start, total, total, FALSE, FALSE)
    BY <1>1, <1>13 DEF FlushEndsStream, LastEnd
  <2>0. PICK start : RunWindow(start, total, total, FALSE, FALSE)
    BY ONLY <2>1
  <2>2. /\ UNCHANGED <<buffer, total, eligible>> /\ last'.from < last'.to
        /\ emit' = total /\ anchor' = anchor
        /\ ~buffer.gop => base' = base
        /\ buffer.gop => base' = IF total = anchor THEN total
                                 ELSE IF anchor >= total - buffer.trim THEN anchor
                                 ELSE total - buffer.trim
    <3> HIDE DEF BufferOK, Unfed, Reached, GopPlaces, FixedPlaces, StartsAre, WindowInv
    <3>1. BufferOK /\ anchor <= emit
      BY ONLY <1>1 DEF Reached
    <3>2. FALSE \in BOOLEAN /\ total \in Nat /\ emit < total
      BY ONLY <2>1
    <3>3. buffer.gop => base = GopStart
      BY ONLY <1>2
    <3>4. /\ UNCHANGED <<buffer, total, eligible>> /\ last'.from < last'.to
          /\ emit' = total /\ anchor' = IF FALSE THEN total ELSE anchor
          /\ ~buffer.gop => base' = base
          /\ buffer.gop => base' = IF total = anchor' THEN total
                                   ELSE IF anchor' >= total - buffer.trim THEN anchor'
                                   ELSE total - buffer.trim
      BY ONLY <2>0, <3>1, <3>2, <3>3, Ran
    <3>5. anchor' = anchor
      BY ONLY <3>4
    <3> QED
      BY ONLY <3>4, <3>5
  <2> QED
    BY <1>1, <2>1, <2>2
<1>14. CASE FlushesNothing
  BY <1>1, <1>14 DEF FlushesNothing
<1>15. CASE Resets
  BY <1>1, <1>15 DEF Resets
<1>16. CASE UNCHANGED wvars
  BY <1>1, <1>16 DEF wvars
<1> HIDE DEF BufferOK, Unfed, Reached, GopPlaces, FixedPlaces, StartsAre, WindowInv, WindowPlaces
<1> QED
  BY <1>3, <1>4, <1>5, <1>6, <1>7, <1>8, <1>9, <1>10, <1>11, <1>12, <1>13, <1>14, <1>15, <1>16
  DEF WindowNext

LEMMA WindowInductive == WindowSpec => []WindowInv
<1>1. WindowInv /\ [WindowNext]_wvars => WindowInv'
  BY WindowStep
<1> QED
  BY InitWindow, <1>1, PTL DEF WindowSpec

\* Every frame is emitted once and the frames kept are bounded, for every window,
\* trim and group length and every stream: no window is run for nothing, and a
\* flush leaves no frame behind (window_buffer.py, feed, flush and _run).
THEOREM EveryFrameEmitted == WindowSpec => []EmitsAll
<1>1. WindowInv => EmitsAll
  <2> SUFFICES ASSUME WindowInv PROVE EmitsAll
    OBVIOUS
  <2>1. ASSUME wpc = "idle"
        PROVE  total - base <= buffer.window + (IF buffer.gop THEN 2 * buffer.trim - 1 ELSE 0)
    <3>1. CASE buffer.gop
      BY <2>1, <3>1, Starts DEF WindowInv, BufferOK, Reached, GopPlaces, StartsAre
    <3>2. CASE ~buffer.gop
      BY <2>1, <3>2 DEF WindowInv, BufferOK, FixedPlaces
    <3> QED
      BY <3>1, <3>2
  <2> QED
    BY <2>1 DEF WindowInv, EmitsAll
<1> QED
  BY <1>1, WindowInductive, PTL

\* What a window emits has its context on both sides, unless the group or the
\* stream begins or ends there, and lies within the frames that are kept.
THEOREM EveryWindowHasContext == WindowSpec => WindowsHaveContext
<1> DEFINE Contextual ==
      wpc \in {"feeding", "flushing"} /\ last' # last =>
        /\ base <= last'.start /\ last'.start <= last'.from
        /\ last'.to <= last'.end /\ last'.end <= total
        /\ last'.from - last'.start >= buffer.trim \/ last'.start \in {0, anchor}
        /\ \/ last'.end - last'.to >= buffer.trim \/ last'.cut
           \/ wpc = "flushing" /\ last'.end = total
<1>1. ASSUME WindowInv, [WindowNext]_wvars PROVE Contextual
  <2> SUFFICES ASSUME wpc \in {"feeding", "flushing"}, last' # last PROVE Contextual
    OBVIOUS
  <2>1. BufferOK /\ Reached /\ GopPlaces /\ FixedPlaces /\ StartsAre
    BY <1>1, Starts DEF WindowInv
  <2>2. ASSUME NEW start, NEW end, NEW to, NEW anchored, NEW cut,
               RunWindow(start, end, to, anchored, cut)
        PROVE  /\ last'.start = start /\ last'.end = end /\ last'.from = emit
               /\ last'.to = to /\ last'.cut = cut
    BY <2>2 DEF RunWindow
  <2> USE DEF BufferOK, Reached, GopPlaces, FixedPlaces, StartsAre
  <2>3. buffer.gop => /\ base = GopStart /\ GopStart <= emit
                      /\ emit - GopStart >= buffer.trim \/ GopStart = anchor
    BY <2>1
  <2>4. CASE ClosesGroup
    <3>1. Position \in Int /\ Position + 1 = total /\ buffer.gop
      BY <2>1, <2>4 DEF ClosesGroup, Position
    <3>2. RunWindow(GopStart, Position + 1, Position, TRUE, TRUE)
      BY <2>4 DEF ClosesGroup
    <3>3. /\ last'.start = GopStart /\ last'.end = Position + 1 /\ last'.from = emit
          /\ last'.to = Position /\ last'.cut
      BY ONLY <2>2, <3>2
    <3> QED
      BY ONLY <2>1, <2>3, <3>1, <3>3
  <2>5. CASE SplitsBeforeSync
    <3>1. /\ Forced \in Int /\ Position \in Int /\ Forced <= Position /\ Position <= total
          /\ buffer.gop
      BY <2>1, <2>5 DEF SplitsBeforeSync, Position, Forced
    <3>2. RunWindow(GopStart, Position, Forced, FALSE, TRUE)
      BY <2>5 DEF SplitsBeforeSync
    <3>3. /\ last'.start = GopStart /\ last'.end = Position /\ last'.from = emit
          /\ last'.to = Forced /\ last'.cut
      BY ONLY <2>2, <3>2
    <3> QED
      BY ONLY <2>1, <2>3, <3>1, <3>3
  <2>6. CASE SplitsWithContext \/ FlushSplits
    <3>1. RunWindow(GopStart, Min({total, Forced + buffer.trim}), Forced, FALSE, FALSE)
      BY <2>6 DEF SplitsWithContext, FlushSplits
    <3>2. /\ Forced \in Int /\ Forced <= total /\ buffer.gop
          /\ wpc = "flushing" \/ Forced + buffer.trim <= total
      <4>1. CASE SplitsWithContext
        BY <2>1, <4>1 DEF SplitsWithContext, ContextCame, Forced
      <4>2. CASE FlushSplits
        BY <2>1, <4>2 DEF FlushSplits, Forced
      <4> QED
        BY <2>6, <4>1, <4>2
    <3>3. /\ last'.start = GopStart /\ last'.from = emit /\ last'.to = Forced
          /\ last'.end = IF total <= Forced + buffer.trim THEN total ELSE Forced + buffer.trim
      BY <2>1, <2>2, <3>1, SplitEnd
    <3> QED
      BY ONLY <2>1, <2>3, <3>2, <3>3
  <2>7. CASE Slides
    <3>1. RunWindow(FixedStart, FixedStart + buffer.window,
                    FixedStart + buffer.window - buffer.trim, FALSE, FALSE)
      BY <2>7 DEF Slides
    <3>2. /\ last'.start = FixedStart /\ last'.end = FixedStart + buffer.window
          /\ last'.from = emit /\ last'.to = FixedStart + buffer.window - buffer.trim
      BY <2>2, <3>1
    <3> QED
      BY <2>1, <2>7, <3>2 DEF Slides
  <2>8. CASE FlushEndsStream
    <3>1. PICK start : /\ start = IF buffer.gop THEN GopStart ELSE FixedKeep
                       /\ RunWindow(start, total, total, FALSE, FALSE) /\ wpc = "flushing"
      BY <2>8 DEF FlushEndsStream, LastEnd
    <3>2. last'.start = start /\ last'.end = total /\ last'.from = emit /\ last'.to = total
      BY ONLY <3>1 DEF RunWindow
    <3>3. ~buffer.gop => /\ base <= FixedKeep /\ FixedKeep <= emit
                         /\ emit - FixedKeep >= buffer.trim \/ FixedKeep = 0
      BY <2>1
    <3> QED
      BY ONLY <2>1, <2>3, <3>1, <3>2, <3>3
  <2> QED
    BY <1>1, <2>4, <2>5, <2>6, <2>7, <2>8
    DEF WindowNext, wvars, Opens, Feeds, GopFed, FixedFed, Flushes, FlushesNothing, Resets
<1> QED
  BY <1>1, WindowInductive, PTL DEF WindowSpec, WindowsHaveContext

-----------------------------------------------------------------------------
(* The optical-flow services *)

\* A set of numbers has a least one.
LEMMA Least ==
  ASSUME NEW T, T \subseteq Nat, T # {}
  PROVE  \E x \in T : \A y \in T : x <= y
<1> DEFINE R == {ss \in Nat \X Nat : ss[1] < ss[2]}
<1>1. IsWellFoundedOn(R, Nat)
  BY NatLessThanWellFounded DEF OpToRel
<1>2. PICK x \in T : \A y \in T : ~(<<y, x>> \in R)
  <2> HIDE DEF R
  <2> QED
    BY <1>1, WFMin
<1>3. \A y \in T : ~(y < x)
  BY <1>2
<1> QED
  BY <1>3

\* What is left of a sequence.
LEMMA Removal ==
  ASSUME NEW S, NEW s \in Seq(S), NEW i \in 1..Len(s)
  PROVE  /\ RemoveAt(s, i) \in Seq(S) /\ Len(RemoveAt(s, i)) = Len(s) - 1
         /\ \A j \in 1..(Len(s) - 1) : RemoveAt(s, i)[j] = IF j < i THEN s[j] ELSE s[j + 1]
<1> DEFINE a == SubSeq(s, 1, i - 1)
           b == SubSeq(s, i + 1, Len(s))
<1>1. a \in Seq(S) /\ Len(a) = i - 1 /\ \A j \in 1..(i - 1) : a[j] = s[j]
  OBVIOUS
<1>2. b \in Seq(S) /\ Len(b) = Len(s) - i /\ \A j \in 1..(Len(s) - i) : b[j] = s[j + i]
  OBVIOUS
<1>3. RemoveAt(s, i) = a \o b
  BY DEF RemoveAt
<1> HIDE DEF a, b
<1>4. a \o b \in Seq(S) /\ Len(a \o b) = Len(s) - 1
  <2>1. a \in Seq(S) /\ b \in Seq(S) /\ Len(a) = i - 1 /\ Len(b) = Len(s) - i
    BY <1>1, <1>2
  <2>2. a \o b \in Seq(S)
    BY ONLY <2>1
  <2>3. Len(a \o b) = Len(a) + Len(b)
    BY ONLY <2>1
  <2> QED
    BY <2>1, <2>2, <2>3
<1>5. ASSUME NEW j \in 1..(Len(s) - 1), j < i
      PROVE  (a \o b)[j] = s[j]
  BY <1>1, <1>2, <1>5
<1>6. ASSUME NEW j \in 1..(Len(s) - 1), ~(j < i)
      PROVE  (a \o b)[j] = s[j + 1]
  <2>1. (a \o b)[j] = b[j - (i - 1)] /\ j - (i - 1) \in 1..(Len(s) - i)
    BY <1>1, <1>2, <1>6
  <2> QED
    BY <1>2, <2>1
<1> QED
  BY <1>3, <1>4, <1>5, <1>6

\* An index that a lookup finds is one of an entry for the key.
LEMMA EntryFound ==
  ASSUME NEW S, services \in Seq(S), NEW k
  PROVE  /\ Entry(k) \in 0..Len(services)
         /\ Entry(k) # 0 => services[Entry(k)].key = k
<1> DEFINE I == {i \in 1..Len(services) : services[i].key = k}
<1>1. Entry(k) = IF I # {} THEN Min(I) ELSE 0
  BY DEF Entry, SelectInSeq
<1>2. ASSUME I # {} PROVE Min(I) \in I
  <2>1. \E x \in I : \A y \in I : x <= y
    <3>1. I \subseteq Nat
      OBVIOUS
    <3> HIDE DEF I
    <3> QED
      BY <1>2, <3>1, Least
  <2> QED
    BY <2>1 DEF Min
<1> QED
  BY <1>1, <1>2

\* ... and one of an entry that nobody borrows.
LEMMA IdleFound ==
  ASSUME NEW S, services \in Seq(S)
  PROVE  /\ IdleEntry \in 0..Len(services)
         /\ IdleEntry # 0 => ~services[IdleEntry].borrowed
<1> DEFINE I == {i \in 1..Len(services) : ~services[i].borrowed}
<1>1. IdleEntry = IF I # {} THEN Min(I) ELSE 0
  BY DEF IdleEntry, SelectInSeq
<1>2. ASSUME I # {} PROVE Min(I) \in I
  <2>1. \E x \in I : \A y \in I : x <= y
    <3>1. I \subseteq Nat
      OBVIOUS
    <3> HIDE DEF I
    <3> QED
      BY <1>2, <3>1, Least
  <2> QED
    BY <2>1 DEF Min
<1> QED
  BY <1>1, <1>2

Service == [key : Geometry, id : Nat, borrowed : BOOLEAN]

\* No two entries of the cache are for one service.
Distinct(s) == \A m, n \in DOMAIN s : s[m].id = s[n].id => m = n

\* The service is in the cache; it is there and borrowed.
Caches(s, id) == \E n \in DOMAIN s : s[n].id = id
Lends(s, id)  == \E n \in DOMAIN s : s[n].id = id /\ s[n].borrowed

\* A thread at one of these places holds the service; no two of them the same one.
Borrowed(places, id) == \E t \in Borrower : lease[t].at \in places /\ lease[t].id = id
Once(places) ==
  \A t, u \in Borrower :
    lease[t].at \in places /\ lease[u].at \in places /\ lease[t].id = lease[u].id => t = u

\* The thread has made the service, or has taken it out of the cache to close it.
Keeping == {"publish", "evict"}
Leasing == {"leased"}

LEMMA TakingOut ==
  ASSUME NEW s \in Seq(Service), Distinct(s), NEW n \in 1..Len(s)
  PROVE  /\ RemoveAt(s, n) \in Seq(Service) /\ Distinct(RemoveAt(s, n))
         /\ \A id : Caches(RemoveAt(s, n), id) <=> Caches(s, id) /\ id # s[n].id
         /\ \A id : Lends(RemoveAt(s, n), id) <=> Lends(s, id) /\ id # s[n].id
<1> DEFINE r == RemoveAt(s, n)
<1>1. /\ r \in Seq(Service) /\ Len(r) = Len(s) - 1 /\ Len(s) \in Nat
      /\ \A j \in 1..(Len(s) - 1) : r[j] = IF j < n THEN s[j] ELSE s[j + 1]
  BY Removal
<1> HIDE DEF r
<1>2. DOMAIN r = 1..(Len(s) - 1) /\ DOMAIN s = 1..Len(s)
  BY <1>1
<1>3. Distinct(r)
  <2> SUFFICES ASSUME NEW i \in DOMAIN r, NEW j \in DOMAIN r, r[i].id = r[j].id
               PROVE  i = j
    BY DEF Distinct
  <2> DEFINE from(m) == IF m < n THEN m ELSE m + 1
  <2>1. /\ from(i) \in DOMAIN s /\ r[i] = s[from(i)]
        /\ from(j) \in DOMAIN s /\ r[j] = s[from(j)]
    BY <1>1, <1>2
  <2>2. from(i) = from(j)
    <3> HIDE DEF from
    <3> QED
      BY <2>1 DEF Distinct
  <2> QED
    BY <1>1, <1>2, <2>2
<1>4. ASSUME NEW m \in DOMAIN s, m # n
      PROVE  \E j \in DOMAIN r : r[j] = s[m]
  <2>1. CASE m < n
    BY <1>1, <1>2, <1>4, <2>1
  <2>2. CASE m > n
    <3>1. m - 1 \in DOMAIN r /\ r[m - 1] = s[m]
      BY <1>1, <1>2, <1>4, <2>2
    <3> QED
      BY <3>1
  <2> QED
    BY <1>2, <1>4, <2>1, <2>2
<1>5. ASSUME NEW j \in DOMAIN r
      PROVE  \E m \in DOMAIN s \ {n} : r[j] = s[m]
  BY <1>1, <1>2, <1>5
<1>6. \A m \in DOMAIN s : s[m].id = s[n].id => m = n
  BY <1>2 DEF Distinct
<1>7. \A id : Caches(r, id) <=> Caches(s, id) /\ id # s[n].id
  BY <1>4, <1>5, <1>6 DEF Caches
<1>8. \A id : Lends(r, id) <=> Lends(s, id) /\ id # s[n].id
  BY <1>4, <1>5, <1>6 DEF Lends
<1> QED
  BY <1>1, <1>3, <1>7, <1>8 DEF r

LEMMA PuttingIn ==
  ASSUME NEW s \in Seq(Service), Distinct(s), NEW e \in Service, ~Caches(s, e.id)
  PROVE  /\ Append(s, e) \in Seq(Service) /\ Distinct(Append(s, e))
         /\ \A id : Caches(Append(s, e), id) <=> Caches(s, id) \/ id = e.id
         /\ \A id : Lends(Append(s, e), id) <=> Lends(s, id) \/ (id = e.id /\ e.borrowed)
<1> DEFINE a == Append(s, e)
<1>1. /\ a \in Seq(Service) /\ Len(s) \in Nat /\ Len(a) = Len(s) + 1
      /\ \A j \in 1..Len(s) : a[j] = s[j]
      /\ a[Len(s) + 1] = e
  OBVIOUS
<1> HIDE DEF a
<1>2. DOMAIN a = 1..(Len(s) + 1) /\ DOMAIN s = 1..Len(s)
  BY <1>1
<1>3. Distinct(a)
  BY <1>1, <1>2 DEF Distinct, Caches
<1>4. \A id : Caches(a, id) <=> Caches(s, id) \/ id = e.id
  BY <1>1, <1>2 DEF Caches
<1>5. \A id : Lends(a, id) <=> Lends(s, id) \/ (id = e.id /\ e.borrowed)
  BY <1>1, <1>2 DEF Lends
<1> QED
  BY <1>1, <1>3, <1>4, <1>5 DEF a

\* An entry that is borrowed moves to the end.
LEMMA Lending ==
  ASSUME services \in Seq(Service), Distinct(services), NEW n \in 1..Len(services)
  PROVE  /\ Lent(n) \in Seq(Service) /\ Distinct(Lent(n))
         /\ \A id : Caches(Lent(n), id) <=> Caches(services, id)
         /\ \A id : Lends(Lent(n), id) <=> Lends(services, id) \/ id = services[n].id
<1> DEFINE r == RemoveAt(services, n)
           e == [services[n] EXCEPT !.borrowed = TRUE]
<1>1. services[n] \in Service /\ n \in DOMAIN services
  OBVIOUS
<1>2. e \in Service /\ e.id = services[n].id /\ e.borrowed
  BY <1>1 DEF Service
<1>3. /\ r \in Seq(Service) /\ Distinct(r)
      /\ \A id : Caches(r, id) <=> Caches(services, id) /\ id # services[n].id
      /\ \A id : Lends(r, id) <=> Lends(services, id) /\ id # services[n].id
  BY TakingOut
<1>4. Lent(n) = Append(r, e)
  BY DEF Lent
<1>5. Caches(services, services[n].id)
  BY <1>1 DEF Caches
<1> HIDE DEF r, e
<1>6. ~Caches(r, e.id)
  BY <1>2, <1>3
<1>7. /\ Append(r, e) \in Seq(Service) /\ Distinct(Append(r, e))
      /\ \A id : Caches(Append(r, e), id) <=> Caches(r, id) \/ id = e.id
      /\ \A id : Lends(Append(r, e), id) <=> Lends(r, id) \/ (id = e.id /\ e.borrowed)
  BY <1>2, <1>3, <1>6, PuttingIn
<1> QED
  BY <1>2, <1>3, <1>4, <1>5, <1>7

\* A lease that ends leaves every entry in its place.
LEMMA GivingBack ==
  ASSUME services \in Seq(Service), Distinct(services), NEW back, NEW s,
         s = [n \in DOMAIN services |->
                IF services[n].id = back THEN [services[n] EXCEPT !.borrowed = FALSE]
                ELSE services[n]]
  PROVE  /\ s \in Seq(Service) /\ Distinct(s)
         /\ \A id : Caches(s, id) <=> Caches(services, id)
         /\ \A id : Lends(s, id) <=> Lends(services, id) /\ id # back
<1>1. /\ DOMAIN services = 1..Len(services) /\ Len(services) \in Nat
      /\ \A n \in DOMAIN services : services[n] \in Service
  OBVIOUS
<1>2. /\ DOMAIN s = DOMAIN services
      /\ \A n \in DOMAIN services :
           s[n] = IF services[n].id = back THEN [services[n] EXCEPT !.borrowed = FALSE]
                  ELSE services[n]
  OBVIOUS
<1>3. \A n \in DOMAIN services :
        /\ s[n] \in Service /\ s[n].id = services[n].id
        /\ s[n].borrowed = (services[n].borrowed /\ services[n].id # back)
  BY <1>1, <1>2 DEF Service
<1>4. s \in Seq(Service)
  <2>1. s \in [1..Len(services) -> Service]
    BY <1>1, <1>2, <1>3
  <2> QED
    BY <1>1, <2>1
<1>5. Distinct(s)
  BY <1>2, <1>3 DEF Distinct
<1>6. \A id : Caches(s, id) <=> Caches(services, id)
  BY <1>2, <1>3 DEF Caches
<1>7. \A id : Lends(s, id) <=> Lends(services, id) /\ id # back
  BY <1>2, <1>3 DEF Lends
<1> QED
  BY <1>4, <1>5, <1>6, <1>7

FlowTyped ==
  /\ services \in Seq(Service) /\ Distinct(services)
  /\ made \in 0..MaxServices
  /\ closings \in [1..MaxServices -> Nat]
  /\ DOMAIN lease = Borrower
  /\ \A t \in Borrower :
       /\ lease[t].at # "idle" => lease[t].key \in Geometry
       /\ lease[t].at \in Keeping \cup Leasing => lease[t].id \in 1..made

\* A service that was made is in one place, or closed once.
PlacedOnce(id) ==
  /\ ~(Caches(services, id) /\ id \in doomed)
  /\ ~(Caches(services, id) /\ Borrowed(Keeping, id))
  /\ ~(id \in doomed /\ Borrowed(Keeping, id))
  /\ closings[id] = IF Caches(services, id) \/ id \in doomed \/ Borrowed(Keeping, id)
                    THEN 0 ELSE 1

\* One that was not made is nowhere.
OnePlace ==
  /\ Once(Keeping)
  /\ \A id \in 1..made : PlacedOnce(id)
  /\ \A id \in 1..MaxServices : id > made => closings[id] = 0
  /\ \A id : Caches(services, id) => id \in 1..made
  /\ doomed \subseteq 1..made

\* A leased service is in the cache, as borrowed, and leased to one thread.
LeasesMatch == Once(Leasing) /\ \A id : Borrowed(Leasing, id) => Lends(services, id)

FlowInv == FlowTyped /\ OnePlace /\ LeasesMatch /\ (flowClosed => services = <<>>)

\* A service that nothing happens to keeps its place.
LEMMA StaysPlaced ==
  ASSUME NEW id, PlacedOnce(id), doomed' = doomed, closings'[id] = closings[id],
         Caches(services', id) <=> Caches(services, id),
         Borrowed(Keeping, id)' <=> Borrowed(Keeping, id)
  PROVE  PlacedOnce(id)'
BY DEF PlacedOnce

\* A service that is closed by the thread that keeps it.
LEMMA ClosedOnce ==
  ASSUME NEW id, PlacedOnce(id), doomed' = doomed, closings'[id] = closings[id] + 1,
         Caches(services', id) <=> Caches(services, id),
         Borrowed(Keeping, id), ~Borrowed(Keeping, id)'
  PROVE  PlacedOnce(id)'
<1>1. closings[id] = 0 /\ ~Caches(services', id) /\ id \notin doomed'
  BY DEF PlacedOnce
<1>2. closings'[id] = 1
  BY <1>1
<1> QED
  BY <1>1, <1>2 DEF PlacedOnce

\* What becomes of the threads at a place when one of them moves.
LEMMA Moving ==
  ASSUME NEW places, Once(places), NEW t \in Borrower,
         \A u \in Borrower : u # t => lease'[u] = lease[u]
  PROVE  /\ lease[t].at \notin places /\ lease'[t].at \notin places
              => Once(places)' /\ \A id : Borrowed(places, id)' <=> Borrowed(places, id)
         /\ lease[t].at \notin places /\ lease'[t].at \in places /\ ~Borrowed(places, lease'[t].id)
              => Once(places)' /\ \A id : Borrowed(places, id)'
                                           <=> Borrowed(places, id) \/ id = lease'[t].id
         /\ lease[t].at \in places /\ lease'[t].at \notin places
              => Once(places)' /\ \A id : Borrowed(places, id)'
                                           <=> Borrowed(places, id) /\ id # lease[t].id
BY DEF Once, Borrowed

LEMMA InitFlow == FlowInit => FlowInv
<1> SUFFICES ASSUME FlowInit PROVE FlowInv
  OBVIOUS
<1>1. /\ services = <<>> /\ DOMAIN services = {} /\ made = 0 /\ doomed = {}
      /\ closings = [id \in 1..MaxServices |-> 0] /\ lease = [t \in Borrower |-> NoLease]
  BY DEF FlowInit
<1>2. \A t \in Borrower : lease[t].at = "idle"
  BY <1>1 DEF NoLease
<1>3. FlowTyped
  BY <1>1, <1>2, FlowConstants DEF FlowTyped, Distinct, Keeping, Leasing
<1>4. OnePlace
  BY <1>1, <1>2, FlowConstants DEF OnePlace, Once, Caches, Keeping
<1>5. LeasesMatch
  BY <1>2 DEF LeasesMatch, Once, Borrowed, Leasing
<1> QED
  BY <1>1, <1>3, <1>4, <1>5 DEF FlowInv

\* Every step keeps the invariant.
LEMMA FlowStep ==
  ASSUME FlowInv, [FlowNext]_fvars
  PROVE  FlowInv'
<1>1. FlowTyped /\ OnePlace /\ LeasesMatch /\ (flowClosed => services = <<>>)
  BY DEF FlowInv
<1>2. services \in Seq(Service) /\ Distinct(services) /\ Once(Keeping) /\ Once(Leasing)
  BY <1>1 DEF FlowTyped, OnePlace, LeasesMatch
<1>3. DOMAIN services = 1..Len(services) /\ Len(services) \in Nat
      /\ \A n \in DOMAIN services : services[n] \in Service
                                    /\ Caches(services, services[n].id)
  BY <1>2 DEF Caches
<1>4. ASSUME NEW t \in Borrower, NEW at, NEW k, NEW id, Becomes(t, at, k, id)
      PROVE  /\ DOMAIN lease' = Borrower
             /\ \A u \in Borrower : u # t => lease'[u] = lease[u]
             /\ lease'[t].at = at /\ lease'[t].key = k /\ lease'[t].id = id
  BY <1>1, <1>4 DEF Becomes, FlowTyped
<1>5. ASSUME NEW t \in Borrower, Gives(t)
      PROVE  /\ DOMAIN lease' = Borrower
             /\ \A u \in Borrower : u # t => lease'[u] = lease[u]
             /\ lease'[t].at = "idle"
  BY <1>1, <1>5 DEF Gives, NoLease, FlowTyped
<1>6. ASSUME NEW n \in DOMAIN services, ~services[n].borrowed
      PROVE  ~Lends(services, services[n].id)
  BY <1>2, <1>6 DEF Lends, Distinct
<1>7. services' = services => /\ \A id : Caches(services', id) <=> Caches(services, id)
                              /\ \A id : Lends(services', id) <=> Lends(services, id)
                              /\ services' \in Seq(Service) /\ Distinct(services')
  BY <1>2
<1>8. \A id : Lends(services, id) => Caches(services, id)
  BY DEF Lends, Caches
<1>9. ASSUME NEW id \in 1..MaxServices, Closes(id)
      PROVE  /\ closings' \in [1..MaxServices -> Nat]
             /\ closings'[id] = closings[id] + 1
             /\ \A other \in 1..MaxServices : other # id => closings'[other] = closings[other]
  BY <1>1, <1>9 DEF Closes, FlowTyped
<1>10. /\ made \in Nat /\ MaxServices \in Nat /\ made <= MaxServices
       /\ \A id \in 1..made : id \in 1..MaxServices
       /\ \A id \in 1..made : id <= made
  BY <1>1, FlowConstants DEF FlowTyped
<1>11. /\ "publish" \in Keeping /\ "evict" \in Keeping /\ "leased" \notin Keeping
       /\ "idle" \notin Keeping /\ "make" \notin Keeping
       /\ "publish" \notin Leasing /\ "evict" \notin Leasing /\ "leased" \in Leasing
       /\ "idle" \notin Leasing /\ "make" \notin Leasing
  BY DEF Keeping, Leasing
<1>12. ASSUME NEW t \in Borrower, NEW k \in Geometry, BorrowCached(t, k) PROVE FlowInv'
  <2>1. Entry(k) \in 1..Len(services)
    BY <1>1, <1>2, <1>12, EntryFound DEF BorrowCached
  <2>2. PICK id \in 1..made :
           /\ id = services[Entry(k)].id /\ ~Lends(services, id)
    BY <1>1, <1>3, <1>6, <1>12, <2>1 DEF BorrowCached, OnePlace
  <2>3. /\ services' = Lent(Entry(k)) /\ Becomes(t, "leased", k, id) /\ lease[t].at = "idle"
        /\ ~flowClosed /\ UNCHANGED <<flowClosed, made, closings, doomed>>
    BY <1>12, <2>2 DEF BorrowCached
  <2>4. /\ services' \in Seq(Service) /\ Distinct(services')
        /\ \A other : Caches(services', other) <=> Caches(services, other)
        /\ \A other : Lends(services', other) <=> Lends(services, other) \/ other = id
    BY <1>2, <2>1, <2>2, <2>3, Lending
  <2>5. /\ DOMAIN lease' = Borrower
        /\ \A u \in Borrower : u # t => lease'[u] = lease[u]
        /\ lease'[t].at = "leased" /\ lease'[t].key = k /\ lease'[t].id = id
    BY <1>4, <2>3
  <2>6. ~Borrowed(Leasing, id)
    BY <1>1, <2>2 DEF LeasesMatch
  <2>7. /\ Once(Keeping)'
        /\ \A one : Borrowed(Keeping, one)' <=> Borrowed(Keeping, one)
    BY ONLY <1>2, <1>11, <2>3, <2>5, <2>6, Moving
  <2>8. /\ Once(Leasing)'
        /\ \A one : Borrowed(Leasing, one)' <=> Borrowed(Leasing, one) \/ one = lease'[t].id
    BY ONLY <1>2, <1>11, <2>3, <2>5, <2>6, Moving
  <2>9. FlowTyped'
    BY ONLY <1>1, <1>10, <1>11, <2>3, <2>4, <2>5, <2>7, <2>8 DEF FlowTyped
  <2>10. ASSUME NEW one \in 1..made' PROVE PlacedOnce(one)'
    BY ONLY <1>1, <1>10, <2>3, <2>4, <2>5, <2>7, <2>8, <2>10 DEF OnePlace, PlacedOnce, FlowTyped
  <2>11. (\A one \in 1..MaxServices : one > made => closings[one] = 0)'
    BY ONLY <1>1, <1>10, <2>3, <2>4, <2>5, <2>7, <2>8 DEF OnePlace
  <2>12. (doomed \subseteq 1..made /\ \A one : Caches(services, one) => one \in 1..made)'
    BY ONLY <1>1, <1>10, <2>3, <2>4, <2>5, <2>7, <2>8 DEF OnePlace
  <2>13. OnePlace'
    BY ONLY <2>7, <2>10, <2>11, <2>12 DEF OnePlace
  <2>14. LeasesMatch'
    BY ONLY <1>1, <2>3, <2>4, <2>5, <2>7, <2>8 DEF LeasesMatch
  <2> QED
    BY <1>1, <2>3, <2>4, <2>5, <2>7, <2>8, <2>9, <2>13, <2>14 DEF FlowInv
<1>13. ASSUME NEW t \in Borrower, NEW k \in Geometry, BorrowMakes(t, k) PROVE FlowInv'
  <2>1. /\ DOMAIN lease' = Borrower
        /\ \A u \in Borrower : u # t => lease'[u] = lease[u]
        /\ lease'[t].at = "make" /\ lease'[t].key = k /\ lease[t].at = "idle"
    BY <1>4, <1>13 DEF BorrowMakes
  <2>2. UNCHANGED <<services, flowClosed, made, closings, doomed>>
    BY <1>13 DEF BorrowMakes
  <2>3. /\ Once(Keeping)'
        /\ \A one : Borrowed(Keeping, one)' <=> Borrowed(Keeping, one)
    BY ONLY <1>2, <1>11, <2>1, Moving
  <2>4. /\ Once(Leasing)'
        /\ \A one : Borrowed(Leasing, one)' <=> Borrowed(Leasing, one)
    BY ONLY <1>2, <1>11, <2>1, Moving
  <2>5. FlowTyped'
    BY ONLY <1>1, <1>10, <1>11, <1>7, <2>1, <2>2, <2>3, <2>4 DEF FlowTyped
  <2>6. ASSUME NEW one \in 1..made' PROVE PlacedOnce(one)'
    BY ONLY <1>1, <1>10, <1>7, <2>1, <2>2, <2>3, <2>4, <2>6 DEF OnePlace, PlacedOnce, FlowTyped
  <2>7. (\A one \in 1..MaxServices : one > made => closings[one] = 0)'
    BY ONLY <1>1, <1>10, <1>7, <2>1, <2>2, <2>3, <2>4 DEF OnePlace
  <2>8. (doomed \subseteq 1..made /\ \A one : Caches(services, one) => one \in 1..made)'
    BY ONLY <1>1, <1>10, <1>7, <2>1, <2>2, <2>3, <2>4 DEF OnePlace
  <2>9. OnePlace'
    BY ONLY <2>3, <2>6, <2>7, <2>8 DEF OnePlace
  <2>10. LeasesMatch'
    BY ONLY <1>1, <1>7, <2>1, <2>2, <2>3, <2>4 DEF LeasesMatch
  <2> QED
    BY <1>1, <1>7, <2>1, <2>2, <2>3, <2>4, <2>5, <2>9, <2>10 DEF FlowInv
<1>14. ASSUME NEW t \in Borrower, NEW k \in Geometry, BorrowEvicts(t, k) PROVE FlowInv'
  <2>1. Victim \in 1..Len(services) /\ ~services[Victim].borrowed
    BY <1>1, <1>2, <1>14, IdleFound DEF BorrowEvicts, Victim
  <2>2. PICK id \in 1..made :
           id = services[Victim].id /\ ~Lends(services, id) /\ Caches(services, id)
    BY <1>1, <1>3, <1>6, <2>1 DEF OnePlace
  <2>3. /\ services' = RemoveAt(services, Victim) /\ Becomes(t, "evict", k, id)
        /\ lease[t].at = "idle" /\ ~flowClosed
        /\ UNCHANGED <<flowClosed, made, closings, doomed>>
    BY <1>14, <2>2 DEF BorrowEvicts
  <2>4. /\ services' \in Seq(Service) /\ Distinct(services')
        /\ \A other : Caches(services', other) <=> Caches(services, other) /\ other # id
        /\ \A other : Lends(services', other) <=> Lends(services, other) /\ other # id
    BY <1>2, <2>1, <2>2, <2>3, TakingOut
  <2>5. /\ DOMAIN lease' = Borrower
        /\ \A u \in Borrower : u # t => lease'[u] = lease[u]
        /\ lease'[t].at = "evict" /\ lease'[t].key = k /\ lease'[t].id = id
    BY <1>4, <2>3
  <2>6. ~Borrowed(Keeping, id) /\ ~Borrowed(Leasing, id)
    BY <1>1, <2>2 DEF LeasesMatch, OnePlace, PlacedOnce
  <2>7. /\ Once(Keeping)'
        /\ \A one : Borrowed(Keeping, one)' <=> Borrowed(Keeping, one) \/ one = lease'[t].id
    BY ONLY <1>2, <1>11, <2>3, <2>5, <2>6, Moving
  <2>8. /\ Once(Leasing)'
        /\ \A one : Borrowed(Leasing, one)' <=> Borrowed(Leasing, one)
    BY ONLY <1>2, <1>11, <2>3, <2>5, <2>6, Moving
  <2>9. FlowTyped'
    BY ONLY <1>1, <1>10, <1>11, <2>2, <2>3, <2>4, <2>5, <2>6, <2>7, <2>8 DEF FlowTyped
  <2>10. ASSUME NEW one \in 1..made' PROVE PlacedOnce(one)'
    BY ONLY <1>1, <1>10, <2>2, <2>3, <2>4, <2>5, <2>6, <2>7, <2>8, <2>10
    DEF OnePlace, PlacedOnce, FlowTyped
  <2>11. (\A one \in 1..MaxServices : one > made => closings[one] = 0)'
    BY ONLY <1>1, <1>10, <2>2, <2>3, <2>4, <2>5, <2>6, <2>7, <2>8 DEF OnePlace
  <2>12. (doomed \subseteq 1..made /\ \A one : Caches(services, one) => one \in 1..made)'
    BY ONLY <1>1, <1>10, <2>2, <2>3, <2>4, <2>5, <2>6, <2>7, <2>8 DEF OnePlace
  <2>13. OnePlace'
    BY ONLY <2>7, <2>10, <2>11, <2>12 DEF OnePlace
  <2>14. LeasesMatch'
    BY ONLY <1>1, <2>2, <2>3, <2>4, <2>5, <2>6, <2>7, <2>8 DEF LeasesMatch
  <2> QED
    BY <1>1, <2>2, <2>3, <2>4, <2>5, <2>6, <2>7, <2>8, <2>9, <2>13, <2>14 DEF FlowInv
<1>15. ASSUME NEW t \in Borrower, EvictCloses(t) PROVE FlowInv'
  <2>1. PICK id \in 1..made : id = lease[t].id
    BY <1>1, <1>11, <1>15 DEF EvictCloses, FlowTyped
  <2>2. /\ lease[t].at = "evict" /\ UNCHANGED <<services, flowClosed, made, doomed>> /\ Closes(id)
        /\ Borrowed(Keeping, id)
    BY <1>15, <1>11, <2>1 DEF EvictCloses, Borrowed
  <2>3. /\ DOMAIN lease' = Borrower
        /\ \A u \in Borrower : u # t => lease'[u] = lease[u]
        /\ \/ lease'[t].at = "make" /\ lease'[t].key = lease[t].key
           \/ lease'[t].at = "idle"
    BY <1>4, <1>5, <1>15 DEF EvictCloses
  <2>4. /\ closings' \in [1..MaxServices -> Nat]
        /\ closings'[id] = closings[id] + 1
        /\ \A other \in 1..MaxServices : other # id => closings'[other] = closings[other]
    BY <1>9, <1>10, <2>2
  <2>5. /\ Once(Keeping)'
        /\ \A one : Borrowed(Keeping, one)' <=> Borrowed(Keeping, one) /\ one # lease[t].id
    BY ONLY <1>2, <1>11, <2>2, <2>3, Moving
  <2>6. /\ Once(Leasing)'
        /\ \A one : Borrowed(Leasing, one)' <=> Borrowed(Leasing, one)
    BY ONLY <1>2, <1>11, <2>2, <2>3, Moving
  <2>7. FlowTyped'
    BY ONLY <1>1, <1>10, <1>11, <1>7, <2>1, <2>2, <2>3, <2>4, <2>5, <2>6 DEF FlowTyped
  <2>8. ASSUME NEW one \in 1..made' PROVE PlacedOnce(one)'
    <3>1. one \in 1..MaxServices /\ PlacedOnce(one) /\ doomed' = doomed /\ services' = services
      BY <1>1, <1>10, <2>2, <2>8 DEF OnePlace, FlowTyped
    <3>2. CASE one # id
      BY <2>1, <2>4, <2>5, <3>1, <3>2, StaysPlaced
    <3>3. CASE one = id
      BY <2>1, <2>2, <2>4, <2>5, <3>1, <3>3, ClosedOnce
    <3> QED
      BY <3>2, <3>3
  <2>9. (\A one \in 1..MaxServices : one > made => closings[one] = 0)'
    <3>1. \A one \in 1..MaxServices : one > made => closings[one] = 0
      BY <1>1 DEF OnePlace
    <3>2. MaxServices \in Nat /\ made \in Nat /\ id <= made /\ made' = made
      BY <1>10, <2>1, <2>2
    <3>3. \A one \in 1..MaxServices : one > made => one # id
      BY ONLY <3>2
    <3> QED
      BY ONLY <2>4, <3>1, <3>2, <3>3
  <2>10. (doomed \subseteq 1..made /\ \A one : Caches(services, one) => one \in 1..made)'
    BY ONLY <1>1, <1>10, <1>7, <2>1, <2>2, <2>3, <2>4, <2>5, <2>6 DEF OnePlace
  <2>11. OnePlace'
    BY ONLY <2>5, <2>8, <2>9, <2>10 DEF OnePlace
  <2>12. LeasesMatch'
    BY ONLY <1>1, <1>7, <2>1, <2>2, <2>3, <2>4, <2>5, <2>6 DEF LeasesMatch
  <2> QED
    BY <1>1, <1>7, <2>1, <2>2, <2>3, <2>4, <2>5, <2>6, <2>7, <2>11, <2>12 DEF FlowInv
<1>16. ASSUME NEW t \in Borrower, Makes(t) PROVE FlowInv'
  <2>1. /\ lease[t].at = "make" /\ made < MaxServices /\ made' = made + 1
        /\ UNCHANGED <<services, flowClosed, closings, doomed>>
    BY <1>16 DEF Makes
  <2>2. /\ DOMAIN lease' = Borrower
        /\ \A u \in Borrower : u # t => lease'[u] = lease[u]
        /\ lease'[t].at = "publish" /\ lease'[t].key = lease[t].key /\ lease'[t].id = made + 1
    BY <1>4, <1>16 DEF Makes
  <2>3. /\ made + 1 \notin 1..made /\ made + 1 \in 1..MaxServices /\ made' \in 0..MaxServices
        /\ \A id \in 1..made' : id \in 1..made \/ id = made + 1
        /\ \A id \in 1..made : id \in 1..made' /\ id # made + 1
        /\ made + 1 \in 1..made'
        /\ \A id \in 1..MaxServices : id > made' => id > made
        /\ made + 1 > made
    BY <1>10, <2>1
  <2>4. /\ ~Caches(services, made + 1) /\ made + 1 \notin doomed /\ closings[made + 1] = 0
        /\ ~Borrowed(Keeping, made + 1)
    BY <1>1, <2>3 DEF OnePlace, FlowTyped, Borrowed
  <2>5. /\ Once(Keeping)'
        /\ \A one : Borrowed(Keeping, one)' <=> Borrowed(Keeping, one) \/ one = lease'[t].id
    BY ONLY <1>2, <1>11, <2>1, <2>2, <2>4, Moving
  <2>6. /\ Once(Leasing)'
        /\ \A one : Borrowed(Leasing, one)' <=> Borrowed(Leasing, one)
    BY ONLY <1>2, <1>11, <2>1, <2>2, <2>4, Moving
  <2>7. FlowTyped'
    BY ONLY <1>1, <1>10, <1>11, <1>7, <2>1, <2>2, <2>3, <2>4, <2>5, <2>6 DEF FlowTyped
  <2>8. ASSUME NEW one \in 1..made' PROVE PlacedOnce(one)'
    BY ONLY <1>1, <1>10, <1>7, <2>1, <2>2, <2>3, <2>4, <2>5, <2>6, <2>8
    DEF OnePlace, PlacedOnce, FlowTyped
  <2>9. (\A one \in 1..MaxServices : one > made => closings[one] = 0)'
    BY ONLY <1>1, <1>10, <1>7, <2>1, <2>2, <2>3, <2>4, <2>5, <2>6 DEF OnePlace
  <2>10. (doomed \subseteq 1..made /\ \A one : Caches(services, one) => one \in 1..made)'
    BY ONLY <1>1, <1>10, <1>7, <2>1, <2>2, <2>3, <2>4, <2>5, <2>6 DEF OnePlace
  <2>11. OnePlace'
    BY ONLY <2>5, <2>8, <2>9, <2>10 DEF OnePlace
  <2>12. LeasesMatch'
    BY ONLY <1>1, <1>7, <2>1, <2>2, <2>3, <2>4, <2>5, <2>6 DEF LeasesMatch
  <2> QED
    BY <1>1, <1>7, <2>1, <2>2, <2>3, <2>4, <2>5, <2>6, <2>7, <2>11, <2>12 DEF FlowInv
<1>17. ASSUME NEW t \in Borrower, MakeFails(t) PROVE FlowInv'
  <2>1. /\ DOMAIN lease' = Borrower
        /\ \A u \in Borrower : u # t => lease'[u] = lease[u]
        /\ lease'[t].at = "idle" /\ lease[t].at = "make"
    BY <1>5, <1>17 DEF MakeFails
  <2>2. UNCHANGED <<services, flowClosed, made, closings, doomed>>
    BY <1>17 DEF MakeFails
  <2>3. /\ Once(Keeping)'
        /\ \A one : Borrowed(Keeping, one)' <=> Borrowed(Keeping, one)
    BY ONLY <1>2, <1>11, <2>1, Moving
  <2>4. /\ Once(Leasing)'
        /\ \A one : Borrowed(Leasing, one)' <=> Borrowed(Leasing, one)
    BY ONLY <1>2, <1>11, <2>1, Moving
  <2>5. FlowTyped'
    BY ONLY <1>1, <1>10, <1>11, <1>7, <2>1, <2>2, <2>3, <2>4 DEF FlowTyped
  <2>6. ASSUME NEW one \in 1..made' PROVE PlacedOnce(one)'
    BY ONLY <1>1, <1>10, <1>7, <2>1, <2>2, <2>3, <2>4, <2>6 DEF OnePlace, PlacedOnce, FlowTyped
  <2>7. (\A one \in 1..MaxServices : one > made => closings[one] = 0)'
    BY ONLY <1>1, <1>10, <1>7, <2>1, <2>2, <2>3, <2>4 DEF OnePlace
  <2>8. (doomed \subseteq 1..made /\ \A one : Caches(services, one) => one \in 1..made)'
    BY ONLY <1>1, <1>10, <1>7, <2>1, <2>2, <2>3, <2>4 DEF OnePlace
  <2>9. OnePlace'
    BY ONLY <2>3, <2>6, <2>7, <2>8 DEF OnePlace
  <2>10. LeasesMatch'
    BY ONLY <1>1, <1>7, <2>1, <2>2, <2>3, <2>4 DEF LeasesMatch
  <2> QED
    BY <1>1, <1>7, <2>1, <2>2, <2>3, <2>4, <2>5, <2>9, <2>10 DEF FlowInv
<1>18. ASSUME NEW t \in Borrower, Publishes(t) PROVE FlowInv'
  <2> DEFINE e == [key |-> lease[t].key, id |-> lease[t].id, borrowed |-> TRUE]
  <2>1. /\ lease[t].at = "publish" /\ ~flowClosed
        /\ services' = Append(services, e) /\ Becomes(t, "leased", lease[t].key, lease[t].id)
        /\ UNCHANGED <<flowClosed, made, closings, doomed>>
    BY <1>18 DEF Publishes, RefusesLate
  <2>2. PICK id \in 1..made : id = lease[t].id /\ lease[t].key \in Geometry
    BY <1>1, <1>11, <2>1 DEF FlowTyped
  <2>3. /\ Borrowed(Keeping, id) /\ ~Caches(services, id) /\ ~Lends(services, id)
        /\ ~Borrowed(Leasing, id)
    BY <1>1, <1>8, <1>11, <2>1, <2>2 DEF OnePlace, PlacedOnce, LeasesMatch, Borrowed
  <2>4. e \in Service /\ e.id = id /\ e.borrowed
    BY <1>10, <2>2 DEF Service
  <2>5. /\ services' \in Seq(Service) /\ Distinct(services')
        /\ \A other : Caches(services', other) <=> Caches(services, other) \/ other = id
        /\ \A other : Lends(services', other) <=> Lends(services, other) \/ other = id
    <3> HIDE DEF e
    <3> QED
      BY <1>2, <2>1, <2>3, <2>4, PuttingIn
  <2> HIDE DEF e
  <2>6. /\ DOMAIN lease' = Borrower
        /\ \A u \in Borrower : u # t => lease'[u] = lease[u]
        /\ lease'[t].at = "leased" /\ lease'[t].key = lease[t].key /\ lease'[t].id = id
    BY <1>4, <2>1, <2>2
  <2>7. /\ Once(Keeping)'
        /\ \A one : Borrowed(Keeping, one)' <=> Borrowed(Keeping, one) /\ one # lease[t].id
    BY ONLY <1>2, <1>11, <2>1, <2>3, <2>6, Moving
  <2>8. /\ Once(Leasing)'
        /\ \A one : Borrowed(Leasing, one)' <=> Borrowed(Leasing, one) \/ one = lease'[t].id
    BY ONLY <1>2, <1>11, <2>1, <2>3, <2>6, Moving
  <2>9. FlowTyped'
    BY ONLY <1>1, <1>10, <1>11, <2>1, <2>2, <2>3, <2>5, <2>6, <2>7, <2>8 DEF FlowTyped
  <2>10. ASSUME NEW one \in 1..made' PROVE PlacedOnce(one)'
    BY ONLY <1>1, <1>10, <2>1, <2>2, <2>3, <2>5, <2>6, <2>7, <2>8, <2>10
    DEF OnePlace, PlacedOnce, FlowTyped
  <2>11. (\A one \in 1..MaxServices : one > made => closings[one] = 0)'
    BY ONLY <1>1, <1>10, <2>1, <2>2, <2>3, <2>5, <2>6, <2>7, <2>8 DEF OnePlace
  <2>12. (doomed \subseteq 1..made /\ \A one : Caches(services, one) => one \in 1..made)'
    BY ONLY <1>1, <1>10, <2>1, <2>2, <2>3, <2>5, <2>6, <2>7, <2>8 DEF OnePlace
  <2>13. OnePlace'
    BY ONLY <2>7, <2>10, <2>11, <2>12 DEF OnePlace
  <2>14. LeasesMatch'
    BY ONLY <1>1, <2>1, <2>2, <2>3, <2>5, <2>6, <2>7, <2>8 DEF LeasesMatch
  <2> QED
    BY <1>1, <2>1, <2>2, <2>3, <2>5, <2>6, <2>7, <2>8, <2>9, <2>13, <2>14 DEF FlowInv
<1>19. ASSUME NEW t \in Borrower, Redundant(t) PROVE FlowInv'
  <2>1. PICK id \in 1..made : id = lease[t].id /\ lease[t].key \in Geometry
    BY <1>1, <1>11, <1>19 DEF Redundant, FlowTyped
  <2>2. /\ lease[t].at = "publish" /\ UNCHANGED <<flowClosed, made, doomed>> /\ Closes(id)
        /\ Borrowed(Keeping, id)
    BY <1>11, <1>19, <2>1 DEF Redundant, ClosesRedundant, Borrowed
  <2>3. /\ closings' \in [1..MaxServices -> Nat]
        /\ closings'[id] = closings[id] + 1
        /\ \A other \in 1..MaxServices : other # id => closings'[other] = closings[other]
    BY <1>9, <1>10, <2>2
  <2>4. \A one \in 1..MaxServices : one > made => closings'[one] = 0
    <3>1. \A one \in 1..MaxServices : one > made => closings[one] = 0
      BY <1>1 DEF OnePlace
    <3>2. MaxServices \in Nat /\ made \in Nat /\ id <= made
      BY <1>10, <2>1
    <3>3. \A one \in 1..MaxServices : one > made => one # id
      BY ONLY <3>2
    <3> QED
      BY ONLY <2>3, <3>1, <3>3
  <2>5. CASE Gives(t) /\ UNCHANGED services
    <3>1. /\ DOMAIN lease' = Borrower
          /\ \A u \in Borrower : u # t => lease'[u] = lease[u]
          /\ lease'[t].at = "idle"
      BY <1>5, <2>5
    <3>2. /\ Once(Keeping)'
          /\ \A one : Borrowed(Keeping, one)' <=> Borrowed(Keeping, one) /\ one # lease[t].id
      BY ONLY <1>2, <1>11, <2>2, <3>1, Moving
    <3>3. /\ Once(Leasing)'
          /\ \A one : Borrowed(Leasing, one)' <=> Borrowed(Leasing, one)
      BY ONLY <1>2, <1>11, <2>2, <3>1, Moving
    <3>4. FlowTyped'
      BY ONLY <1>1, <1>10, <1>11, <1>7, <2>1, <2>2, <2>3, <2>5, <3>1, <3>2, <3>3 DEF FlowTyped
    <3>5. ASSUME NEW one \in 1..made' PROVE PlacedOnce(one)'
      <4>1. one \in 1..MaxServices /\ PlacedOnce(one) /\ doomed' = doomed /\ services' = services
        BY <1>1, <1>10, <2>2, <2>5 DEF OnePlace, FlowTyped
      <4>2. CASE one # id
        BY <2>1, <2>3, <3>2, <4>1, <4>2, StaysPlaced
      <4>3. CASE one = id
        BY <2>1, <2>2, <2>3, <3>2, <4>1, <4>3, ClosedOnce
      <4> QED
        BY <4>2, <4>3
    <3>6. (\A one \in 1..MaxServices : one > made => closings[one] = 0)'
      BY ONLY <1>1, <1>10, <1>7, <2>1, <2>2, <2>3, <2>5, <3>1, <3>2, <3>3 DEF OnePlace
    <3>7. (doomed \subseteq 1..made /\ \A one : Caches(services, one) => one \in 1..made)'
      BY ONLY <1>1, <1>10, <1>7, <2>1, <2>2, <2>3, <2>5, <3>1, <3>2, <3>3 DEF OnePlace
    <3>8. OnePlace'
      BY ONLY <3>2, <3>5, <3>6, <3>7 DEF OnePlace
    <3>9. LeasesMatch'
      BY ONLY <1>1, <1>7, <2>1, <2>2, <2>3, <2>5, <3>1, <3>2, <3>3 DEF LeasesMatch
    <3> QED
      BY <1>1, <1>7, <2>1, <2>2, <2>3, <2>5, <3>1, <3>2, <3>3, <3>4, <3>8, <3>9 DEF FlowInv
  <2> DEFINE at == Entry(lease[t].key)
  <2>6. CASE /\ ~flowClosed /\ at # 0 /\ ~services[at].borrowed
             /\ services' = Lent(at)
             /\ Becomes(t, "leased", lease[t].key, services[at].id) \/ Gives(t)
    <3>1. at \in 1..Len(services)
      BY <1>2, <2>6, EntryFound
    <3>2. PICK other \in 1..made :
             other = services[at].id /\ ~Lends(services, other) /\ Caches(services, other)
      BY <1>1, <1>3, <1>6, <2>6, <3>1 DEF OnePlace
    <3> HIDE DEF at
    <3>3. /\ services' \in Seq(Service) /\ Distinct(services')
          /\ \A one : Caches(services', one) <=> Caches(services, one)
          /\ \A one : Lends(services', one) <=> Lends(services, one) \/ one = other
      BY <1>2, <2>6, <3>1, <3>2, Lending
    <3>4. /\ DOMAIN lease' = Borrower
          /\ \A u \in Borrower : u # t => lease'[u] = lease[u]
          /\ \/ /\ lease'[t].at = "leased" /\ lease'[t].key = lease[t].key
                /\ lease'[t].id = other
             \/ lease'[t].at = "idle"
      BY <1>4, <1>5, <2>6, <3>2
    <3>5. ~Borrowed(Leasing, other) /\ ~flowClosed /\ other # id /\ closings[id] = 0
      BY <1>1, <2>2, <2>6, <3>2 DEF LeasesMatch, OnePlace, PlacedOnce
    <3>6. /\ Once(Keeping)'
          /\ \A one : Borrowed(Keeping, one)' <=> Borrowed(Keeping, one) /\ one # lease[t].id
      BY ONLY <1>2, <1>11, <2>2, <3>4, <3>5, Moving
    <3>7. /\ Once(Leasing)'
          /\ \A one : Borrowed(Leasing, one)' => Borrowed(Leasing, one) \/ one = other
      BY ONLY <1>2, <1>11, <2>2, <3>4, <3>5, Moving
    <3>8. FlowTyped'
      <4>1. services' \in Seq(Service) /\ Distinct(services')
        BY ONLY <3>3
      <4>2. /\ made' = made /\ made \in 0..MaxServices
            /\ closings' \in [1..MaxServices -> Nat] /\ DOMAIN lease' = Borrower
        BY ONLY <1>10, <1>11, <2>2, <2>3, <3>4 DEF FlowTyped
      <4>3. ASSUME NEW u \in Borrower
            PROVE  /\ lease'[u].at # "idle" => lease'[u].key \in Geometry
                   /\ lease'[u].at \in Keeping \cup Leasing => lease'[u].id \in 1..made'
        <5>0. /\ lease[u].at # "idle" => lease[u].key \in Geometry
              /\ lease[u].at \in Keeping \cup Leasing => lease[u].id \in 1..made
          BY ONLY <1>1, <4>3 DEF FlowTyped
        <5>1. CASE u # t
          <6>1. lease'[u] = lease[u]
            BY ONLY <3>4, <4>3, <5>1
          <6> QED
            BY ONLY <4>2, <5>0, <6>1
        <5>2. CASE u = t
          BY ONLY <2>1, <3>2, <3>4, <4>2, <5>2 DEF Keeping, Leasing
        <5> QED
          BY <5>1, <5>2
      <4> QED
        BY ONLY <4>1, <4>2, <4>3 DEF FlowTyped
    <3>9. ASSUME NEW one \in 1..made' PROVE PlacedOnce(one)'
      <4>1. one \in 1..MaxServices /\ PlacedOnce(one) /\ doomed' = doomed
        BY <1>1, <1>10, <2>2, <2>4 DEF OnePlace, FlowTyped
      <4>2. CASE one # id
        BY <2>1, <2>3, <3>3, <3>6, <4>1, <4>2, StaysPlaced
      <4>3. CASE one = id
        BY <2>1, <2>2, <2>3, <3>3, <3>6, <4>1, <4>3, ClosedOnce
      <4> QED
        BY <4>2, <4>3
    <3>10. (\A one \in 1..MaxServices : one > made => closings[one] = 0)'
      BY ONLY <1>1, <1>10, <2>1, <2>2, <2>3, <2>4, <3>2, <3>3, <3>4, <3>5, <3>6, <3>7
      DEF OnePlace
    <3>11. (doomed \subseteq 1..made /\ \A one : Caches(services, one) => one \in 1..made)'
      BY ONLY <1>1, <1>10, <2>1, <2>2, <2>3, <2>4, <3>2, <3>3, <3>4, <3>5, <3>6, <3>7
      DEF OnePlace
    <3>12. OnePlace'
      BY ONLY <3>6, <3>9, <3>10, <3>11 DEF OnePlace
    <3>13. LeasesMatch'
      BY ONLY <1>1, <2>1, <2>2, <2>3, <2>4, <3>2, <3>3, <3>4, <3>5, <3>6, <3>7 DEF LeasesMatch
    <3> QED
      BY <1>1, <2>1, <2>2, <2>3, <2>4, <3>2, <3>3, <3>4, <3>5, <3>6, <3>7, <3>8, <3>12, <3>13
      DEF FlowInv
  <2> QED
    BY <1>19, <2>5, <2>6 DEF Redundant, RefusesLate
<1>20. ASSUME NEW t \in Borrower, Returns(t) PROVE FlowInv'
  <2>1. /\ lease[t].at = "leased" /\ UNCHANGED <<flowClosed, made, closings, doomed>>
        /\ Lends(services, lease[t].id)
    BY <1>1, <1>11, <1>20 DEF Returns, LeasesMatch, Borrowed
  <2>2. /\ services' \in Seq(Service) /\ Distinct(services')
        /\ \A id : Caches(services', id) <=> Caches(services, id)
        /\ \A id : Lends(services', id) <=> Lends(services, id) /\ id # lease[t].id
    <3>1. services' = [n \in DOMAIN services |->
                         IF services[n].id = lease[t].id
                         THEN [services[n] EXCEPT !.borrowed = FALSE] ELSE services[n]]
      BY <1>20 DEF Returns
    <3> QED
      BY ONLY <1>2, <3>1, GivingBack
  <2>3. /\ DOMAIN lease' = Borrower
        /\ \A u \in Borrower : u # t => lease'[u] = lease[u]
        /\ lease'[t].at = "idle"
    BY <1>5, <1>20 DEF Returns
  <2>4. ~flowClosed
    BY <1>1, <2>1 DEF Lends
  <2>5. /\ Once(Keeping)'
        /\ \A one : Borrowed(Keeping, one)' <=> Borrowed(Keeping, one)
    BY ONLY <1>2, <1>11, <2>1, <2>3, Moving
  <2>6. /\ Once(Leasing)'
        /\ \A one : Borrowed(Leasing, one)' <=> Borrowed(Leasing, one) /\ one # lease[t].id
    BY ONLY <1>2, <1>11, <2>1, <2>3, Moving
  <2>7. FlowTyped'
    BY ONLY <1>1, <1>10, <1>11, <2>1, <2>2, <2>3, <2>4, <2>5, <2>6 DEF FlowTyped
  <2>8. ASSUME NEW one \in 1..made' PROVE PlacedOnce(one)'
    BY ONLY <1>1, <1>10, <2>1, <2>2, <2>3, <2>4, <2>5, <2>6, <2>8
    DEF OnePlace, PlacedOnce, FlowTyped
  <2>9. (\A one \in 1..MaxServices : one > made => closings[one] = 0)'
    BY ONLY <1>1, <1>10, <2>1, <2>2, <2>3, <2>4, <2>5, <2>6 DEF OnePlace
  <2>10. (doomed \subseteq 1..made /\ \A one : Caches(services, one) => one \in 1..made)'
    BY ONLY <1>1, <1>10, <2>1, <2>2, <2>3, <2>4, <2>5, <2>6 DEF OnePlace
  <2>11. OnePlace'
    BY ONLY <2>5, <2>8, <2>9, <2>10 DEF OnePlace
  <2>12. LeasesMatch'
    BY ONLY <1>1, <2>1, <2>2, <2>3, <2>4, <2>5, <2>6 DEF LeasesMatch
  <2> QED
    BY <1>1, <2>1, <2>2, <2>3, <2>4, <2>5, <2>6, <2>7, <2>11, <2>12 DEF FlowInv
<1>21. CASE CloseServices
  <2>1. /\ services' = <<>> /\ UNCHANGED <<made, closings, lease>>
        /\ doomed' = doomed \cup {services[n].id : n \in DOMAIN services}
        /\ \A n \in DOMAIN services : ~services[n].borrowed
    BY <1>21 DEF CloseServices
  <2>2. \A id : /\ ~Caches(services', id) /\ ~Lends(services, id)
                /\ id \in doomed' <=> id \in doomed \/ Caches(services, id)
    BY <2>1 DEF Caches, Lends
  <2>3. services' \in Seq(Service) /\ Distinct(services')
    BY <2>1 DEF Distinct
  <2>4. doomed' \subseteq 1..made
    BY <1>1, <2>2 DEF OnePlace
  <2>5. Once(Keeping)' /\ \A id : Borrowed(Keeping, id)' <=> Borrowed(Keeping, id)
    BY ONLY <1>2, <2>1 DEF Once, Borrowed
  <2>6. Once(Leasing)' /\ \A id : Borrowed(Leasing, id)' <=> Borrowed(Leasing, id)
    BY ONLY <1>2, <2>1 DEF Once, Borrowed
  <2>7. FlowTyped'
    BY ONLY <1>1, <1>10, <1>11, <2>1, <2>2, <2>3, <2>4, <2>5, <2>6 DEF FlowTyped
  <2>8. ASSUME NEW one \in 1..made' PROVE PlacedOnce(one)'
    BY ONLY <1>1, <1>10, <2>1, <2>2, <2>3, <2>4, <2>5, <2>6, <2>8
    DEF OnePlace, PlacedOnce, FlowTyped
  <2>9. (\A one \in 1..MaxServices : one > made => closings[one] = 0)'
    BY ONLY <1>1, <1>10, <2>1, <2>2, <2>3, <2>4, <2>5, <2>6 DEF OnePlace
  <2>10. (doomed \subseteq 1..made /\ \A one : Caches(services, one) => one \in 1..made)'
    BY ONLY <1>1, <1>10, <2>1, <2>2, <2>3, <2>4, <2>5, <2>6 DEF OnePlace
  <2>11. OnePlace'
    BY ONLY <2>5, <2>8, <2>9, <2>10 DEF OnePlace
  <2>12. LeasesMatch'
    BY ONLY <1>1, <2>1, <2>2, <2>3, <2>4, <2>5, <2>6 DEF LeasesMatch
  <2> QED
    BY <1>1, <2>1, <2>2, <2>3, <2>4, <2>5, <2>6, <2>7, <2>11, <2>12 DEF FlowInv
<1>22. CASE ClosesDoomed
  <2>1. PICK id \in doomed : Closes(id) /\ doomed' = doomed \ {id}
    BY <1>22 DEF ClosesDoomed
  <2>2. UNCHANGED <<services, flowClosed, made, lease>>
    BY <1>22 DEF ClosesDoomed
  <2>3. id \in 1..made /\ id \in 1..MaxServices /\ id <= made /\ doomed' \subseteq 1..made
    BY <1>1, <1>10, <2>1 DEF OnePlace
  <2>4. /\ closings' \in [1..MaxServices -> Nat]
        /\ closings'[id] = closings[id] + 1
        /\ \A other \in 1..MaxServices : other # id => closings'[other] = closings[other]
    BY <1>9, <2>1, <2>3
  <2>5. \A one \in 1..MaxServices : one > made => closings'[one] = 0
    BY <1>1, <1>10, <2>3, <2>4 DEF OnePlace
  <2>6. Once(Keeping)' /\ \A one : Borrowed(Keeping, one)' <=> Borrowed(Keeping, one)
    BY ONLY <1>2, <2>2 DEF Once, Borrowed
  <2>7. Once(Leasing)' /\ \A one : Borrowed(Leasing, one)' <=> Borrowed(Leasing, one)
    BY ONLY <1>2, <2>2 DEF Once, Borrowed
  <2>8. FlowTyped'
    BY ONLY <1>1, <1>10, <1>11, <1>7, <2>1, <2>2, <2>3, <2>4, <2>6, <2>7, <2>5 DEF FlowTyped
  <2>9. ASSUME NEW one \in 1..made' PROVE PlacedOnce(one)'
    BY ONLY <1>1, <1>10, <1>7, <2>1, <2>2, <2>3, <2>4, <2>6, <2>7, <2>5, <2>9
    DEF OnePlace, PlacedOnce, FlowTyped
  <2>10. (\A one \in 1..MaxServices : one > made => closings[one] = 0)'
    BY ONLY <1>1, <1>10, <1>7, <2>1, <2>2, <2>3, <2>4, <2>6, <2>7, <2>5 DEF OnePlace
  <2>11. (doomed \subseteq 1..made /\ \A one : Caches(services, one) => one \in 1..made)'
    BY ONLY <1>1, <1>10, <1>7, <2>1, <2>2, <2>3, <2>4, <2>6, <2>7, <2>5 DEF OnePlace
  <2>12. OnePlace'
    BY ONLY <2>6, <2>9, <2>10, <2>11 DEF OnePlace
  <2>13. LeasesMatch'
    BY ONLY <1>1, <1>7, <2>1, <2>2, <2>3, <2>4, <2>6, <2>7, <2>5 DEF LeasesMatch
  <2> QED
    BY <1>1, <1>7, <2>1, <2>2, <2>3, <2>4, <2>6, <2>7, <2>5, <2>8, <2>12, <2>13 DEF FlowInv
<1>23. CASE UNCHANGED fvars
  BY <1>1, <1>23 DEF fvars, FlowInv, FlowTyped, OnePlace, PlacedOnce, LeasesMatch, Distinct,
     Caches, Lends, Borrowed, Once
<1> QED
  BY <1>12, <1>13, <1>14, <1>15, <1>16, <1>17, <1>18, <1>19, <1>20, <1>21, <1>22, <1>23
  DEF FlowNext

LEMMA FlowInductive == FlowSpec => []FlowInv
<1>1. FlowInv /\ [FlowNext]_fvars => FlowInv'
  BY FlowStep
<1> QED
  BY InitFlow, <1>1, PTL DEF FlowSpec

\* No two threads hold one service, and none that is held is closed, for every
\* number of threads, keys and services (vision_flow_services.py, borrow).
THEOREM LeasesAreExclusive == FlowSpec => []LeasesExclusive
<1>1. FlowInv => LeasesExclusive
  <2> SUFFICES ASSUME FlowInv, NEW t \in Borrower, lease[t].at = "leased"
               PROVE  /\ closings[lease[t].id] = 0
                      /\ \A u \in Borrower \ {t} :
                           lease[u].at = "leased" => lease[u].id # lease[t].id
    BY DEF LeasesExclusive
  <2>1. Lends(services, lease[t].id) /\ lease[t].id \in 1..made
    BY DEF FlowInv, LeasesMatch, FlowTyped, Borrowed, Leasing
  <2>2. Caches(services, lease[t].id)
    BY <2>1 DEF Lends, Caches
  <2> QED
    BY <2>1, <2>2 DEF FlowInv, LeasesMatch, OnePlace, PlacedOnce, Once, Leasing
<1> QED
  BY <1>1, FlowInductive, PTL

\* No service is lost or closed twice, and a closed cache stays empty.
THEOREM ServicesAreAccounted == FlowSpec => []ServicesAccounted
<1>1. FlowInv => ServicesAccounted
  <2> SUFFICES ASSUME FlowInv PROVE ServicesAccounted
    OBVIOUS
  <2>1. ASSUME NEW id \in 1..made
        PROVE  closings[id]
                 + Cardinality({n \in DOMAIN services : services[n].id = id})
                 + (IF id \in doomed THEN 1 ELSE 0)
                 + Cardinality({t \in Borrower :
                                  lease[t].at \in {"publish", "evict"} /\ lease[t].id = id})
                 = 1
    <3> DEFINE Cached == {n \in DOMAIN services : services[n].id = id}
               Kept == {t \in Borrower :
                          lease[t].at \in {"publish", "evict"} /\ lease[t].id = id}
    <3>1. Cardinality(Cached) = IF Caches(services, id) THEN 1 ELSE 0
      <4>1. CASE Caches(services, id)
        <5>1. PICK n : Cached = {n}
          BY <4>1 DEF Caches, FlowInv, FlowTyped, Distinct
        <5> QED
          BY <4>1, <5>1, FS_Singleton
      <4>2. CASE ~Caches(services, id)
        <5>1. Cached = {}
          BY <4>2 DEF Caches
        <5> QED
          BY <4>2, <5>1, FS_EmptySet
      <4> QED
        BY <4>1, <4>2
    <3>2. Cardinality(Kept) = IF Borrowed(Keeping, id) THEN 1 ELSE 0
      <4>1. CASE Borrowed(Keeping, id)
        <5>1. PICK t : Kept = {t}
          BY <4>1 DEF Borrowed, Once, Keeping, FlowInv, OnePlace
        <5> QED
          BY <4>1, <5>1, FS_Singleton
      <4>2. CASE ~Borrowed(Keeping, id)
        <5>1. Kept = {}
          BY <4>2 DEF Borrowed, Keeping
        <5> QED
          BY <4>2, <5>1, FS_EmptySet
      <4> QED
        BY <4>1, <4>2
    <3> HIDE DEF Cached, Kept
    <3>3. /\ Caches(services, id) => id \notin doomed /\ ~Borrowed(Keeping, id)
          /\ id \in doomed => ~Borrowed(Keeping, id)
          /\ closings[id] = IF \/ Caches(services, id) \/ id \in doomed
                               \/ Borrowed(Keeping, id)
                            THEN 0 ELSE 1
      BY DEF FlowInv, OnePlace, PlacedOnce
    <3>4. closings[id] + Cardinality(Cached) + (IF id \in doomed THEN 1 ELSE 0)
            + Cardinality(Kept) = 1
      BY ONLY <3>1, <3>2, <3>3
    <3> QED
      BY <3>4 DEF Cached, Kept
  <2> QED
    BY <2>1 DEF FlowInv, ServicesAccounted
<1> QED
  BY <1>1, FlowInductive, PTL

-----------------------------------------------------------------------------
(* The end of a file run: the inductive invariant *)

\* The instant up to which frame n is shown.
UntilOf(n) ==
  IF n = Len(film) \/ film[n + 1].cut
  THEN IF FrameEnd(n) - grid > FrameTime(n) THEN FrameEnd(n) - grid ELSE FrameTime(n)
  ELSE (FrameTime(n) + FrameTime(n + 1)) \div 2

\* The frames whose slots are all filled.
Passed == IF held = 0 THEN fed ELSE fed - 1

\* The slot of the next output that the consumer takes.
HeadSlot == nextSlot - Len(queue)

Shown == [frame : Nat, slot : Int, pts : Int, dur : Int, cuts : Seq(Nat)]

EndpointTypes ==
  /\ film \in Films /\ grid \in Grids /\ limit \in Limits /\ preserve \in BOOLEAN
  /\ fed \in 0..Len(film) /\ held \in {0, fed} /\ nextSlot \in Int
  /\ ledger \in [emitted : Int, dups : Int, drops : Int]
  /\ marks \in Seq(Nat) /\ cutLog \in Seq(Nat)
  /\ queue \in Seq(Shown) /\ pending \in Seq(Shown) /\ written \in Seq(Shown)

\* How far the run is, and how much it may write.
EndpointPhases ==
  /\ run \in {"open", "flushed", "stopped", "failed", "finished"}
  /\ run = "open" /\ held = 0 => fed = 0
  /\ fed = 0 => queue = <<>> /\ pending = <<>> /\ written = <<>>
  /\ run = "flushed" => held = 0 /\ fed = Len(film)
  /\ Len(pending) <= 1 /\ Len(written) + Len(pending) <= limit
  /\ run \in {"open", "flushed"} => Len(written) + Len(pending) < limit
  /\ run = "stopped" => Len(pending) = 1 /\ Len(written) + 1 = limit

\* The outputs fill one slot after another.
InSlots ==
  /\ \A k \in DOMAIN queue : queue[k].slot = HeadSlot + k - 1
  /\ pending # <<>> => pending[1].slot = HeadSlot - 1
  /\ \A k \in DOMAIN written : written[k].slot = HeadSlot - Len(pending) - Len(written) + k - 1

Timed(w) == w.pts = GridTicks(w.slot)
Lasts(w) == w.dur = GridTicks(w.slot + 1) - GridTicks(w.slot)

\* Each lasts as long as its slot; the last one of the movie is cut to the source.
OnGrid ==
  /\ \A k \in DOMAIN queue : Timed(queue[k]) /\ Lasts(queue[k])
  /\ pending # <<>> => Timed(pending[1]) /\ Lasts(pending[1])
  /\ \A k \in DOMAIN written : /\ Timed(written[k])
                               /\ k < Len(written) \/ run # "finished" => Lasts(written[k])

\* A slot shows a frame that is shown then, and no frame before it is.
InPlace(w) ==
  /\ w.frame \in 1..fed /\ SlotTime(w.slot) <= UntilOf(w.frame)
  /\ \A n \in 1..(w.frame - 1) : UntilOf(n) < SlotTime(w.slot)

AllInPlace ==
  /\ \A n \in 1..Passed : UntilOf(n) < SlotTime(nextSlot)
  /\ \A k \in DOMAIN queue : InPlace(queue[k])
  /\ \A k \in DOMAIN pending : InPlace(pending[k])
  /\ \A k \in DOMAIN written : InPlace(written[k])

\* The movie begins at 0: until something is kept, that slot is still to come.
FromZero ==
  /\ fed > 0 /\ pending = <<>> /\ run # "finished" => written = <<>> /\ HeadSlot <= 0
  /\ written # <<>> => written[1].pts = 0
  /\ written = <<>> /\ pending # <<>> => pending[1].pts = 0

\* A sequence that rises; a number of it; one whose numbers are below those of another.
Rising(s) == \A k \in 2..Len(s) : s[k - 1] < s[k]
Among(n, s) == \E k \in DOMAIN s : s[k] = n
Below(s, t) == \A n, m : Among(n, s) /\ Among(m, t) => n < m

\* Output k in the queue carries cut n.
Carries(k, n) == k \in DOMAIN queue /\ Among(n, queue[k].cuts)

\* Cut n was met; it was not logged yet.
Known(n)  == Among(n, cutLog) \/ Among(n, marks) \/ \E k : Carries(k, n)
Coming(n) == Among(n, marks) \/ \E k : Carries(k, n)

\* The cuts come in order.
CutsInOrder ==
  /\ Rising(cutLog) /\ Rising(marks) /\ Below(cutLog, marks)
  /\ \A k \in DOMAIN queue :
       /\ Rising(queue[k].cuts) /\ Below(cutLog, queue[k].cuts) /\ Below(queue[k].cuts, marks)
       /\ \A j \in DOMAIN queue : j < k => Below(queue[j].cuts, queue[k].cuts)

\* They are those of the film, and none is lost.
CutsKept ==
  /\ \A n : Known(n) => n \in 1..fed /\ film[n].cut
  /\ \A n \in 1..fed : film[n].cut => Known(n)

\* A cut is ahead of the outputs of its shot.
CutsAhead ==
  /\ \A n, k : Among(n, marks) /\ k \in DOMAIN queue => queue[k].frame < n
  /\ \A n, k, j : Carries(k, n) /\ j \in DOMAIN queue /\ j < k => queue[j].frame < n
  /\ \A n : Coming(n) => /\ \A k \in DOMAIN pending : pending[k].frame < n
                         /\ \A k \in DOMAIN written : written[k].frame < n

\* Every frame that is passed has one slot, the repeated ones and not the dropped ones.
LedgerAddsUp == ledger.emitted = Passed + ledger.dups - ledger.drops

\* The end of the movie.
EndsWithSource ==
  run = "finished" =>
    /\ written # <<>>
    /\ LET w == written[Len(written)]
           end == w.pts + w.dur
       IN  /\ end <= SourceEnd \/ w.dur = 1 \/ ~preserve
           /\ Len(written) < limit => 4 * (SourceEnd - end) < grid + 2

EndpointInv ==
  /\ EndpointTypes /\ EndpointPhases /\ InSlots /\ OnGrid /\ AllInPlace /\ FromZero
  /\ CutsInOrder /\ CutsKept /\ CutsAhead /\ LedgerAddsUp /\ EndsWithSource

-----------------------------------------------------------------------------
(* The end of a file run: the grid *)

\* Products with the length of a slot.
LEMMA Products ==
  ASSUME NEW a \in Int, NEW b \in Int, NEW g \in Nat, g # 0
  PROVE  /\ a * g \in Int /\ (a + 1) * g = a * g + g
         /\ (a <= b <=> a * g <= b * g) /\ (a < b <=> a * g < b * g)
OBVIOUS

\* An instant lies in one slot.
LEMMA InSlot ==
  ASSUME NEW a \in Int, NEW d \in Nat, d # 0
  PROVE  /\ a \div d \in Int /\ (a \div d) * d <= a /\ a < (a \div d) * d + d
         /\ a >= 0 => a \div d >= 0
OBVIOUS

\* The start of a slot is at most half a tick away from its time stamp.
LEMMA Rounded ==
  ASSUME grid \in Nat, grid # 0, NEW m \in Int
  PROVE  /\ GridTicks(m) \in Int
         /\ m * grid - 1 <= 2 * GridTicks(m) /\ 2 * GridTicks(m) <= m * grid + 1
         /\ (m >= 0 => GridTicks(m) >= 0) /\ (m <= 0 => GridTicks(m) <= 0)
<1>1. PICK x \in Int : x = m * grid
  BY Products
<1>2. (m >= 0 => x >= 0) /\ (m <= 0 => x <= 0)
  BY <1>1, Products, 0 * grid = 0
<1>3. x \div 2 \in Int /\ x % 2 \in {0, 1} /\ x = 2 * (x \div 2) + (x % 2)
  OBVIOUS
<1>4. GridTicks(m) = IF x % 2 = 1 /\ (x \div 2) % 2 = 1 THEN (x \div 2) + 1 ELSE x \div 2
  BY <1>1 DEF GridTicks
<1> QED
  <2>1. GridTicks(m) \in Int /\ x - 1 <= 2 * GridTicks(m) /\ 2 * GridTicks(m) <= x + 1
    BY <1>3, <1>4
  <2>2. x >= 0 => GridTicks(m) >= 0
    BY <1>3, <1>4
  <2>3. x <= 0 => GridTicks(m) <= 0
    BY <1>3, <1>4
  <2> QED
    BY <1>1, <1>2, <2>1, <2>2, <2>3

\* The slots begin one after another.
LEMMA SlotTimes ==
  ASSUME grid \in Nat, grid # 0
  PROVE  /\ \A m \in Int : SlotTime(m) = 2 * (m * grid) /\ SlotTime(m) \in Int
                           /\ SlotTime(m + 1) = SlotTime(m) + 2 * grid
         /\ \A m, k \in Int : (m <= k <=> SlotTime(m) <= SlotTime(k))
                              /\ (m < k <=> SlotTime(m) < SlotTime(k))
         /\ SlotTime(0) = 0
<1>1. ASSUME NEW m \in Int PROVE SlotTime(m) = 2 * (m * grid)
  BY Products DEF SlotTime
<1>2. ASSUME NEW m \in Int, NEW k \in Int
      PROVE  (m <= k <=> SlotTime(m) <= SlotTime(k)) /\ (m < k <=> SlotTime(m) < SlotTime(k))
  BY <1>1, Products
<1>3. ASSUME NEW m \in Int
      PROVE  SlotTime(m) \in Int /\ SlotTime(m + 1) = SlotTime(m) + 2 * grid
  BY <1>1, Products
<1>4. SlotTime(0) = 0
  BY 0 * grid = 0 DEF SlotTime
<1> QED
  BY <1>1, <1>2, <1>3, <1>4

\* The slots that are filled begin up to the instant, the next one after it.
LEMMA Filling ==
  ASSUME grid \in Nat, grid # 0, nextSlot \in Int, NEW a \in Int
  PROVE  /\ Fill(a) \in Nat /\ a < SlotTime(nextSlot + Fill(a))
         /\ \A k \in 1..Fill(a) : SlotTime(nextSlot + k - 1) <= a
<1> DEFINE d == SlotTime(1)
           q == a \div d
<1>1. d \in Nat /\ d # 0 /\ d = 2 * grid
  BY SlotTimes DEF SlotTime
<1>2. q \in Int /\ q * d <= a /\ a < q * d + d
  BY <1>1, InSlot
<1>3. SlotTime(q) = q * d
  BY <1>1, <1>2 DEF SlotTime
<1>4. SlotTime(q) <= a /\ a < SlotTime(q + 1)
  BY <1>1, <1>2, <1>3, SlotTimes
<1>5. Fill(a) = IF a < SlotTime(nextSlot) THEN 0 ELSE q - nextSlot + 1
  BY DEF Fill
<1> HIDE DEF q, d
<1>6. CASE a < SlotTime(nextSlot)
  BY <1>5, <1>6
<1>7. CASE ~(a < SlotTime(nextSlot))
  <2>1. SlotTime(nextSlot) < SlotTime(q + 1) /\ SlotTime(nextSlot) \in Int /\ q + 1 \in Int
    BY <1>2, <1>4, <1>7, SlotTimes
  <2>2. nextSlot < q + 1
    BY <1>2, <2>1, SlotTimes
  <2>3. Fill(a) \in Nat /\ nextSlot + Fill(a) = q + 1
    BY <1>2, <1>5, <1>7, <2>2
  <2>4. ASSUME NEW k \in 1..Fill(a) PROVE SlotTime(nextSlot + k - 1) <= a
    <3>1. nextSlot + k - 1 \in Int /\ nextSlot + k - 1 <= q
      BY <1>2, <2>3
    <3>2. SlotTime(nextSlot + k - 1) <= SlotTime(q)
      BY <1>2, <3>1, SlotTimes
    <3> QED
      BY <1>2, <1>4, <3>1, <3>2, SlotTimes
  <2> QED
    BY <1>4, <2>3, <2>4
<1> QED
  BY <1>6, <1>7

-----------------------------------------------------------------------------
(* The end of a file run: the film *)

\* What the constants say about a film.
LEMMA FilmIs ==
  ASSUME EndpointTypes
  PROVE  /\ grid \in Nat /\ grid # 0 /\ limit \in Nat /\ limit # 0
         /\ Len(film) \in Nat /\ Len(film) >= 1 /\ DOMAIN film = 1..Len(film)
         /\ \A n \in 1..Len(film) : film[n] \in SourceFrame
         /\ \A n, m \in 1..Len(film) : n < m => film[n].pts + film[n].dur <= film[m].pts
         /\ film[1].pts <= 0 /\ film[Len(film)].pts >= 0 /\ ~film[1].cut
<1>1. film \in Films /\ grid \in Grids /\ limit \in Limits
  BY DEF EndpointTypes
<1>2. grid \in Nat /\ grid # 0 /\ limit \in Nat /\ limit # 0
  BY <1>1, EndpointConstants
<1>3. /\ film \in Seq(SourceFrame) /\ film # <<>>
      /\ \A n, m \in DOMAIN film : n < m => film[n].pts + film[n].dur <= film[m].pts
      /\ film[1].pts <= 0 /\ film[Len(film)].pts >= 0 /\ ~film[1].cut
  BY <1>1, EndpointConstants
<1>4. Len(film) \in Nat /\ Len(film) >= 1 /\ DOMAIN film = 1..Len(film)
  BY <1>3
<1> QED
  BY <1>2, <1>3, <1>4

\* Instants of the frames.
LEMMA FrameTimes ==
  ASSUME EndpointTypes
  PROVE  /\ \A n \in 1..Len(film) :
              FrameTime(n) \in Int /\ FrameEnd(n) \in Int /\ FrameTime(n) < FrameEnd(n)
         /\ \A n, m \in 1..Len(film) :
              n < m => /\ FrameEnd(n) <= FrameTime(m) /\ FrameTime(n) < FrameTime(m)
                       /\ FrameEnd(n) < FrameEnd(m)
         /\ FrameTime(1) <= 0 /\ FrameTime(Len(film)) >= 0
<1>0. Len(film) \in Nat /\ 1 \in 1..Len(film) /\ Len(film) \in 1..Len(film)
  BY FilmIs
<1>1. ASSUME NEW n \in 1..Len(film)
      PROVE  /\ film[n].pts \in Int /\ film[n].dur \in Nat /\ film[n].dur > 0
             /\ FrameTime(n) = 4 * film[n].pts /\ FrameEnd(n) = 4 * (film[n].pts + film[n].dur)
  BY FilmIs DEF SourceFrame, FrameTime, FrameEnd
<1>2. ASSUME NEW n \in 1..Len(film)
      PROVE  FrameTime(n) \in Int /\ FrameEnd(n) \in Int /\ FrameTime(n) < FrameEnd(n)
  <2>1. PICK p \in Int, d \in Nat : p = film[n].pts /\ d = film[n].dur /\ d > 0
    BY <1>1
  <2>2. FrameTime(n) = 4 * p /\ FrameEnd(n) = 4 * (p + d)
    BY <1>1, <2>1
  <2> QED
    BY ONLY <2>1, <2>2, p \in Int, d \in Nat
<1>3. ASSUME NEW n \in 1..Len(film), NEW m \in 1..Len(film), n < m
      PROVE  /\ FrameEnd(n) <= FrameTime(m) /\ FrameTime(n) < FrameTime(m)
             /\ FrameEnd(n) < FrameEnd(m)
  <2>1. film[n].pts + film[n].dur <= film[m].pts
    BY <1>3, FilmIs
  <2>2. FrameEnd(n) <= FrameTime(m)
    BY <1>1, <2>1
  <2> QED
    BY <1>2, <2>2
<1>4. FrameTime(1) <= 0 /\ FrameTime(Len(film)) >= 0
  BY <1>0, <1>1, FilmIs
<1> QED
  BY <1>2, <1>3, <1>4

\* The last frame of a shot.
EndsShot(n) == n = Len(film) \/ film[n + 1].cut

\* How long a frame is shown: up to the next one at most.
LEMMA Untils ==
  ASSUME EndpointTypes
  PROVE  /\ \A n \in 1..Len(film) :
              /\ UntilOf(n) \in Int /\ FrameTime(n) <= UntilOf(n)
              /\ EndsShot(n) => FrameEnd(n) - grid <= UntilOf(n)
              /\ ~EndsShot(n) => 2 * UntilOf(n) = FrameTime(n) + FrameTime(n + 1)
         /\ \A n, m \in 1..Len(film) : n < m => UntilOf(n) < FrameTime(m)
<1>1. ASSUME NEW n \in 1..Len(film), EndsShot(n)
      PROVE  /\ UntilOf(n) \in Int /\ FrameTime(n) <= UntilOf(n) /\ UntilOf(n) < FrameEnd(n)
             /\ FrameEnd(n) - grid <= UntilOf(n)
  <2>1. UntilOf(n) = IF FrameEnd(n) - grid > FrameTime(n) THEN FrameEnd(n) - grid ELSE FrameTime(n)
    BY <1>1 DEF UntilOf, EndsShot
  <2>2. /\ FrameTime(n) \in Int /\ FrameEnd(n) \in Int /\ FrameTime(n) < FrameEnd(n)
        /\ grid \in Nat /\ grid # 0
    BY FilmIs, FrameTimes
  <2> QED
    BY ONLY <2>1, <2>2
<1>2. ASSUME NEW n \in 1..Len(film), ~EndsShot(n)
      PROVE  /\ UntilOf(n) \in Int /\ FrameTime(n) <= UntilOf(n)
             /\ 2 * UntilOf(n) = FrameTime(n) + FrameTime(n + 1)
             /\ n + 1 \in 1..Len(film) /\ UntilOf(n) < FrameTime(n + 1)
  <2>1. n + 1 \in 1..Len(film) /\ n < n + 1
    <3>1. Len(film) \in Nat
      BY FilmIs
    <3>2. n # Len(film)
      BY <1>2 DEF EndsShot
    <3> QED
      BY ONLY <3>1, <3>2, n \in 1..Len(film)
  <2>2. /\ UntilOf(n) = (FrameTime(n) + FrameTime(n + 1)) \div 2
        /\ FrameTime(n) = 4 * film[n].pts /\ FrameTime(n + 1) = 4 * film[n + 1].pts
        /\ film[n].pts \in Int /\ film[n + 1].pts \in Int
    BY <1>2, <2>1, FilmIs DEF UntilOf, EndsShot, FrameTime, SourceFrame
  <2>3. FrameTime(n) < FrameTime(n + 1)
    BY <2>1, FrameTimes
  <2>4. \A a, b \in Int : (4 * a + 4 * b) \div 2 = 2 * a + 2 * b
    OBVIOUS
  <2>5. UntilOf(n) = 2 * film[n].pts + 2 * film[n + 1].pts
    BY ONLY <2>2, <2>4
  <2>6. FrameTime(n) = 4 * film[n].pts /\ FrameTime(n + 1) = 4 * film[n + 1].pts
    BY <2>2
  <2>7. /\ UntilOf(n) \in Int /\ FrameTime(n) <= UntilOf(n) /\ UntilOf(n) < FrameTime(n + 1)
        /\ 2 * UntilOf(n) = FrameTime(n) + FrameTime(n + 1)
    <3>1. PICK x \in Int, y \in Int : x = film[n].pts /\ y = film[n + 1].pts
      BY <2>2
    <3>2. UntilOf(n) = 2 * x + 2 * y /\ FrameTime(n) = 4 * x /\ FrameTime(n + 1) = 4 * y
      BY <2>5, <2>6, <3>1
    <3>3. x < y
      BY ONLY <2>3, <3>1, <3>2
    <3>4. \A i, j \in Int :
            i < j => /\ 2 * i + 2 * j \in Int /\ 4 * i <= 2 * i + 2 * j /\ 2 * i + 2 * j < 4 * j
                     /\ 2 * (2 * i + 2 * j) = 4 * i + 4 * j
      OBVIOUS
    <3> QED
      BY ONLY <3>2, <3>3, <3>4
  <2> QED
    BY <2>1, <2>7
<1>3. ASSUME NEW n \in 1..Len(film), NEW m \in 1..Len(film), n < m
      PROVE  UntilOf(n) < FrameTime(m)
  <2>1. CASE EndsShot(n)
    BY <1>1, <1>3, <2>1, FrameTimes
  <2>2. CASE ~EndsShot(n)
    <3>1. n + 1 = m \/ n + 1 < m
      BY <1>3
    <3>2. FrameTime(n + 1) <= FrameTime(m)
      BY <1>2, <2>2, <3>1, FrameTimes
    <3> QED
      BY <1>2, <2>2, <3>2, FrameTimes
  <2> QED
    BY <2>1, <2>2
<1> QED
  BY <1>1, <1>2, <1>3

\* The frames that begin the shots up to frame n.
Cuts(n) == {1} \cup {k \in 2..n : film[k].cut}

LEMMA CutsAre ==
  ASSUME NEW n, NEW j \in Cuts(n)
  PROVE  j = 1 \/ (j \in 2..n /\ film[j].cut)
BY DEF Cuts

\* The shot of a frame is the last of them.
LEMMA Shots ==
  ASSUME NEW n \in Nat, n >= 1
  PROVE  /\ Shot(n) \in Cuts(n) /\ Shot(n) \in 1..n
         /\ \A k \in 2..n : film[k].cut => k <= Shot(n)
<1>1. PICK b \in {n - k : k \in Cuts(n)} : \A c \in {n - k : k \in Cuts(n)} : b <= c
  <2>1. Cuts(n) \subseteq 1..n /\ 1 \in Cuts(n)
    BY DEF Cuts
  <2>2. {n - k : k \in Cuts(n)} \subseteq Nat /\ {n - k : k \in Cuts(n)} # {}
    BY <2>1
  <2> QED
    BY <2>2, Least
<1>2. PICK k \in Cuts(n) : b = n - k
  BY <1>1
<1>3. \A j \in Cuts(n) : n - k <= n - j
  BY <1>1, <1>2
<1>4. Cuts(n) \subseteq 1..n
  BY DEF Cuts
<1>5. \A j \in Cuts(n) : j <= k
  BY <1>2, <1>3, <1>4
<1>6. Shot(n) \in Cuts(n) /\ \A j \in Cuts(n) : j <= Shot(n)
  BY <1>2, <1>5 DEF Shot, Cuts
<1> QED
  BY <1>4, <1>6 DEF Cuts

\* Between two frames of a shot there is no cut; of two shots there is one.
LEMMA ShotsApart ==
  ASSUME NEW n \in Nat, n >= 1, NEW m \in Nat, n < m
  PROVE  /\ Shot(n) <= Shot(m)
         /\ Shot(n) = Shot(m) => \A k \in (n + 1)..m : ~film[k].cut
         /\ Shot(n) # Shot(m) => \E k \in (n + 1)..m : film[k].cut
<1>1. /\ Shot(n) \in 1..n /\ (Shot(n) = 1 \/ (Shot(n) \in 2..n /\ film[Shot(n)].cut))
      /\ \A k \in 2..n : film[k].cut => k <= Shot(n)
  <2>1. /\ Shot(n) \in Cuts(n) /\ Shot(n) \in 1..n
        /\ \A k \in 2..n : film[k].cut => k <= Shot(n)
    BY n >= 1, Shots
  <2> QED
    BY ONLY <2>1, CutsAre
<1>2. /\ Shot(m) \in 1..m /\ (Shot(m) = 1 \/ (Shot(m) \in 2..m /\ film[Shot(m)].cut))
      /\ \A k \in 2..m : film[k].cut => k <= Shot(m)
  <2>1. /\ Shot(m) \in Cuts(m) /\ Shot(m) \in 1..m
        /\ \A k \in 2..m : film[k].cut => k <= Shot(m)
    BY m >= 1, Shots
  <2> QED
    BY ONLY <2>1, CutsAre
<1>3. Shot(n) <= Shot(m)
  BY <1>1, <1>2
<1>4. Shot(n) = Shot(m) => \A k \in (n + 1)..m : ~film[k].cut
  BY <1>1, <1>2
<1>5. ASSUME Shot(n) # Shot(m) PROVE \E k \in (n + 1)..m : film[k].cut
  <2>1. Shot(m) \in 2..m /\ film[Shot(m)].cut /\ ~(Shot(m) \in 2..n)
    BY <1>1, <1>2, <1>3, <1>5
  <2> QED
    BY <2>1
<1> QED
  BY <1>3, <1>4, <1>5

\* An output in its place shows the nearest frame of its shot, and no other shot.
LEMMA PlaceShows ==
  ASSUME EndpointTypes, NEW w, w.slot \in Int, InPlace(w)
  PROVE  ShowsNearest(w) /\ CutIsSharp(w)
<1>1. PICK f \in Nat, t \in Int : f = w.frame /\ t = SlotTime(w.slot)
  <2>1. w.frame \in Nat
    <3>1. fed \in Nat /\ w.frame \in 1..fed
      BY FilmIs DEF InPlace, EndpointTypes
    <3> QED
      BY <3>1
  <2>2. SlotTime(w.slot) \in Int
    BY FilmIs, SlotTimes
  <2> QED
    BY <2>1, <2>2
<1>2. /\ fed \in Nat /\ fed <= Len(film) /\ Len(film) \in Nat /\ f \in 1..fed /\ f \in 1..Len(film)
      /\ t <= UntilOf(f) /\ \A n \in 1..(f - 1) : UntilOf(n) < t
  BY <1>1, FilmIs DEF InPlace, EndpointTypes
<1>3. ASSUME NEW n \in 1..fed
      PROVE  n \in Nat /\ n >= 1 /\ n \in 1..Len(film) /\ FrameTime(n) \in Int /\ UntilOf(n) \in Int
  BY <1>2, FrameTimes, Untils
<1>4. ASSUME NEW n \in 1..fed, Shot(n) = Shot(f), n < f
      PROVE  Away(w, n) > Away(w, f)
  <2>1. f - 1 \in 1..fed /\ f - 1 \in 1..(f - 1) /\ f - 1 \in 1..Len(film)
    BY <1>2, <1>4
  <2>2. ~EndsShot(f - 1)
    <3>1. \A k \in (n + 1)..f : ~film[k].cut
      BY <1>2, <1>3, <1>4, ShotsApart
    <3>2. ~film[(f - 1) + 1].cut /\ f - 1 # Len(film)
      BY <1>2, <1>4, <3>1
    <3> QED
      BY <3>2 DEF EndsShot
  <2>3. 2 * UntilOf(f - 1) = FrameTime(f - 1) + FrameTime(f)
    <3>1. (f - 1) + 1 = f
      BY <1>2
    <3> QED
      BY <2>1, <2>2, <3>1, Untils
  <2>4. UntilOf(f - 1) < t /\ UntilOf(f - 1) \in Int
    BY <1>2, <1>3, <2>1
  <2>5. FrameTime(n) <= FrameTime(f - 1) /\ FrameTime(n) < FrameTime(f)
    <3>1. n = f - 1 \/ n < f - 1
      BY <1>2, <1>4
    <3>2. FrameTime(n) < FrameTime(f)
      BY <1>2, <1>3, <1>4, FrameTimes
    <3>3. n < f - 1 => FrameTime(n) < FrameTime(f - 1)
      BY <1>3, <2>1, FrameTimes
    <3> QED
      BY <1>3, <2>1, <3>1, <3>2, <3>3
  <2>6. FrameTime(n) \in Int /\ FrameTime(f) \in Int /\ FrameTime(f - 1) \in Int
    BY <1>2, <1>3, <2>1
  <2>7. /\ Away(w, n) = IF t - FrameTime(n) < 0 THEN -(t - FrameTime(n)) ELSE t - FrameTime(n)
        /\ Away(w, f) = IF t - FrameTime(f) < 0 THEN -(t - FrameTime(f)) ELSE t - FrameTime(f)
    BY <1>1 DEF Away
  <2> QED
    BY ONLY <1>1, <2>3, <2>4, <2>5, <2>6, <2>7
<1>5. ASSUME NEW n \in 1..fed, Shot(n) = Shot(f), f < n
      PROVE  Away(w, n) >= Away(w, f)
  <2>1. f + 1 \in 1..fed /\ f + 1 \in 1..Len(film)
    BY <1>2, <1>5
  <2>2. ~EndsShot(f)
    <3>1. \A k \in (f + 1)..n : ~film[k].cut
      BY <1>2, <1>3, <1>5, ShotsApart
    <3>2. ~film[f + 1].cut /\ f # Len(film)
      BY <1>2, <1>5, <3>1
    <3> QED
      BY <3>2 DEF EndsShot
  <2>3. 2 * UntilOf(f) = FrameTime(f) + FrameTime(f + 1)
    BY <1>2, <2>2, Untils
  <2>4. t <= UntilOf(f) /\ UntilOf(f) \in Int
    BY <1>2, <1>3
  <2>5. FrameTime(f + 1) <= FrameTime(n) /\ FrameTime(f) < FrameTime(n)
    <3>1. n = f + 1 \/ f + 1 < n
      BY <1>2, <1>5
    <3>2. FrameTime(f) < FrameTime(n)
      BY <1>2, <1>3, <1>5, FrameTimes
    <3>3. f + 1 < n => FrameTime(f + 1) < FrameTime(n)
      BY <1>3, <2>1, FrameTimes
    <3> QED
      BY <1>3, <2>1, <3>1, <3>2, <3>3
  <2>6. FrameTime(n) \in Int /\ FrameTime(f) \in Int /\ FrameTime(f + 1) \in Int
    BY <1>2, <1>3, <2>1
  <2>7. /\ Away(w, n) = IF t - FrameTime(n) < 0 THEN -(t - FrameTime(n)) ELSE t - FrameTime(n)
        /\ Away(w, f) = IF t - FrameTime(f) < 0 THEN -(t - FrameTime(f)) ELSE t - FrameTime(f)
    BY <1>1 DEF Away
  <2> QED
    BY ONLY <1>1, <2>3, <2>4, <2>5, <2>6, <2>7
<1>6. ASSUME NEW n \in 1..fed, Shot(n) > Shot(f) PROVE t < FrameTime(n)
  <2>1. Shot(f) \in Int /\ Shot(n) \in Int
    BY <1>2, <1>3, Shots
  <2>2. f < n
    <3>1. n < f => Shot(n) <= Shot(f)
      BY <1>2, <1>3, ShotsApart
    <3> QED
      BY <1>2, <1>6, <2>1, <3>1
  <2>3. UntilOf(f) < FrameTime(n)
    BY <1>2, <1>3, <2>2, Untils
  <2> QED
    BY <1>2, <1>3, <2>3
<1>7. ASSUME NEW n \in 1..fed, Shot(n) < Shot(f) PROVE t > FrameEnd(n) - grid
  <2>1. Shot(f) \in Int /\ Shot(n) \in Int
    BY <1>2, <1>3, Shots
  <2>2. n < f
    <3>1. f < n => Shot(f) <= Shot(n)
      BY <1>2, <1>3, ShotsApart
    <3> QED
      BY <1>2, <1>7, <2>1, <3>1
  <2>3. PICK k \in (n + 1)..f : film[k].cut
    BY <1>2, <1>3, <1>7, <2>1, <2>2, ShotsApart
  <2>4. k - 1 \in 1..(f - 1) /\ k - 1 \in 1..fed /\ (k - 1) + 1 = k /\ (k - 1 = n \/ n < k - 1)
    BY <1>2, <2>3
  <2>5. EndsShot(k - 1)
    BY <2>3, <2>4 DEF EndsShot
  <2>6. FrameEnd(k - 1) - grid <= UntilOf(k - 1) /\ UntilOf(k - 1) < t
    BY <1>2, <1>3, <2>4, <2>5, Untils
  <2>7. FrameEnd(n) <= FrameEnd(k - 1) /\ FrameEnd(n) \in Int /\ FrameEnd(k - 1) \in Int
    BY <1>3, <2>4, FrameTimes
  <2>8. grid \in Int /\ UntilOf(k - 1) \in Int
    BY <1>3, <2>4, FilmIs
  <2> QED
    BY ONLY <1>1, <2>6, <2>7, <2>8
<1>8. ShowsNearest(w)
  <2> SUFFICES ASSUME NEW n \in 1..fed, Shot(n) = Shot(f), n # f
               PROVE  IF n < f THEN Away(w, n) > Away(w, f) ELSE Away(w, n) >= Away(w, f)
    BY <1>1 DEF ShowsNearest
  <2>1. n < f \/ f < n
    BY <1>2
  <2> QED
    BY <1>2, <1>4, <1>5, <2>1
<1>9. CutIsSharp(w)
  BY <1>1, <1>6, <1>7 DEF CutIsSharp
<1> QED
  BY <1>8, <1>9

-----------------------------------------------------------------------------
(* The end of a file run: sequences *)

LEMMA AmongJoin ==
  ASSUME NEW S, NEW s \in Seq(S), NEW t \in Seq(S)
  PROVE  \A n : Among(n, s \o t) <=> Among(n, s) \/ Among(n, t)
<1>1. /\ Len(s \o t) = Len(s) + Len(t) /\ Len(s) \in Nat /\ Len(t) \in Nat
      /\ \A k \in 1..Len(s) : (s \o t)[k] = s[k]
      /\ \A k \in 1..Len(t) : (s \o t)[Len(s) + k] = t[k]
      /\ DOMAIN s = 1..Len(s) /\ DOMAIN t = 1..Len(t) /\ DOMAIN (s \o t) = 1..Len(s \o t)
  OBVIOUS
<1> TAKE n
<1>2. ASSUME NEW k \in DOMAIN (s \o t), (s \o t)[k] = n PROVE Among(n, s) \/ Among(n, t)
  <2>1. CASE k <= Len(s)
    BY <1>1, <1>2, <2>1 DEF Among
  <2>2. CASE k > Len(s)
    <3>1. k - Len(s) \in 1..Len(t) /\ k = Len(s) + (k - Len(s))
      BY <1>1, <1>2, <2>2
    <3>2. t[k - Len(s)] = n
      BY <1>1, <1>2, <3>1
    <3> QED
      BY <1>1, <3>1, <3>2 DEF Among
  <2> QED
    BY <1>1, <2>1, <2>2
<1>3. ASSUME NEW k \in DOMAIN s, s[k] = n PROVE Among(n, s \o t)
  BY <1>1, <1>3 DEF Among
<1>4. ASSUME NEW k \in DOMAIN t, t[k] = n PROVE Among(n, s \o t)
  <2>1. Len(s) + k \in DOMAIN (s \o t) /\ (s \o t)[Len(s) + k] = n
    BY <1>1, <1>4
  <2> QED
    BY <2>1 DEF Among
<1> QED
  BY <1>2, <1>3, <1>4 DEF Among

LEMMA RisingJoin ==
  ASSUME NEW s \in Seq(Nat), NEW t \in Seq(Nat), Rising(s), Rising(t), Below(s, t)
  PROVE  Rising(s \o t)
<1>1. /\ Len(s \o t) = Len(s) + Len(t) /\ Len(s) \in Nat /\ Len(t) \in Nat
      /\ \A k \in 1..Len(s) : (s \o t)[k] = s[k]
      /\ \A k \in 1..Len(t) : (s \o t)[Len(s) + k] = t[k]
      /\ DOMAIN s = 1..Len(s) /\ DOMAIN t = 1..Len(t)
  OBVIOUS
<1> SUFFICES ASSUME NEW k \in 2..Len(s \o t) PROVE (s \o t)[k - 1] < (s \o t)[k]
  BY DEF Rising
<1>2. CASE k <= Len(s)
  BY <1>1, <1>2 DEF Rising
<1>3. CASE k = Len(s) + 1
  <2>1. Len(s) \in 1..Len(s) /\ 1 \in 1..Len(t)
    BY <1>1, <1>3
  <2>2. (s \o t)[k - 1] = s[Len(s)] /\ (s \o t)[k] = t[1]
    BY <1>1, <1>3, <2>1
  <2>3. s[Len(s)] < t[1]
    BY <1>1, <2>1 DEF Below, Among
  <2> QED
    BY <2>2, <2>3
<1>4. CASE k > Len(s) + 1
  <2>1. k - Len(s) \in 2..Len(t) /\ (k - Len(s)) - 1 \in 1..Len(t) /\ k - Len(s) \in 1..Len(t)
    BY <1>1, <1>4
  <2>2. k = Len(s) + (k - Len(s)) /\ k - 1 = Len(s) + ((k - Len(s)) - 1)
    BY <1>1
  <2>3. (s \o t)[k] = t[k - Len(s)] /\ (s \o t)[k - 1] = t[(k - Len(s)) - 1]
    BY <1>1, <2>1, <2>2
  <2> QED
    BY <2>1, <2>3 DEF Rising
<1> QED
  BY <1>1, <1>2, <1>3, <1>4

\* The shortest sequences.
LEMMA AmongFew ==
  /\ \A n : ~Among(n, <<>>)
  /\ \A n, m : Among(n, <<m>>) <=> n = m
  /\ Rising(<<>>) /\ \A m : Rising(<<m>>)
BY DEF Among, Rising

\* What stays with the film and the grid.
LEMMA Still ==
  ASSUME film' = film, grid' = grid
  PROVE  /\ \A n : /\ FrameTime(n)' = FrameTime(n) /\ FrameEnd(n)' = FrameEnd(n)
                   /\ UntilOf(n)' = UntilOf(n)
         /\ \A m : SlotTime(m)' = SlotTime(m) /\ GridTicks(m)' = GridTicks(m)
BY DEF FrameTime, FrameEnd, UntilOf, SlotTime, GridTicks

\* What an output promises goes on.
LEMMA StaysInPlace ==
  ASSUME film' = film, grid' = grid, fed \in Nat, fed' \in Nat, fed <= fed', NEW w, InPlace(w)
  PROVE  InPlace(w)'
BY Still DEF InPlace

LEMMA StaysOnGrid ==
  ASSUME film' = film, grid' = grid, NEW w
  PROVE  (Timed(w)' <=> Timed(w)) /\ (Lasts(w)' <=> Lasts(w))
BY Still DEF Timed, Lasts

\* What the queue is after the held frame filled its slots.
LEMMA Emitted ==
  ASSUME EndpointTypes, NEW a \in Int, EmitThrough(a), NEW c, c = Fill(a)
  PROVE  /\ c \in Nat /\ nextSlot' = nextSlot + c
         /\ queue' \in Seq(Shown) /\ Len(queue') = Len(queue) + c
         /\ \A k \in 1..Len(queue) : queue'[k] = queue[k]
         /\ \A k \in 1..c : queue'[Len(queue) + k]
                              = Output(nextSlot + k - 1, IF k = 1 THEN marks ELSE <<>>)
<1>1. c \in Nat /\ queue \in Seq(Shown) /\ marks \in Seq(Nat) /\ held \in Nat /\ nextSlot \in Int
  <2>1. c \in Nat
    BY FilmIs, Filling DEF EndpointTypes
  <2>2. held \in Nat
    BY FilmIs DEF EndpointTypes
  <2> QED
    BY <2>1, <2>2 DEF EndpointTypes
<1> DEFINE more == [k \in 1..c |-> Output(nextSlot + k - 1, IF k = 1 THEN marks ELSE <<>>)]
<1>2. queue' = queue \o more /\ nextSlot' = nextSlot + c
  BY DEF EmitThrough
<1>3. ASSUME NEW k \in 1..c
      PROVE  Output(nextSlot + k - 1, IF k = 1 THEN marks ELSE <<>>) \in Shown
  <2>1. /\ nextSlot + k - 1 \in Int /\ (nextSlot + k - 1) + 1 \in Int
        /\ (IF k = 1 THEN marks ELSE <<>>) \in Seq(Nat)
    BY <1>1
  <2>2. GridTicks(nextSlot + k - 1) \in Int /\ GridTicks((nextSlot + k - 1) + 1) \in Int
    BY <2>1, FilmIs, Rounded
  <2> QED
    BY <1>1, <2>1, <2>2 DEF Output, Shown
<1>4. more \in Seq(Shown) /\ Len(more) = c
  <2>1. more \in [1..c -> Shown]
    BY <1>3
  <2> HIDE DEF more
  <2> QED
    BY <1>1, <2>1
<1>5. \A k \in 1..c : more[k] = Output(nextSlot + k - 1, IF k = 1 THEN marks ELSE <<>>)
  OBVIOUS
<1> HIDE DEF more
<1>6. /\ queue \o more \in Seq(Shown) /\ Len(queue \o more) = Len(queue) + c
      /\ \A k \in 1..Len(queue) : (queue \o more)[k] = queue[k]
      /\ \A k \in 1..c : (queue \o more)[Len(queue) + k] = more[k]
  BY ONLY <1>1, <1>4
<1> QED
  BY ONLY <1>1, <1>2, <1>5, <1>6

-----------------------------------------------------------------------------
(* The end of a file run: the conform stage *)

\* The held frame fills its slots, and the next one or none is held.
Fills(c) ==
  /\ held # 0 /\ held = fed /\ c = Fill(UntilOf(fed)) /\ EmitThrough(UntilOf(fed))
  /\ UNCHANGED <<film, grid, limit, preserve, sink>>
  /\ run = "open" /\ run' # "finished"
  /\ \/ held' = 0 /\ fed' = fed /\ marks' = Waiting(c)
     \/ /\ held' = fed + 1 /\ fed' = fed + 1 /\ fed < Len(film)
        /\ marks' = Waiting(c) \o (IF film[fed + 1].cut THEN <<fed + 1>> ELSE <<>>)

\* The queue after it.
LEMMA FilledQueue ==
  ASSUME EndpointTypes, NEW c, Fills(c)
  PROVE  /\ c \in Nat /\ nextSlot' = nextSlot + c
         /\ queue' \in Seq(Shown) /\ Len(queue') = Len(queue) + c /\ Len(queue) \in Nat
         /\ DOMAIN queue = 1..Len(queue)
         /\ \A k \in 1..Len(queue) : queue'[k] = queue[k]
         /\ \A k \in DOMAIN queue' : k \in 1..Len(queue) \/ \E i \in 1..c : k = Len(queue) + i
         /\ \A i \in 1..c :
              LET w == queue'[Len(queue) + i]
              IN  /\ w.frame = fed /\ w.slot = nextSlot + i - 1 /\ Timed(w) /\ Lasts(w)
                  /\ w.cuts = IF i = 1 THEN marks ELSE <<>>
<1>1. held = fed /\ c = Fill(UntilOf(fed)) /\ EmitThrough(UntilOf(fed)) /\ held # 0
  BY DEF Fills
<1>2. /\ fed \in 1..Len(film) /\ UntilOf(fed) \in Int
      /\ queue \in Seq(Shown) /\ DOMAIN queue = 1..Len(queue) /\ Len(queue) \in Nat
  BY <1>1, FilmIs, Untils DEF EndpointTypes
<1>3. /\ c \in Nat /\ nextSlot' = nextSlot + c
      /\ queue' \in Seq(Shown) /\ Len(queue') = Len(queue) + c
      /\ \A k \in 1..Len(queue) : queue'[k] = queue[k]
      /\ \A k \in 1..c : queue'[Len(queue) + k]
                           = Output(nextSlot + k - 1, IF k = 1 THEN marks ELSE <<>>)
  BY <1>1, <1>2, Emitted
<1>4. ASSUME NEW i \in 1..c, NEW w, w = queue'[Len(queue) + i]
      PROVE  /\ w.frame = fed /\ w.slot = nextSlot + i - 1 /\ Timed(w) /\ Lasts(w)
             /\ w.cuts = IF i = 1 THEN marks ELSE <<>>
  <2>1. w = Output(nextSlot + i - 1, IF i = 1 THEN marks ELSE <<>>)
    BY <1>3, <1>4
  <2> QED
    BY <1>1, <2>1 DEF Output, Timed, Lasts
<1>5. ASSUME NEW k \in DOMAIN queue'
      PROVE  k \in 1..Len(queue) \/ \E i \in 1..c : k = Len(queue) + i
  <2>1. k \in 1..(Len(queue) + c) /\ Len(queue) \in Nat
    BY <1>2, <1>3, <1>5
  <2>2. CASE k > Len(queue)
    <3>1. k - Len(queue) \in 1..c /\ k = Len(queue) + (k - Len(queue))
      BY <1>3, <2>1, <2>2
    <3> QED
      BY <3>1
  <2> QED
    BY <2>1, <2>2
<1> QED
  BY <1>2, <1>3, <1>4, <1>5

LEMMA FillsSlots ==
  ASSUME EndpointInv, NEW c, Fills(c)
  PROVE  /\ EndpointTypes' /\ InSlots' /\ OnGrid' /\ AllInPlace' /\ FromZero' /\ LedgerAddsUp'
<1>1. /\ EndpointTypes /\ InSlots /\ OnGrid /\ AllInPlace /\ FromZero /\ LedgerAddsUp
      /\ film' = film /\ grid' = grid /\ limit' = limit /\ preserve' = preserve
      /\ pending' = pending /\ written' = written /\ cutLog' = cutLog
      /\ run = "open" /\ run' # "finished" /\ held = fed /\ fed # 0 /\ c = Fill(UntilOf(fed))
  BY DEF EndpointInv, Fills, sink
<1>2. /\ Len(film) \in Nat /\ fed \in Nat /\ fed \in 1..Len(film) /\ UntilOf(fed) \in Int
      /\ nextSlot \in Int /\ grid \in Nat /\ grid # 0
      /\ marks \in Seq(Nat) /\ queue \in Seq(Shown) /\ pending \in Seq(Shown)
      /\ written \in Seq(Shown) /\ Passed = fed - 1
      /\ DOMAIN queue = 1..Len(queue) /\ Len(queue) \in Nat
  BY <1>1, FilmIs, Untils DEF EndpointTypes, Passed
<1>3. /\ c \in Nat /\ nextSlot' = nextSlot + c
      /\ queue' \in Seq(Shown) /\ Len(queue') = Len(queue) + c
      /\ \A k \in 1..Len(queue) : queue'[k] = queue[k]
  BY <1>1, FilledQueue
<1>0. ASSUME NEW i \in 1..c, NEW k, k = Len(queue) + i
      PROVE  /\ queue'[k].frame = fed /\ queue'[k].slot = nextSlot + i - 1
             /\ Timed(queue'[k]) /\ Lasts(queue'[k])
  BY <1>1, <1>0, FilledQueue
<1>4. /\ UntilOf(fed) < SlotTime(nextSlot + c)
      /\ \A k \in 1..c : SlotTime(nextSlot + k - 1) <= UntilOf(fed)
  BY <1>1, <1>2, Filling
<1>5. fed' \in Nat /\ fed <= fed' /\ fed' \in 0..Len(film) /\ held' \in {0, fed'} /\ Passed' = fed
  BY <1>1, <1>2 DEF Fills, Passed
<1>6. Waiting(c) \in Seq(Nat) /\ marks' \in Seq(Nat)
  <2>1. Waiting(c) \in Seq(Nat)
    BY <1>2 DEF Waiting
  <2>2. <<fed + 1>> \in Seq(Nat) /\ <<>> \in Seq(Nat)
    BY <1>2
  <2>3. PICK x \in Seq(Nat) : marks' = Waiting(c) \/ marks' = Waiting(c) \o x
    BY <2>2 DEF Fills
  <2>4. Waiting(c) \o x \in Seq(Nat)
    BY ONLY <2>1, <2>3
  <2> QED
    BY ONLY <2>1, <2>3, <2>4
<1>7. ASSUME NEW k \in DOMAIN queue' PROVE k \in 1..Len(queue) \/ \E i \in 1..c : k = Len(queue) + i
  BY <1>1, <1>7, FilledQueue
<1>8. ledger' = [emitted |-> ledger.emitted + c,
                 dups    |-> ledger.dups + (IF c > 1 THEN c - 1 ELSE 0),
                 drops   |-> ledger.drops + (IF c = 0 THEN 1 ELSE 0)]
  BY <1>1 DEF Fills, EmitThrough
<1>9. EndpointTypes'
  <2>1. ledger' \in [emitted : Int, dups : Int, drops : Int]
    <3>1. ledger.emitted \in Int /\ ledger.dups \in Int /\ ledger.drops \in Int
      BY <1>1 DEF EndpointTypes
    <3> QED
      BY ONLY <1>3, <1>8, <3>1
  <2> QED
    <3>1. nextSlot' \in Int
      BY <1>2, <1>3
    <3> QED
      BY ONLY <1>1, <1>2, <1>3, <1>5, <1>6, <2>1, <3>1 DEF EndpointTypes
<1>10. LedgerAddsUp'
  <2>1. /\ ledger'.emitted = ledger.emitted + c
        /\ ledger'.dups = ledger.dups + (IF c > 1 THEN c - 1 ELSE 0)
        /\ ledger'.drops = ledger.drops + (IF c = 0 THEN 1 ELSE 0)
        /\ ledger.emitted \in Int /\ ledger.dups \in Int /\ ledger.drops \in Int
    BY <1>1, <1>8 DEF EndpointTypes
  <2>2. ledger.emitted = Passed + ledger.dups - ledger.drops
    BY <1>1 DEF LedgerAddsUp
  <2>3. ledger'.emitted = Passed' + ledger'.dups - ledger'.drops
    <3>1. /\ fed \in Nat /\ Passed = fed - 1 /\ Passed' = fed /\ c \in Nat
      BY <1>2, <1>3, <1>5
    <3>2. CASE c = 0
      BY ONLY <2>1, <2>2, <3>1, <3>2
    <3>3. CASE c # 0
      <4>1. (IF c = 0 THEN 1 ELSE 0) = 0 /\ (IF c > 1 THEN c - 1 ELSE 0) = c - 1
        BY ONLY <3>1, <3>3
      <4> QED
        BY ONLY <2>1, <2>2, <3>1, <4>1
    <3> QED
      BY ONLY <3>2, <3>3
  <2> QED
    BY <2>3 DEF LedgerAddsUp
<1>11. /\ HeadSlot' = HeadSlot /\ HeadSlot = nextSlot - Len(queue) /\ HeadSlot \in Int
       /\ Len(queue) \in Nat
  BY <1>2, <1>3 DEF HeadSlot
<1>12. InSlots'
  <2>1. ASSUME NEW k \in DOMAIN queue' PROVE queue'[k].slot = HeadSlot + k - 1
    <3>1. CASE k \in 1..Len(queue)
      <4>1. queue'[k] = queue[k] /\ queue[k].slot = HeadSlot + k - 1
        BY <1>1, <1>2, <1>3, <3>1 DEF InSlots
      <4> QED
        BY <4>1
    <3>2. ASSUME NEW i \in 1..c, k = Len(queue) + i PROVE queue'[k].slot = HeadSlot + k - 1
      <4>1. queue'[k].slot = nextSlot + i - 1
        BY <1>0, <3>2
      <4> QED
        BY <1>2, <1>11, <3>2, <4>1
    <3> QED
      BY <1>7, <3>1, <3>2
  <2> QED
    BY <1>1, <1>11, <2>1 DEF InSlots
<1>13. OnGrid'
  <2>1. ASSUME NEW k \in DOMAIN queue' PROVE Timed(queue'[k]) /\ Lasts(queue'[k])
    <3>1. CASE k \in 1..Len(queue)
      <4>1. queue'[k] = queue[k] /\ Timed(queue[k]) /\ Lasts(queue[k])
        BY <1>1, <1>2, <1>3, <3>1 DEF OnGrid
      <4> QED
        BY ONLY <4>1
    <3>2. ASSUME NEW i \in 1..c, k = Len(queue) + i PROVE Timed(queue'[k]) /\ Lasts(queue'[k])
      BY <1>0, <3>2
    <3> QED
      BY <1>7, <3>1, <3>2
  <2>2. \A w : (Timed(w)' <=> Timed(w)) /\ (Lasts(w)' <=> Lasts(w))
    BY <1>1, StaysOnGrid
  <2> QED
    BY <1>1, <2>1, <2>2 DEF OnGrid
<1>14. AllInPlace'
  <2>1. ASSUME NEW k \in DOMAIN queue' PROVE InPlace(queue'[k])
    <3>1. CASE k \in 1..Len(queue)
      BY <1>1, <1>2, <1>3, <3>1 DEF AllInPlace
    <3>2. ASSUME NEW i \in 1..c, k = Len(queue) + i PROVE InPlace(queue'[k])
      <4>1. queue'[k].frame = fed /\ queue'[k].slot = nextSlot + i - 1
        BY <1>0, <3>2
      <4>2. SlotTime(nextSlot) <= SlotTime(nextSlot + i - 1) /\ nextSlot + i - 1 \in Int
        <5>1. nextSlot + i - 1 \in Int /\ nextSlot <= nextSlot + i - 1
          <6>1. i \in Nat /\ 1 <= i /\ nextSlot \in Int
            BY <1>2, <1>3, <3>2
          <6> QED
            BY ONLY <6>1
        <5> QED
          BY <1>2, <5>1, SlotTimes
      <4>3. ASSUME NEW n \in 1..(fed - 1) PROVE UntilOf(n) < SlotTime(nextSlot + i - 1)
        <5>1. UntilOf(n) < SlotTime(nextSlot)
          BY <1>1, <1>2, <4>3 DEF AllInPlace
        <5>2. /\ UntilOf(n) \in Int /\ SlotTime(nextSlot) \in Int
              /\ SlotTime(nextSlot + i - 1) \in Int
          <6>1. n \in 1..Len(film)
            BY <1>2, <4>3
          <6> QED
            BY <1>1, <1>2, <4>2, <6>1, Untils, SlotTimes
        <5> QED
          BY ONLY <4>2, <5>1, <5>2
      <4> QED
        BY <1>2, <1>4, <3>2, <4>1, <4>3 DEF InPlace
    <3> QED
      BY <1>7, <3>1, <3>2
  <2>2. \A w : InPlace(w) => InPlace(w)'
    BY <1>1, <1>2, <1>5, StaysInPlace
  <2>3. ASSUME NEW n \in 1..fed PROVE UntilOf(n) < SlotTime(nextSlot + c)
    <3>1. CASE n = fed
      BY <1>4, <3>1
    <3>2. CASE n # fed
      <4>1. /\ n \in 1..Passed /\ n \in 1..Len(film)
            /\ nextSlot + c \in Int /\ nextSlot <= nextSlot + c
        BY <1>2, <1>3, <2>3, <3>2
      <4>2. UntilOf(n) < SlotTime(nextSlot) /\ UntilOf(n) \in Int
        BY <1>1, <4>1, Untils DEF AllInPlace
      <4>3. /\ SlotTime(nextSlot) <= SlotTime(nextSlot + c)
            /\ SlotTime(nextSlot) \in Int /\ SlotTime(nextSlot + c) \in Int
        BY <1>2, <4>1, SlotTimes
      <4> QED
        BY ONLY <4>2, <4>3
    <3> QED
      BY <3>1, <3>2
  <2>4. SlotTime(nextSlot)' = SlotTime(nextSlot + c)
    BY <1>1, <1>3 DEF SlotTime
  <2>5. \A n \in 1..Passed' : UntilOf(n)' < SlotTime(nextSlot)'
    BY <1>1, <1>5, <2>3, <2>4, Still
  <2> QED
    BY <1>1, <2>1, <2>2, <2>5 DEF AllInPlace
<1>15. FromZero'
  BY <1>1, <1>2, <1>5, <1>11 DEF FromZero
<1> QED
  BY <1>9, <1>10, <1>12, <1>13, <1>14, <1>15

LEMMA FillsCuts ==
  ASSUME EndpointInv, NEW c, Fills(c)
  PROVE  CutsInOrder' /\ CutsKept' /\ CutsAhead'
<1>1. /\ EndpointTypes /\ AllInPlace /\ CutsInOrder /\ CutsKept /\ CutsAhead
      /\ film' = film /\ pending' = pending /\ written' = written /\ cutLog' = cutLog
  BY DEF EndpointInv, Fills, sink
<1>2. /\ fed \in Nat /\ marks \in Seq(Nat) /\ Waiting(c) \in Seq(Nat)
      /\ \A n : Among(n, Waiting(c)) <=> c = 0 /\ Among(n, marks)
  <2>1. fed \in Nat /\ marks \in Seq(Nat)
    BY <1>1, FilmIs DEF EndpointTypes
  <2> QED
    BY <2>1, AmongFew DEF Waiting
<1>3. /\ c \in Nat /\ Len(queue') = Len(queue) + c /\ Len(queue) \in Nat
      /\ DOMAIN queue = 1..Len(queue) /\ DOMAIN queue' = 1..Len(queue')
      /\ \A k \in 1..Len(queue) : queue'[k] = queue[k]
      /\ \A k \in DOMAIN queue' : k \in 1..Len(queue) \/ \E i \in 1..c : k = Len(queue) + i
  <2>1. /\ c \in Nat /\ Len(queue') = Len(queue) + c /\ Len(queue) \in Nat
        /\ DOMAIN queue = 1..Len(queue) /\ queue' \in Seq(Shown)
        /\ \A k \in 1..Len(queue) : queue'[k] = queue[k]
        /\ \A k \in DOMAIN queue' : k \in 1..Len(queue) \/ \E i \in 1..c : k = Len(queue) + i
    BY <1>1, FilledQueue
  <2>2. DOMAIN queue' = 1..Len(queue')
    BY ONLY <2>1
  <2> QED
    BY ONLY <2>1, <2>2
<1>4. ASSUME NEW i \in 1..c
      PROVE  /\ queue'[Len(queue) + i].frame = fed
             /\ queue'[Len(queue) + i].cuts = IF i = 1 THEN marks ELSE <<>>
  BY <1>1, <1>4, FilledQueue
<1>5. PICK x \in Seq(Nat) :
         /\ marks' = Waiting(c) \o x /\ Rising(x)
         /\ \A n : Among(n, x) <=> n = fed + 1 /\ fed' = fed + 1 /\ film[fed + 1].cut
         /\ fed' \in {fed, fed + 1}
  <2>1. CASE fed' = fed /\ marks' = Waiting(c)
    <3>1. <<>> \in Seq(Nat) /\ Waiting(c) \o <<>> = Waiting(c) /\ fed # fed + 1
      BY <1>2
    <3> QED
      BY <2>1, <3>1, AmongFew
  <2>2. CASE /\ fed' = fed + 1
             /\ marks' = Waiting(c) \o (IF film[fed + 1].cut THEN <<fed + 1>> ELSE <<>>)
    <3> DEFINE x == IF film[fed + 1].cut THEN <<fed + 1>> ELSE <<>>
    <3>1. x \in Seq(Nat)
      BY <1>2
    <3>2. Rising(x) /\ \A n : Among(n, x) <=> n = fed + 1 /\ film[fed + 1].cut
      BY AmongFew
    <3> QED
      BY <2>2, <3>1, <3>2
  <2> QED
    BY <2>1, <2>2 DEF Fills
<1>6. \A n : Among(n, marks') <=> (c = 0 /\ Among(n, marks)) \/ Among(n, x)
  <2>1. \A n : Among(n, Waiting(c) \o x) <=> Among(n, Waiting(c)) \/ Among(n, x)
    BY <1>2, <1>5, AmongJoin
  <2> QED
    BY <1>2, <1>5, <2>1
<1>7. ASSUME NEW k \in DOMAIN queue', NEW n
      PROVE  Among(n, queue'[k].cuts) <=> \/ Carries(k, n)
                                          \/ k = Len(queue) + 1 /\ Among(n, marks)
  <2>1. CASE k \in 1..Len(queue)
    BY <1>3, <2>1 DEF Carries
  <2>2. ASSUME NEW i \in 1..c, k = Len(queue) + i
        PROVE  Among(n, queue'[k].cuts) <=> \/ Carries(k, n)
                                            \/ k = Len(queue) + 1 /\ Among(n, marks)
    <3>1. ~Carries(k, n)
      BY <1>3, <2>2 DEF Carries
    <3>2. CASE i = 1
      BY <1>4, <2>2, <3>1, <3>2
    <3>3. CASE i # 1
      <4>1. queue'[k].cuts = <<>>
        BY <1>4, <2>2, <3>3
      <4>2. k # Len(queue) + 1
        BY <1>3, <2>2, <3>3
      <4> QED
        BY <3>1, <4>1, <4>2, AmongFew
    <3> QED
      BY <3>2, <3>3
  <2> QED
    BY <1>3, <2>1, <2>2
<1>8. \A k, n : Carries(k, n)' <=> \/ Carries(k, n)
                                   \/ k = Len(queue) + 1 /\ c # 0 /\ Among(n, marks)
  <2> SUFFICES ASSUME NEW k, NEW n
               PROVE  Carries(k, n)' <=> \/ Carries(k, n)
                                         \/ k = Len(queue) + 1 /\ c # 0 /\ Among(n, marks)
    OBVIOUS
  <2>1. Carries(k, n)' <=> k \in DOMAIN queue' /\ Among(n, queue'[k].cuts)
    BY DEF Carries
  <2>2. Carries(k, n) => k \in DOMAIN queue'
    BY <1>3 DEF Carries
  <2>3. Len(queue) + 1 \in DOMAIN queue' <=> c # 0
    BY <1>3
  <2> QED
    BY <1>7, <2>1, <2>2, <2>3
<1>9. \A n : (Known(n)' <=> Known(n) \/ Among(n, x)) /\ (Coming(n)' <=> Coming(n) \/ Among(n, x))
  <2> SUFFICES ASSUME NEW n
               PROVE  (Coming(n)' <=> Coming(n) \/ Among(n, x))
    BY <1>1 DEF Known, Coming
  <2>1. Coming(n)' <=> Among(n, marks') \/ \E k : Carries(k, n)'
    BY DEF Coming
  <2> QED
    BY <1>6, <1>8, <2>1 DEF Coming
<1>10. ASSUME NEW n, Known(n) PROVE n \in Nat /\ n <= fed /\ n \in 1..fed /\ film[n].cut
  BY <1>1, <1>2, <1>10 DEF CutsKept
<1>11. ASSUME NEW k \in DOMAIN queue' PROVE queue'[k].frame \in Nat /\ queue'[k].frame <= fed
  <2>1. CASE k \in 1..Len(queue)
    <3>1. queue'[k] = queue[k] /\ queue[k].frame \in 1..fed
      BY <1>1, <1>3, <2>1 DEF AllInPlace, InPlace
    <3> QED
      BY <1>2, <3>1
  <2>2. CASE \E i \in 1..c : k = Len(queue) + i
    <3>1. queue'[k].frame = fed
      BY <1>4, <2>2
    <3> QED
      BY <1>2, <3>1
  <2> QED
    BY <1>3, <1>11, <2>1, <2>2
<1>12. CutsKept'
  <2>1. ASSUME NEW n, Known(n)' PROVE n \in 1..fed' /\ film[n].cut
    <3>1. CASE Known(n)
      BY <1>2, <1>5, <1>10, <3>1
    <3>2. CASE Among(n, x)
      BY <1>2, <1>5, <3>2
    <3> QED
      BY <1>9, <2>1, <3>1, <3>2
  <2>2. ASSUME NEW n \in 1..fed', film[n].cut PROVE Known(n)'
    <3>1. CASE n \in 1..fed
      BY <1>1, <1>9, <2>2, <3>1 DEF CutsKept
    <3>2. CASE n \notin 1..fed
      <4>1. n = fed + 1 /\ fed' = fed + 1
        BY <1>2, <1>5, <2>2, <3>2
      <4> QED
        BY <1>5, <1>9, <2>2, <4>1
    <3> QED
      BY <3>1, <3>2
  <2> QED
    BY <1>1, <2>1, <2>2 DEF CutsKept
<1>13. CutsAhead'
  <2>1. ASSUME NEW n, NEW k \in DOMAIN queue', Among(n, marks') PROVE queue'[k].frame < n
    <3>1. CASE c = 0 /\ Among(n, marks)
      <4>1. k \in DOMAIN queue /\ queue'[k] = queue[k]
        BY <1>3, <2>1, <3>1
      <4> QED
        BY <1>1, <3>1, <4>1 DEF CutsAhead
    <3>2. CASE Among(n, x)
      BY <1>2, <1>5, <1>11, <3>2
    <3> QED
      BY <1>6, <2>1, <3>1, <3>2
  <2>2. ASSUME NEW n, NEW k, NEW j \in DOMAIN queue', Carries(k, n)', j < k
        PROVE  queue'[j].frame < n
    <3>1. CASE Carries(k, n)
      <4>1. j \in DOMAIN queue /\ queue'[j] = queue[j]
        BY <1>3, <2>2, <3>1 DEF Carries
      <4> QED
        BY <1>1, <2>2, <3>1, <4>1 DEF CutsAhead
    <3>2. CASE k = Len(queue) + 1 /\ Among(n, marks)
      <4>1. j \in DOMAIN queue /\ queue'[j] = queue[j]
        BY <1>3, <2>2, <3>2
      <4> QED
        BY <1>1, <3>2, <4>1 DEF CutsAhead
    <3> QED
      BY <1>8, <2>2, <3>1, <3>2
  <2>3. ASSUME NEW n, Coming(n)'
        PROVE  /\ \A k \in DOMAIN pending : pending[k].frame < n
               /\ \A k \in DOMAIN written : written[k].frame < n
    <3>1. CASE Coming(n)
      BY <1>1, <3>1 DEF CutsAhead
    <3>2. CASE Among(n, x)
      <4>1. n = fed + 1
        BY <1>5, <3>2
      <4>2. /\ \A k \in DOMAIN pending : pending[k].frame \in 1..fed
            /\ \A k \in DOMAIN written : written[k].frame \in 1..fed
        BY <1>1 DEF AllInPlace, InPlace
      <4> QED
        BY <1>2, <4>1, <4>2
    <3> QED
      BY <1>9, <2>3, <3>1, <3>2
  <2>4. \A n, k : Among(n, marks)' /\ k \in DOMAIN queue' => queue'[k].frame < n
    BY <2>1
  <2>5. \A n, k, j : Carries(k, n)' /\ j \in DOMAIN queue' /\ j < k => queue'[j].frame < n
    BY <2>2
  <2> QED
    BY <1>1, <2>3, <2>4, <2>5 DEF CutsAhead
<1>14. CutsInOrder'
  <2>1. Below(Waiting(c), x)
    BY <1>2, <1>5, <1>10 DEF Below, Known
  <2>2. Rising(marks')
    <3>1. Rising(Waiting(c))
      BY <1>1, AmongFew DEF CutsInOrder, Waiting
    <3> QED
      BY <1>2, <1>5, <2>1, <3>1, RisingJoin
  <2>3. Below(cutLog, marks')
    BY <1>1, <1>2, <1>5, <1>6, <1>10 DEF Below, Known, CutsInOrder
  <2>4. ASSUME NEW k \in DOMAIN queue' PROVE Rising(queue'[k].cuts)
    <3>1. CASE k \in 1..Len(queue)
      BY <1>1, <1>3, <3>1 DEF CutsInOrder
    <3>2. ASSUME NEW i \in 1..c, k = Len(queue) + i PROVE Rising(queue'[k].cuts)
      BY <1>1, <1>4, <3>2, AmongFew DEF CutsInOrder
    <3> QED
      BY <1>3, <2>4, <3>1, <3>2
  <2>5. ASSUME NEW k \in DOMAIN queue' PROVE Below(cutLog, queue'[k].cuts)
    <3> SUFFICES ASSUME NEW n, NEW m, Among(n, cutLog), Among(m, queue'[k].cuts) PROVE n < m
      BY DEF Below
    <3>1. CASE Carries(k, m)
      BY <1>1, <3>1 DEF CutsInOrder, Below, Carries
    <3>2. CASE Among(m, marks)
      BY <1>1, <3>2 DEF CutsInOrder, Below
    <3> QED
      BY <1>7, <3>1, <3>2
  <2>6. ASSUME NEW k \in DOMAIN queue' PROVE Below(queue'[k].cuts, marks')
    <3> SUFFICES ASSUME NEW n, NEW m, Among(n, queue'[k].cuts), Among(m, marks') PROVE n < m
      BY DEF Below
    <3>1. Known(n)
      BY <1>7 DEF Known
    <3>2. CASE Among(m, x)
      BY <1>2, <1>5, <1>10, <3>1, <3>2
    <3>3. CASE c = 0 /\ Among(m, marks)
      <4>1. k \in DOMAIN queue /\ Among(n, queue[k].cuts)
        BY <1>3, <3>3
      <4> QED
        BY <1>1, <3>3, <4>1 DEF CutsInOrder, Below
    <3> QED
      BY <1>6, <3>2, <3>3
  <2>7. ASSUME NEW k \in DOMAIN queue', NEW j \in DOMAIN queue', j < k
        PROVE  Below(queue'[j].cuts, queue'[k].cuts)
    <3> SUFFICES ASSUME NEW n, NEW m, Among(n, queue'[j].cuts), Among(m, queue'[k].cuts)
                 PROVE  n < m
      BY DEF Below
    <3>1. CASE Carries(k, m)
      <4>1. /\ k \in DOMAIN queue /\ j \in DOMAIN queue
            /\ Among(n, queue[j].cuts) /\ Among(m, queue[k].cuts)
        BY <1>3, <2>7, <3>1 DEF Carries
      <4> QED
        BY <1>1, <2>7, <4>1 DEF CutsInOrder, Below
    <3>2. CASE k = Len(queue) + 1 /\ Among(m, marks)
      <4>1. j \in DOMAIN queue /\ Among(n, queue[j].cuts)
        BY <1>3, <2>7, <3>2
      <4> QED
        BY <1>1, <3>2, <4>1 DEF CutsInOrder, Below
    <3> QED
      BY <1>7, <3>1, <3>2
  <2>8. /\ Rising(cutLog') /\ Rising(marks') /\ Below(cutLog', marks')
    BY <1>1, <2>2, <2>3 DEF CutsInOrder
  <2> QED
    BY <1>1, <2>4, <2>5, <2>6, <2>7, <2>8 DEF CutsInOrder
<1> QED
  BY <1>12, <1>13, <1>14

-----------------------------------------------------------------------------
(* The end of a file run: the consumer *)

LEMMA TicksRise ==
  ASSUME grid \in Nat, grid # 0, NEW m \in Int, NEW k \in Int, m <= k
  PROVE  GridTicks(m) <= GridTicks(k)
<1>1. PICK x \in Int, y \in Int : x = m * grid /\ y = k * grid
  BY Products
<1>2. x <= y
  BY <1>1, Products
<1>3. /\ x \div 2 \in Int /\ x % 2 \in {0, 1} /\ x = 2 * (x \div 2) + (x % 2)
      /\ y \div 2 \in Int /\ y % 2 \in {0, 1} /\ y = 2 * (y \div 2) + (y % 2)
  OBVIOUS
<1>4. /\ GridTicks(m) = IF x % 2 = 1 /\ (x \div 2) % 2 = 1 THEN (x \div 2) + 1 ELSE x \div 2
      /\ GridTicks(k) = IF y % 2 = 1 /\ (y \div 2) % 2 = 1 THEN (y \div 2) + 1 ELSE y \div 2
  BY <1>1 DEF GridTicks
<1>5. x \div 2 = y \div 2 \/ (x \div 2) + 1 <= y \div 2
  BY <1>2, <1>3
<1>6. CASE x \div 2 = y \div 2
  BY <1>2, <1>3, <1>4, <1>6
<1>7. CASE (x \div 2) + 1 <= y \div 2
  BY <1>3, <1>4, <1>7
<1> QED
  BY <1>5, <1>6, <1>7

\* What the consumer finds at the head of the queue.
LEMMA AtHead ==
  ASSUME EndpointInv, Consume, NEW h, h = queue[1]
  PROVE  /\ h \in Shown /\ fed # 0 /\ run \in {"open", "flushed"} /\ run' # "finished"
         /\ Len(queue) \in Nat /\ Len(queue) >= 1 /\ DOMAIN queue = 1..Len(queue)
         /\ queue' \in Seq(Shown) /\ Len(queue') = Len(queue) - 1
         /\ DOMAIN queue' = 1..(Len(queue) - 1)
         /\ \A k \in DOMAIN queue' : k + 1 \in DOMAIN queue /\ queue'[k] = queue[k + 1]
         /\ h.slot = HeadSlot /\ Timed(h) /\ Lasts(h) /\ InPlace(h)
         /\ HeadSlot \in Int /\ HeadSlot' = HeadSlot + 1 /\ cutLog' = cutLog \o h.cuts
         /\ UNCHANGED <<film, grid, limit, preserve, fed, held, nextSlot, ledger, marks>>
         /\ \/ /\ h.pts < 0 /\ UNCHANGED <<pending, written, run>>
            \/ /\ h.pts >= 0 /\ written' = written \o pending /\ pending' = <<h>>
               /\ run' = IF Len(written') + 1 = limit THEN "stopped" ELSE run
<1>1. /\ EndpointTypes /\ EndpointPhases /\ InSlots /\ OnGrid /\ AllInPlace
      /\ queue # <<>> /\ queue' = Tail(queue) /\ run \in {"open", "flushed"}
      /\ cutLog' = cutLog \o Head(queue).cuts
      /\ UNCHANGED <<film, grid, limit, preserve, fed, held, nextSlot, ledger, marks>>
  BY DEF EndpointInv, Consume, stage
<1>2. queue \in Seq(Shown) /\ nextSlot \in Int
  BY <1>1 DEF EndpointTypes
<1>3. /\ Len(queue) \in Nat /\ Len(queue) >= 1 /\ DOMAIN queue = 1..Len(queue)
      /\ queue' \in Seq(Shown) /\ Len(queue') = Len(queue) - 1
      /\ DOMAIN queue' = 1..(Len(queue) - 1) /\ Head(queue) = h /\ h \in Shown
  BY <1>1, <1>2
<1>4. ASSUME NEW k \in DOMAIN queue' PROVE k + 1 \in DOMAIN queue /\ queue'[k] = queue[k + 1]
  BY <1>1, <1>2, <1>3, <1>4
<1>5. fed # 0
  BY <1>1 DEF EndpointPhases
<1>6. HeadSlot \in Int /\ HeadSlot' = HeadSlot + 1
  BY <1>1, <1>2, <1>3 DEF HeadSlot
<1>7. h.slot = HeadSlot /\ Timed(h) /\ Lasts(h) /\ InPlace(h)
  <2>1. 1 \in DOMAIN queue
    BY <1>3
  <2>2. h.slot = HeadSlot + 1 - 1
    BY <1>1, <2>1 DEF InSlots
  <2> QED
    BY <1>1, <1>6, <2>1, <2>2 DEF OnGrid, AllInPlace
<1>8. \/ /\ h.pts < 0 /\ UNCHANGED <<pending, written, run>>
      \/ /\ h.pts >= 0 /\ written' = written \o pending /\ pending' = <<h>>
         /\ run' = IF Len(written') + 1 = limit THEN "stopped" ELSE run
  <2>1. h.pts \in Int
    BY <1>3 DEF Shown
  <2>2. h.pts >= 0 <=> ~(h.pts < 0)
    BY ONLY <2>1
  <2> QED
    BY <1>3, <2>2 DEF Consume
<1>9. run' # "finished"
  BY <1>1, <1>8
<1> QED
  BY <1>1, <1>3, <1>4, <1>5, <1>6, <1>7, <1>8, <1>9

\* An output that is dropped comes before the first one that is kept.
LEMMA DropsFirst ==
  ASSUME EndpointInv, Consume, queue[1].pts < 0
  PROVE  pending = <<>> /\ written = <<>> /\ HeadSlot < 0
<1>1. PICK h \in Shown :
        h = queue[1] /\ h.pts < 0 /\ h.slot = HeadSlot /\ Timed(h) /\ HeadSlot \in Int
  BY AtHead
<1>2. /\ EndpointTypes /\ InSlots /\ OnGrid /\ FromZero /\ EndpointPhases
      /\ fed # 0 /\ fed \in Nat /\ run \in {"open", "flushed"}
      /\ grid \in Nat /\ grid # 0 /\ pending \in Seq(Shown) /\ written \in Seq(Shown)
  BY FilmIs, AtHead DEF EndpointInv, EndpointTypes
<1>3. GridTicks(HeadSlot) < 0 /\ HeadSlot < 0 /\ GridTicks(HeadSlot) \in Int
  <2>1. GridTicks(HeadSlot) = h.pts
    BY <1>1 DEF Timed
  <2>2. GridTicks(HeadSlot) \in Int /\ (HeadSlot >= 0 => GridTicks(HeadSlot) >= 0)
    BY <1>1, <1>2, Rounded
  <2> QED
    BY ONLY <1>1, <2>1, <2>2
<1>4. ASSUME NEW m \in Int, m <= HeadSlot, GridTicks(m) = 0 PROVE FALSE
  <2>1. GridTicks(m) <= GridTicks(HeadSlot)
    BY <1>1, <1>2, <1>4, TicksRise
  <2> QED
    BY ONLY <1>3, <1>4, <2>1
<1>5. Len(pending) \in Nat /\ Len(written) \in Nat
  BY <1>2
<1>6. written = <<>>
  <2> SUFFICES ASSUME written # <<>> PROVE FALSE
    OBVIOUS
  <2>1. 1 \in DOMAIN written /\ Len(written) >= 1
    BY <1>2
  <2>2. written[1].slot = HeadSlot - Len(pending) - Len(written) + 1 - 1 /\ Timed(written[1])
    BY <1>2, <2>1 DEF InSlots, OnGrid
  <2>3. written[1].slot \in Int /\ written[1].slot <= HeadSlot
    BY <1>1, <1>5, <2>1, <2>2
  <2>4. GridTicks(written[1].slot) = 0
    BY <1>2, <2>2 DEF FromZero, Timed
  <2> QED
    BY <1>4, <2>3, <2>4
<1>7. pending = <<>>
  <2> SUFFICES ASSUME pending # <<>> PROVE FALSE
    OBVIOUS
  <2>1. pending[1].slot = HeadSlot - 1 /\ Timed(pending[1]) /\ pending[1].pts = 0
    BY <1>2, <1>6 DEF InSlots, OnGrid, FromZero
  <2> QED
    BY <1>1, <1>4, <2>1 DEF Timed
<1> QED
  BY <1>3, <1>6, <1>7

\* What is kept is what was held back.
LEMMA Keeps ==
  ASSUME NEW S, NEW s \in Seq(S), NEW t \in Seq(S), Len(t) <= 1
  PROVE  /\ s \o t \in Seq(S) /\ Len(s \o t) = Len(s) + Len(t) /\ Len(s) \in Nat
         /\ \A k \in 1..Len(s) : (s \o t)[k] = s[k] /\ k \in DOMAIN s
         /\ \A k \in DOMAIN (s \o t) :
              \/ k \in 1..Len(s)
              \/ k = Len(s) + 1 /\ t # <<>> /\ Len(t) = 1 /\ (s \o t)[k] = t[1] /\ 1 \in DOMAIN t
<1>1. /\ s \o t \in Seq(S) /\ Len(s \o t) = Len(s) + Len(t) /\ Len(s) \in Nat /\ Len(t) \in Nat
      /\ \A k \in 1..Len(s) : (s \o t)[k] = s[k]
      /\ \A k \in 1..Len(t) : (s \o t)[Len(s) + k] = t[k]
      /\ DOMAIN s = 1..Len(s) /\ DOMAIN t = 1..Len(t) /\ DOMAIN (s \o t) = 1..Len(s \o t)
  OBVIOUS
<1>2. ASSUME NEW k \in DOMAIN (s \o t), ~(k \in 1..Len(s))
      PROVE  /\ k = Len(s) + 1 /\ t # <<>> /\ Len(t) = 1 /\ (s \o t)[k] = t[1]
             /\ 1 \in DOMAIN t
  <2>1. Len(t) = 1 /\ k = Len(s) + 1 /\ 1 \in 1..Len(t)
    BY <1>1, <1>2
  <2> QED
    BY <1>1, <2>1
<1> QED
  BY <1>1, <1>2

LEMMA Consumes ==
  ASSUME EndpointInv, Consume
  PROVE  /\ EndpointTypes' /\ EndpointPhases' /\ InSlots' /\ OnGrid' /\ AllInPlace'
         /\ FromZero' /\ LedgerAddsUp' /\ EndsWithSource'
<1>1. PICK h : h = queue[1]
  OBVIOUS
<1>2. /\ h \in Shown /\ fed # 0 /\ run \in {"open", "flushed"} /\ run' # "finished"
      /\ queue' \in Seq(Shown) /\ Len(queue') = Len(queue) - 1 /\ Len(queue) \in Nat
      /\ \A k \in DOMAIN queue' : k + 1 \in DOMAIN queue /\ queue'[k] = queue[k + 1]
      /\ DOMAIN queue' = 1..(Len(queue) - 1)
      /\ h.slot = HeadSlot /\ Timed(h) /\ Lasts(h) /\ InPlace(h)
      /\ HeadSlot \in Int /\ HeadSlot' = HeadSlot + 1 /\ cutLog' = cutLog \o h.cuts
      /\ UNCHANGED <<film, grid, limit, preserve, fed, held, nextSlot, ledger, marks>>
      /\ \/ /\ h.pts < 0 /\ UNCHANGED <<pending, written, run>>
         \/ /\ h.pts >= 0 /\ written' = written \o pending /\ pending' = <<h>>
            /\ run' = IF Len(written') + 1 = limit THEN "stopped" ELSE run
  BY <1>1, AtHead
<1>3. /\ EndpointTypes /\ EndpointPhases /\ InSlots /\ OnGrid /\ AllInPlace /\ FromZero
      /\ LedgerAddsUp
  BY DEF EndpointInv
<1>4. /\ pending \in Seq(Shown) /\ written \in Seq(Shown) /\ cutLog \in Seq(Nat)
      /\ fed \in Nat /\ limit \in Nat /\ grid \in Nat /\ grid # 0
      /\ Len(pending) \in Nat /\ Len(written) \in Nat /\ Len(pending) <= 1
      /\ Len(written) + Len(pending) < limit
  <2>1. /\ pending \in Seq(Shown) /\ written \in Seq(Shown) /\ cutLog \in Seq(Nat)
        /\ fed \in Nat /\ limit \in Nat /\ grid \in Nat /\ grid # 0
    BY <1>3, FilmIs DEF EndpointTypes
  <2>2. Len(pending) <= 1 /\ Len(written) + Len(pending) < limit
    BY <1>2, <1>3 DEF EndpointPhases
  <2> QED
    BY <2>1, <2>2
<1>5. /\ written \o pending \in Seq(Shown)
      /\ Len(written \o pending) = Len(written) + Len(pending)
      /\ \A k \in 1..Len(written) : (written \o pending)[k] = written[k] /\ k \in DOMAIN written
      /\ \A k \in DOMAIN (written \o pending) :
           \/ k \in 1..Len(written)
           \/ /\ k = Len(written) + 1 /\ pending # <<>> /\ Len(pending) = 1
              /\ (written \o pending)[k] = pending[1] /\ 1 \in DOMAIN pending
  BY <1>4, Keeps
<1>6. /\ h.pts < 0 => pending = <<>> /\ written = <<>> /\ HeadSlot < 0
  BY <1>1, DropsFirst
<1>7. EndpointTypes'
  <2>1. h.cuts \in Seq(Nat) /\ cutLog' \in Seq(Nat)
    BY <1>2, <1>4 DEF Shown
  <2>2. pending' \in Seq(Shown) /\ written' \in Seq(Shown)
    <3>1. <<h>> \in Seq(Shown)
      BY <1>2
    <3>2. UNCHANGED <<pending, written>> \/ (written' = written \o pending /\ pending' = <<h>>)
      BY <1>2
    <3> QED
      BY ONLY <1>4, <1>5, <3>1, <3>2
  <2> QED
    BY <1>2, <1>3, <2>1, <2>2 DEF EndpointTypes
<1>8. Len(<<h>>) = 1 /\ <<h>>[1] = h /\ DOMAIN <<h>> = {1} /\ <<h>> # <<>>
  OBVIOUS
<1>9. EndpointPhases'
  <2>1. CASE UNCHANGED <<pending, written, run>>
    BY <1>2, <1>3, <2>1 DEF EndpointPhases
  <2>2. CASE /\ written' = written \o pending /\ pending' = <<h>>
             /\ run' = IF Len(written') + 1 = limit THEN "stopped" ELSE run
    <3>1. /\ Len(pending') = 1 /\ Len(written') = Len(written) + Len(pending)
          /\ Len(written') + 1 <= limit /\ Len(written') \in Nat
      BY <1>4, <1>5, <1>8, <2>2
    <3>2. ASSUME run' # "stopped" PROVE run' = run /\ Len(written') + 1 < limit
      <4>1. Len(written') + 1 # limit /\ run' = run
        BY <2>2, <3>2
      <4> QED
        BY ONLY <1>4, <3>1, <4>1
    <3>3. run' = "stopped" => Len(written') + 1 = limit
      BY <1>2, <2>2
    <3>4. run' \in {"open", "flushed", "stopped", "failed", "finished"}
      BY <1>2, <2>2
    <3> QED
      BY <1>2, <1>3, <3>1, <3>2, <3>3, <3>4 DEF EndpointPhases
  <2> QED
    BY <1>2, <2>1, <2>2
<1>10. InSlots'
  <2>1. ASSUME NEW k \in DOMAIN queue' PROVE queue'[k].slot = HeadSlot' + k - 1
    <3>1. k + 1 \in DOMAIN queue /\ queue'[k] = queue[k + 1] /\ k \in Int
      BY <1>2, <2>1
    <3>2. queue[k + 1].slot = HeadSlot + (k + 1) - 1
      BY <1>3, <3>1 DEF InSlots
    <3> QED
      BY <1>2, <3>1, <3>2
  <2>2. CASE h.pts < 0 /\ UNCHANGED <<pending, written, run>>
    BY <1>6, <2>1, <2>2 DEF InSlots
  <2>3. CASE h.pts >= 0 /\ written' = written \o pending /\ pending' = <<h>>
    <3>1. /\ Len(pending') = 1 /\ Len(written') = Len(written) + Len(pending)
          /\ pending'[1].slot = HeadSlot' - 1
      <4>1. pending'[1] = h /\ Len(pending') = 1
        BY <1>8, <2>3
      <4> QED
        BY <1>2, <1>5, <2>3, <4>1
    <3>2. ASSUME NEW k \in DOMAIN written'
          PROVE  written'[k].slot = HeadSlot' - Len(pending') - Len(written') + k - 1
      <4>1. CASE k \in 1..Len(written)
        <5>1. /\ written'[k] = written[k] /\ k \in Int
              /\ written[k].slot = HeadSlot - Len(pending) - Len(written) + k - 1
          BY <1>3, <1>5, <2>3, <4>1 DEF InSlots
        <5> QED
          BY <1>2, <1>4, <3>1, <5>1
      <4>2. CASE /\ k = Len(written) + 1 /\ pending # <<>> /\ Len(pending) = 1
                 /\ written'[k] = pending[1]
        <5>1. pending[1].slot = HeadSlot - 1
          BY <1>3, <4>2 DEF InSlots
        <5> QED
          BY <1>2, <1>4, <3>1, <4>2, <5>1
      <4> QED
        BY <1>5, <2>3, <3>2, <4>1, <4>2
    <3> QED
      BY <2>1, <3>1, <3>2 DEF InSlots
  <2> QED
    BY <1>2, <2>2, <2>3
<1>11. OnGrid'
  <2>1. ASSUME NEW k \in DOMAIN queue' PROVE Timed(queue'[k]) /\ Lasts(queue'[k])
    BY <1>2, <1>3, <2>1 DEF OnGrid
  <2>2. pending' # <<>> => Timed(pending'[1]) /\ Lasts(pending'[1])
    BY <1>2, <1>3, <1>6, <1>8 DEF OnGrid
  <2>3. ASSUME NEW k \in DOMAIN written' PROVE Timed(written'[k]) /\ Lasts(written'[k])
    <3>1. CASE written' = written
      BY <1>2, <1>3, <2>3, <3>1 DEF OnGrid
    <3>2. CASE written' = written \o pending
      <4>1. CASE k \in 1..Len(written)
        BY <1>2, <1>3, <1>5, <3>2, <4>1 DEF OnGrid
      <4>2. CASE pending # <<>> /\ written'[k] = pending[1]
        BY <1>3, <4>2 DEF OnGrid
      <4> QED
        BY <1>5, <2>3, <3>2, <4>1, <4>2
    <3> QED
      BY <1>2, <3>1, <3>2
  <2>4. \A w : (Timed(w)' <=> Timed(w)) /\ (Lasts(w)' <=> Lasts(w))
    BY <1>2, StaysOnGrid
  <2> QED
    BY <2>1, <2>2, <2>3, <2>4 DEF OnGrid
<1>12. AllInPlace'
  <2>1. \A w : InPlace(w) => InPlace(w)'
    BY <1>2, <1>4, StaysInPlace
  <2>2. \A k \in DOMAIN queue' : InPlace(queue'[k])
    BY <1>2, <1>3 DEF AllInPlace
  <2>3. \A k \in DOMAIN pending' : InPlace(pending'[k])
    BY <1>2, <1>3, <1>8 DEF AllInPlace
  <2>4. ASSUME NEW k \in DOMAIN written' PROVE InPlace(written'[k])
    <3>1. CASE written' = written
      BY <1>3, <2>4, <3>1 DEF AllInPlace
    <3>2. CASE written' = written \o pending
      BY <1>3, <1>5, <2>4, <3>2 DEF AllInPlace
    <3> QED
      BY <1>2, <3>1, <3>2
  <2>5. \A n \in 1..Passed' : UntilOf(n)' < SlotTime(nextSlot)'
    <3>1. Passed' = Passed
      BY <1>2 DEF Passed
    <3>2. \A n \in 1..Passed : UntilOf(n) < SlotTime(nextSlot)
      BY <1>3 DEF AllInPlace
    <3>3. SlotTime(nextSlot)' = SlotTime(nextSlot) /\ \A n : UntilOf(n)' = UntilOf(n)
      BY <1>2, Still DEF SlotTime
    <3> QED
      BY <3>1, <3>2, <3>3
  <2> QED
    BY <2>1, <2>2, <2>3, <2>4, <2>5 DEF AllInPlace
<1>13. FromZero'
  <2>1. CASE h.pts < 0 /\ UNCHANGED <<pending, written, run>>
    BY <1>2, <1>6, <2>1 DEF FromZero
  <2>2. CASE h.pts >= 0 /\ written' = written \o pending /\ pending' = <<h>>
    <3>1. CASE written # <<>>
      <4>1. 1 \in 1..Len(written)
        BY <1>4, <3>1
      <4>2. written'[1] = written[1] /\ written[1].pts = 0
        BY <1>3, <1>5, <2>2, <3>1, <4>1 DEF FromZero
      <4>3. written' # <<>>
        BY <1>4, <1>5, <2>2, <3>1
      <4> QED
        BY <1>8, <2>2, <4>2, <4>3 DEF FromZero
    <3>2. CASE written = <<>> /\ pending # <<>>
      <4>1. pending[1].pts = 0
        BY <1>3, <3>2 DEF FromZero
      <4>2. written' = pending
        BY <1>4, <2>2, <3>2
      <4> QED
        BY <1>8, <2>2, <3>2, <4>1, <4>2 DEF FromZero
    <3>3. CASE written = <<>> /\ pending = <<>>
      <4>1. HeadSlot <= 0 /\ fed > 0
        BY <1>2, <1>3, <1>4, <3>3 DEF FromZero
      <4>2. h.pts = GridTicks(HeadSlot) /\ h.pts \in Int
        BY <1>2 DEF Timed, Shown
      <4>3. GridTicks(HeadSlot) <= 0
        BY <1>2, <1>4, <4>1, Rounded
      <4>4. h.pts = 0
        BY ONLY <2>2, <4>2, <4>3
      <4>5. written' = <<>>
        BY <2>2, <3>3
      <4> QED
        BY <1>8, <2>2, <4>4, <4>5 DEF FromZero
    <3> QED
      BY <3>1, <3>2, <3>3
  <2> QED
    BY <1>2, <2>1, <2>2
<1>14. LedgerAddsUp' /\ EndsWithSource'
  BY <1>2, <1>3 DEF LedgerAddsUp, EndsWithSource, Passed
<1> QED
  BY <1>7, <1>9, <1>10, <1>11, <1>12, <1>13, <1>14

LEMMA ConsumesCuts ==
  ASSUME EndpointInv, Consume
  PROVE  CutsInOrder' /\ CutsKept' /\ CutsAhead'
<1>1. PICK h : h = queue[1]
  OBVIOUS
<1>2. /\ h \in Shown /\ Len(queue) \in Nat /\ Len(queue) >= 1 /\ DOMAIN queue = 1..Len(queue)
      /\ DOMAIN queue' = 1..(Len(queue) - 1)
      /\ \A k \in DOMAIN queue' : k + 1 \in DOMAIN queue /\ queue'[k] = queue[k + 1]
      /\ cutLog' = cutLog \o h.cuts /\ film' = film /\ fed' = fed /\ marks' = marks
      /\ \/ UNCHANGED <<pending, written>>
         \/ written' = written \o pending /\ pending' = <<h>>
  BY <1>1, AtHead
<1>3. /\ EndpointTypes /\ EndpointPhases /\ CutsInOrder /\ CutsKept /\ CutsAhead
  BY DEF EndpointInv
<1>4. cutLog \in Seq(Nat) /\ h.cuts \in Seq(Nat) /\ marks \in Seq(Nat) /\ 1 \in DOMAIN queue
  BY <1>2, <1>3 DEF EndpointTypes, Shown
<1>5. \A n : Among(n, cutLog') <=> Among(n, cutLog) \/ Carries(1, n)
  BY <1>1, <1>2, <1>4, AmongJoin DEF Carries
<1>6. /\ \A k, n : Carries(k, n)' <=> k \in DOMAIN queue' /\ Carries(k + 1, n)
  BY <1>2 DEF Carries
<1>7. \A k, n : Carries(k, n) => k = 1 \/ Carries(k - 1, n)'
  <2> TAKE k, n
  <2>1. k \in DOMAIN queue /\ k # 1 => k - 1 \in DOMAIN queue' /\ (k - 1) + 1 = k
    BY <1>2
  <2> QED
    BY <1>6, <2>1 DEF Carries
<1>8. CutsInOrder'
  <2>1. Rising(h.cuts) /\ Below(cutLog, h.cuts) /\ Below(h.cuts, marks)
    BY <1>1, <1>3, <1>4 DEF CutsInOrder
  <2>2. Rising(cutLog) /\ Rising(marks) /\ Below(cutLog, marks)
    BY <1>3 DEF CutsInOrder
  <2>3. Rising(cutLog')
    BY <1>2, <1>4, <2>1, <2>2, RisingJoin
  <2>4. \A n : Among(n, cutLog') <=> Among(n, cutLog) \/ Among(n, h.cuts)
    BY <1>2, <1>4, AmongJoin
  <2>5. Below(cutLog', marks)
    BY <2>1, <2>2, <2>4 DEF Below
  <2>6. ASSUME NEW k \in DOMAIN queue'
        PROVE  /\ Rising(queue'[k].cuts) /\ Below(cutLog', queue'[k].cuts)
               /\ Below(queue'[k].cuts, marks)
               /\ \A j \in DOMAIN queue' : j < k => Below(queue'[j].cuts, queue'[k].cuts)
    <3>1. k + 1 \in DOMAIN queue /\ queue'[k] = queue[k + 1] /\ k \in Int /\ 1 < k + 1
      BY <1>2, <2>6
    <3>2. /\ Rising(queue[k + 1].cuts) /\ Below(cutLog, queue[k + 1].cuts)
          /\ Below(queue[k + 1].cuts, marks)
          /\ \A j \in DOMAIN queue : j < k + 1 => Below(queue[j].cuts, queue[k + 1].cuts)
      BY <1>3, <3>1 DEF CutsInOrder
    <3>3. Below(h.cuts, queue[k + 1].cuts)
      BY <1>1, <1>4, <3>1, <3>2
    <3>4. Below(cutLog', queue[k + 1].cuts)
      BY <2>4, <3>2, <3>3 DEF Below
    <3>5. ASSUME NEW j \in DOMAIN queue', j < k PROVE Below(queue'[j].cuts, queue'[k].cuts)
      <4>1. j + 1 \in DOMAIN queue /\ queue'[j] = queue[j + 1] /\ j + 1 < k + 1
        BY <1>2, <3>1, <3>5
      <4> QED
        BY <3>1, <3>2, <4>1
    <3> QED
      BY <3>1, <3>2, <3>4, <3>5
  <2>7. /\ \A s : Rising(s)' <=> Rising(s)
        /\ \A s, t : Below(s, t)' <=> Below(s, t)
    BY DEF Rising, Below, Among
  <2> QED
    BY <1>2, <2>2, <2>3, <2>5, <2>6 DEF CutsInOrder, Rising, Below, Among
<1>9. CutsKept'
  <2>1. \A n : Known(n)' <=> Known(n)
    <3> TAKE n
    <3>1. Known(n) => Known(n)'
      BY <1>2, <1>5, <1>7 DEF Known
    <3>2. Known(n)' => Known(n)
      BY <1>2, <1>5, <1>6 DEF Known
    <3> QED
      BY <3>1, <3>2
  <2> QED
    BY <1>2, <1>3, <2>1 DEF CutsKept
<1>10. CutsAhead'
  <2>1. ASSUME NEW n, NEW k \in DOMAIN queue', Among(n, marks) PROVE queue'[k].frame < n
    BY <1>2, <1>3, <2>1 DEF CutsAhead
  <2>2. ASSUME NEW n, NEW k, NEW j \in DOMAIN queue', Carries(k, n)', j < k
        PROVE  queue'[j].frame < n
    <3>1. /\ k \in DOMAIN queue' /\ Carries(k + 1, n) /\ j + 1 \in DOMAIN queue
          /\ queue'[j] = queue[j + 1] /\ j + 1 < k + 1
      BY <1>2, <1>6, <2>2
    <3> QED
      BY <1>3, <3>1 DEF CutsAhead
  <2>3. ASSUME NEW n, Coming(n)'
        PROVE  /\ h.frame < n /\ \A k \in DOMAIN pending : pending[k].frame < n
               /\ \A k \in DOMAIN written : written[k].frame < n
    <3>1. Coming(n)
      BY <1>2, <1>6, <2>3 DEF Coming
    <3>2. CASE Among(n, marks)
      BY <1>1, <1>3, <1>4, <3>1, <3>2 DEF CutsAhead
    <3>3. ASSUME NEW k, Carries(k, n)' PROVE h.frame < n
      <4>1. Carries(k + 1, n) /\ 1 < k + 1
        BY <1>2, <1>6, <3>3
      <4> QED
        BY <1>1, <1>3, <1>4, <4>1 DEF CutsAhead
    <3> QED
      BY <1>2, <1>3, <2>3, <3>1, <3>2, <3>3 DEF CutsAhead, Coming
  <2>4. ASSUME NEW n, Coming(n)'
        PROVE  /\ \A k \in DOMAIN pending' : pending'[k].frame < n
               /\ \A k \in DOMAIN written' : written'[k].frame < n
    <3>1. CASE UNCHANGED <<pending, written>>
      BY <2>3, <2>4, <3>1
    <3>2. CASE written' = written \o pending /\ pending' = <<h>>
      <4>1. \A k \in DOMAIN pending' : pending'[k].frame < n
        BY <2>3, <2>4, <3>2
      <4>2. ASSUME NEW k \in DOMAIN written' PROVE written'[k].frame < n
        <5>1. /\ pending \in Seq(Shown) /\ written \in Seq(Shown) /\ Len(pending) <= 1
          BY <1>3 DEF EndpointTypes, EndpointPhases
        <5>2. \/ k \in DOMAIN written /\ written'[k] = written[k]
              \/ 1 \in DOMAIN pending /\ written'[k] = pending[1]
          BY <3>2, <4>2, <5>1, Keeps
        <5> QED
          BY <2>3, <2>4, <5>2
      <4> QED
        BY <4>1, <4>2
    <3> QED
      BY <1>2, <3>1, <3>2
  <2>5. \A n, k : Among(n, marks') <=> Among(n, marks)
    BY <1>2
  <2> QED
    BY <2>1, <2>2, <2>4, <2>5 DEF CutsAhead, Among
<1> QED
  BY <1>8, <1>9, <1>10

\* At the end a frame is held back; the last one of the stream, or that of the limit.
LEMMA AtEnd ==
  ASSUME EndpointInv, EndpointFinish, NEW p, p = pending[1]
  PROVE  /\ p \in Shown /\ Len(pending) = 1 /\ DOMAIN pending = {1} /\ fed # 0
         /\ p.slot = HeadSlot - 1 /\ Timed(p) /\ Lasts(p) /\ InPlace(p)
         /\ run \in {"flushed", "stopped"}
         /\ run = "flushed" =>
              /\ HeadSlot = nextSlot
              /\ UntilOf(Len(film)) < SlotTime(nextSlot)
              /\ FrameEnd(Len(film)) - grid <= UntilOf(Len(film))
<1>1. /\ EndpointTypes /\ EndpointPhases /\ InSlots /\ OnGrid /\ AllInPlace /\ FromZero
      /\ run \in {"flushed", "stopped"} /\ (run = "flushed" => queue = <<>>)
  BY DEF EndpointInv, EndpointFinish
<1>2. /\ pending \in Seq(Shown) /\ nextSlot \in Int /\ Len(film) \in Nat /\ Len(film) >= 1
      /\ grid \in Nat /\ grid # 0 /\ Len(film) \in 1..Len(film)
  BY <1>1, FilmIs DEF EndpointTypes
<1>3. ASSUME run = "flushed"
      PROVE  /\ HeadSlot = nextSlot /\ fed = Len(film) /\ Passed = Len(film)
             /\ UntilOf(Len(film)) < SlotTime(nextSlot)
  <2>1. fed = Len(film) /\ Passed = Len(film) /\ queue = <<>>
    BY <1>1, <1>3 DEF EndpointPhases, Passed
  <2>2. UntilOf(Len(film)) < SlotTime(nextSlot)
    BY <1>1, <1>2, <2>1 DEF AllInPlace
  <2> QED
    BY <1>2, <2>1, <2>2 DEF HeadSlot
<1>4. pending # <<>>
  <2>1. CASE run = "stopped"
    BY <1>1, <2>1 DEF EndpointPhases
  <2>2. CASE run = "flushed"
    <3>1. 0 < SlotTime(nextSlot)
      <4>1. 0 <= FrameTime(Len(film)) /\ FrameTime(Len(film)) <= UntilOf(Len(film))
        BY <1>1, <1>2, FrameTimes, Untils
      <4>2. /\ FrameTime(Len(film)) \in Int /\ UntilOf(Len(film)) \in Int
            /\ SlotTime(nextSlot) \in Int
        BY <1>1, <1>2, FrameTimes, Untils, SlotTimes
      <4> QED
        BY <1>3, <2>2, <4>1, <4>2
    <3>2. nextSlot > 0
      BY <1>2, <3>1, SlotTimes
    <3>3. ~(HeadSlot <= 0) /\ fed > 0 /\ run # "finished"
      BY <1>2, <1>3, <2>2, <3>2
    <3> QED
      BY <1>1, <3>3 DEF FromZero
  <2> QED
    BY <1>1, <2>1, <2>2
<1>5. Len(pending) = 1 /\ DOMAIN pending = {1} /\ 1 \in DOMAIN pending
  <2>1. Len(pending) <= 1
    BY <1>1 DEF EndpointPhases
  <2>2. Len(pending) = 1 /\ DOMAIN pending = 1..1
    <3>1. Len(pending) \in Nat /\ Len(pending) # 0 /\ DOMAIN pending = 1..Len(pending)
      <4>1. \A s \in Seq(Shown) :
              s # <<>> => Len(s) \in Nat /\ Len(s) # 0 /\ DOMAIN s = 1..Len(s)
        OBVIOUS
      <4> QED
        BY <1>2, <1>4, <4>1
    <3>2. Len(pending) = 1
      BY ONLY <2>1, <3>1
    <3> QED
      BY ONLY <3>1, <3>2
  <2> QED
    BY ONLY <2>2
<1>6. p \in Shown /\ p.slot = HeadSlot - 1 /\ Timed(p) /\ Lasts(p) /\ InPlace(p)
  <2>1. p \in Shown
    BY <1>2, <1>5
  <2> QED
    BY <1>1, <1>4, <1>5, <2>1 DEF InSlots, OnGrid, AllInPlace
<1>7. fed # 0
  BY <1>1, <1>4 DEF EndpointPhases
<1>8. run = "flushed" => FrameEnd(Len(film)) - grid <= UntilOf(Len(film))
  BY <1>1, <1>2, Untils DEF EndsShot
<1> QED
  BY <1>1, <1>3, <1>5, <1>6, <1>7, <1>8

\* What the last frame becomes.
LEMMA Clamps ==
  ASSUME EndpointTypes, NEW p \in Shown, NEW c, c = Clamped(p)
  PROVE  /\ SourceEnd \in Int /\ FrameEnd(Len(film)) = 4 * SourceEnd
         /\ c \in Shown /\ c.frame = p.frame /\ c.slot = p.slot /\ c.pts = p.pts
         /\ preserve =>
              c.dur = IF SourceEnd - p.pts < 1 THEN 1
                      ELSE IF SourceEnd - p.pts < p.dur THEN SourceEnd - p.pts ELSE p.dur
         /\ ~preserve => c.dur = p.dur
<1> USE DEF EndpointTypes
<1>1. PICK end \in Int : end = SourceEnd
  <2>1. Len(film) \in 1..Len(film)
    BY FilmIs
  <2>2. film[Len(film)].pts \in Int /\ film[Len(film)].dur \in Int
    BY <2>1, FilmIs DEF SourceFrame
  <2> QED
    BY <2>2 DEF SourceEnd
<1>2. FrameEnd(Len(film)) = 4 * SourceEnd
  BY DEF FrameEnd, SourceEnd
<1>3. PICK d \in Int : d = IF end - p.pts < 1 THEN 1
                           ELSE IF end - p.pts < p.dur THEN end - p.pts ELSE p.dur
  BY DEF Shown
<1> HIDE DEF EndpointTypes
<1>4. CASE preserve
  <2>1. c = [p EXCEPT !.dur = d]
    BY <1>1, <1>3, <1>4 DEF Clamped
  <2>2. /\ c \in Shown /\ c.frame = p.frame /\ c.slot = p.slot /\ c.pts = p.pts /\ c.dur = d
    BY ONLY <2>1, p \in Shown, d \in Int DEF Shown
  <2> QED
    BY <1>1, <1>2, <1>3, <1>4, <2>2
<1>5. CASE ~preserve
  <2>1. c = p
    BY <1>5 DEF Clamped
  <2> QED
    BY <1>1, <1>2, <1>5, <2>1
<1> QED
  BY <1>4, <1>5

LEMMA Finishes ==
  ASSUME EndpointInv, EndpointFinish
  PROVE  EndpointInv'
<1>1. PICK p, c : p = pending[1] /\ c = Clamped(p)
  OBVIOUS
<1>2. /\ EndpointTypes /\ EndpointPhases /\ InSlots /\ OnGrid /\ AllInPlace /\ FromZero
      /\ CutsInOrder /\ CutsKept /\ CutsAhead /\ LedgerAddsUp
  BY DEF EndpointInv
<1>3. /\ p \in Shown /\ Len(pending) = 1 /\ DOMAIN pending = {1} /\ fed # 0
      /\ p.slot = HeadSlot - 1 /\ Timed(p) /\ Lasts(p) /\ InPlace(p)
      /\ run \in {"flushed", "stopped"}
      /\ run = "flushed" =>
           /\ HeadSlot = nextSlot
           /\ UntilOf(Len(film)) < SlotTime(nextSlot)
           /\ FrameEnd(Len(film)) - grid <= UntilOf(Len(film))
  BY <1>1, AtEnd
<1>4. /\ SourceEnd \in Int /\ FrameEnd(Len(film)) = 4 * SourceEnd
      /\ c \in Shown /\ c.frame = p.frame /\ c.slot = p.slot /\ c.pts = p.pts
      /\ preserve =>
           c.dur = IF SourceEnd - p.pts < 1 THEN 1
                   ELSE IF SourceEnd - p.pts < p.dur THEN SourceEnd - p.pts ELSE p.dur
      /\ ~preserve => c.dur = p.dur
  BY <1>1, <1>2, <1>3, Clamps
<1>5. /\ written' = written \o <<c>> /\ pending' = <<>> /\ run' = "finished"
      /\ UNCHANGED <<film, grid, limit, preserve, stage, queue, cutLog>>
  <2>1. [k \in DOMAIN pending |-> Clamped(pending[k])] = [k \in 1..1 |-> c]
    BY <1>1, <1>3
  <2>2. [k \in 1..1 |-> c] = <<c>>
    OBVIOUS
  <2> QED
    BY <2>1, <2>2 DEF EndpointFinish
<1>6. /\ UNCHANGED <<fed, held, nextSlot, ledger, marks>>
      /\ HeadSlot' = HeadSlot /\ Passed' = Passed
  BY <1>5 DEF stage, HeadSlot, Passed
<1>7. /\ written \in Seq(Shown) /\ pending \in Seq(Shown) /\ Len(written) \in Nat
      /\ nextSlot \in Int /\ Len(queue) \in Nat /\ HeadSlot \in Int /\ limit \in Nat
      /\ grid \in Nat /\ grid # 0 /\ fed \in Nat
  <2>1. queue \in Seq(Shown) /\ written \in Seq(Shown) /\ pending \in Seq(Shown) /\ nextSlot \in Int
    BY <1>2 DEF EndpointTypes
  <2> QED
    BY <1>2, <2>1, FilmIs DEF HeadSlot, EndpointTypes
<1>8. /\ written' \in Seq(Shown) /\ Len(written') = Len(written) + 1
      /\ \A k \in 1..Len(written) : written'[k] = written[k] /\ k \in DOMAIN written
      /\ \A k \in DOMAIN written' :
           k \in 1..Len(written) \/ (k = Len(written) + 1 /\ written'[k] = c)
      /\ written'[Len(written')] = c /\ written' # <<>>
  <2>1. <<c>> \in Seq(Shown) /\ Len(<<c>>) = 1 /\ <<c>>[1] = c /\ Len(<<c>>) <= 1
    BY <1>4
  <2>2. /\ written \o <<c>> \in Seq(Shown) /\ Len(written \o <<c>>) = Len(written) + 1
        /\ \A k \in 1..Len(written) : (written \o <<c>>)[k] = written[k] /\ k \in DOMAIN written
        /\ \A k \in DOMAIN (written \o <<c>>) :
             k \in 1..Len(written) \/ (k = Len(written) + 1 /\ (written \o <<c>>)[k] = c)
    BY <1>7, <2>1, Keeps
  <2>3. (written \o <<c>>)[Len(written) + 1] = c /\ written \o <<c>> # <<>>
    BY <1>7, <2>2
  <2> QED
    BY <1>5, <2>2, <2>3
<1>9. EndpointTypes'
  <2>1. pending' \in Seq(Shown)
    BY <1>5
  <2> QED
    BY <1>2, <1>5, <1>6, <1>8, <2>1 DEF EndpointTypes
<1>10. EndpointPhases'
  <2>1. Len(pending') = 0 /\ Len(written') + Len(pending') <= limit
    <3>1. Len(written) + 1 <= limit
      BY <1>2, <1>3 DEF EndpointPhases
    <3> QED
      BY <1>5, <1>7, <1>8, <3>1
  <2> QED
    BY <1>3, <1>5, <1>6, <2>1 DEF EndpointPhases
<1>11. InSlots'
  <2>1. ASSUME NEW k \in DOMAIN written'
        PROVE  written'[k].slot = HeadSlot - 0 - (Len(written) + 1) + k - 1
    <3>1. CASE k \in 1..Len(written)
      <4>1. written[k].slot = HeadSlot - 1 - Len(written) + k - 1
        BY <1>2, <1>3, <1>8, <3>1 DEF InSlots
      <4> QED
        BY <1>7, <1>8, <3>1, <4>1
    <3>2. CASE k = Len(written) + 1 /\ written'[k] = c
      BY <1>3, <1>4, <1>7, <3>2
    <3> QED
      BY <1>8, <2>1, <3>1, <3>2
  <2>2. Len(pending') = 0
    BY <1>5
  <2>3. ASSUME NEW k \in DOMAIN written'
        PROVE  written'[k].slot = HeadSlot' - Len(pending') - Len(written') + k - 1
    BY <1>6, <1>8, <2>1, <2>2, <2>3
  <2>4. \A k \in DOMAIN queue' : queue'[k].slot = HeadSlot' + k - 1
    BY <1>2, <1>5, <1>6 DEF InSlots
  <2> QED
    BY <1>5, <2>3, <2>4 DEF InSlots
<1>12. OnGrid'
  <2>1. \A w : (Timed(w)' <=> Timed(w)) /\ (Lasts(w)' <=> Lasts(w))
    BY <1>5, StaysOnGrid
  <2>2. Timed(c)
    BY <1>3, <1>4 DEF Timed
  <2>3. ASSUME NEW k \in DOMAIN written'
        PROVE  Timed(written'[k]) /\ (k < Len(written') => Lasts(written'[k]))
    <3>1. CASE k \in 1..Len(written)
      BY <1>2, <1>3, <1>8, <3>1 DEF OnGrid
    <3>2. CASE k = Len(written) + 1 /\ written'[k] = c
      BY <1>7, <1>8, <2>2, <3>2
    <3> QED
      BY <1>8, <2>3, <3>1, <3>2
  <2>4. \A k \in DOMAIN queue' : Timed(queue'[k]) /\ Lasts(queue'[k])
    BY <1>2, <1>5 DEF OnGrid
  <2> QED
    BY <1>5, <2>1, <2>3, <2>4 DEF OnGrid
<1>13. AllInPlace'
  <2>1. \A w : InPlace(w) => InPlace(w)'
    BY <1>5, <1>6, <1>7, StaysInPlace
  <2>2. InPlace(c)
    BY <1>3, <1>4 DEF InPlace
  <2>3. ASSUME NEW k \in DOMAIN written' PROVE InPlace(written'[k])
    BY <1>2, <1>8, <2>2, <2>3 DEF AllInPlace
  <2>4. \A n \in 1..Passed' : UntilOf(n)' < SlotTime(nextSlot)'
    <3>1. \A n \in 1..Passed : UntilOf(n) < SlotTime(nextSlot)
      BY <1>2 DEF AllInPlace
    <3>2. SlotTime(nextSlot)' = SlotTime(nextSlot) /\ \A n : UntilOf(n)' = UntilOf(n)
      BY <1>5, <1>6, Still DEF SlotTime
    <3> QED
      BY <1>6, <3>1, <3>2
  <2>5. \A k \in DOMAIN queue' : InPlace(queue'[k])
    BY <1>2, <1>5 DEF AllInPlace
  <2> QED
    BY <1>5, <2>1, <2>3, <2>4, <2>5 DEF AllInPlace
<1>14. FromZero'
  <2>1. written'[1].pts = 0
    <3>1. CASE written # <<>>
      <4>1. 1 \in 1..Len(written)
        BY <1>7, <3>1
      <4> QED
        BY <1>2, <1>8, <3>1, <4>1 DEF FromZero
    <3>2. CASE written = <<>>
      <4>1. pending # <<>>
        BY <1>3
      <4>2. p.pts = 0
        BY <1>1, <1>2, <3>2, <4>1 DEF FromZero
      <4>3. Len(written') = 1
        BY <1>8, <3>2
      <4> QED
        BY <1>4, <1>8, <4>2, <4>3
    <3> QED
      BY <3>1, <3>2
  <2> QED
    BY <1>5, <1>8, <2>1 DEF FromZero
<1>15. CutsInOrder' /\ CutsKept'
  <2>1. CutsInOrder'
    BY <1>2, <1>5, <1>6 DEF CutsInOrder, Rising, Below, Among
  <2>2. \A n : Known(n)' <=> Known(n)
    BY <1>5, <1>6 DEF Known, Among, Carries
  <2>3. CutsKept'
    BY <1>2, <1>5, <1>6, <2>2 DEF CutsKept
  <2> QED
    BY <2>1, <2>3
<1>16. CutsAhead'
  <2>1. \A n, k : Carries(k, n)' <=> Carries(k, n)
    BY <1>5 DEF Carries, Among
  <2>2. \A n : Coming(n)' <=> Coming(n)
    BY <1>6, <2>1 DEF Coming, Among
  <2>3. ASSUME NEW n, Coming(n), NEW k \in DOMAIN written' PROVE written'[k].frame < n
    <3>1. /\ 1 \in DOMAIN pending /\ \A i \in DOMAIN pending : pending[i].frame < n
          /\ \A i \in DOMAIN written : written[i].frame < n
      BY <1>2, <1>3, <2>3 DEF CutsAhead
    <3>2. c.frame < n
      BY <1>1, <1>4, <3>1
    <3> QED
      BY <1>8, <2>3, <3>1, <3>2
  <2>4. \A n, k : Among(n, marks) /\ k \in DOMAIN queue => queue[k].frame < n
    BY <1>2 DEF CutsAhead
  <2>5. \A n, k, j : Carries(k, n) /\ j \in DOMAIN queue /\ j < k => queue[j].frame < n
    BY <1>2 DEF CutsAhead
  <2> QED
    BY <1>5, <1>6, <2>1, <2>2, <2>3, <2>4, <2>5 DEF CutsAhead, Among
<1>17. LedgerAddsUp'
  BY <1>2, <1>6 DEF LedgerAddsUp
<1>18. EndsWithSource'
  <2>1. PICK end \in Int, a \in Int, d \in Int : end = SourceEnd /\ a = p.pts /\ d = p.dur
    BY <1>3, <1>4 DEF Shown
  <2>2. /\ c.pts = a
        /\ preserve => c.dur = IF end - a < 1 THEN 1 ELSE IF end - a < d THEN end - a ELSE d
        /\ ~preserve => c.dur = d
    BY <1>4, <2>1
  <2>3. preserve => c.pts + c.dur <= end \/ c.dur = 1
    <3>1. CASE preserve
      <4>1. c.pts = a /\ c.dur = IF end - a < 1 THEN 1 ELSE IF end - a < d THEN end - a ELSE d
        BY ONLY <2>2, <3>1
      <4> QED
        BY ONLY <2>1, <4>1
    <3> QED
      BY <3>1
  <2>4. ASSUME Len(written) + 1 < limit
        PROVE  4 * (end - (c.pts + c.dur)) < grid + 2
    <3>1. run = "flushed"
      BY <1>2, <1>3, <1>7, <2>4 DEF EndpointPhases
    <3>2. p.slot = nextSlot - 1 /\ (nextSlot - 1) + 1 = nextSlot /\ nextSlot - 1 \in Int
      BY <1>3, <1>7, <3>1
    <3>3. a + d = GridTicks(nextSlot)
      <4>1. a = GridTicks(nextSlot - 1) /\ d = GridTicks(nextSlot) - GridTicks(nextSlot - 1)
        BY <1>3, <2>1, <3>2 DEF Timed, Lasts
      <4>2. GridTicks(nextSlot - 1) \in Int /\ GridTicks(nextSlot) \in Int
        BY <1>7, <3>2, Rounded
      <4> QED
        BY ONLY <4>1, <4>2
    <3>4. PICK x \in Int : x = nextSlot * grid
      BY <1>7, Products
    <3>5. x - 1 <= 2 * (a + d)
      BY <1>7, <3>3, <3>4, Rounded
    <3>6. 4 * end - grid < 2 * x
      <4>1. SlotTime(nextSlot) = 2 * x
        BY <1>7, <3>4, SlotTimes
      <4>2. UntilOf(Len(film)) \in Int
        BY <1>2, FilmIs, Untils
      <4>3. UntilOf(Len(film)) < 2 * x /\ 4 * end - grid <= UntilOf(Len(film))
        BY <1>3, <1>4, <2>1, <3>1, <4>1
      <4> QED
        BY <1>7, <2>1, <3>4, <4>2, <4>3
    <3>7. CASE preserve /\ end - a < 1
      <4>1. c.pts + c.dur = a + 1
        BY ONLY <2>2, <3>7
      <4> QED
        BY ONLY <1>7, <2>1, <3>7, <4>1
    <3>8. CASE preserve /\ ~(end - a < 1) /\ end - a < d
      <4>1. c.pts = a /\ c.dur = end - a
        BY ONLY <2>2, <3>8
      <4> QED
        BY ONLY <1>7, <2>1, <4>1
    <3>9. CASE ~preserve \/ (~(end - a < 1) /\ ~(end - a < d))
      <4>1. c.pts = a /\ c.dur = d
        BY ONLY <2>2, <3>9
      <4> QED
        <5>1. 2 * (a + d) >= x - 1 /\ c.pts + c.dur = a + d
          BY ONLY <3>5, <4>1, a \in Int, d \in Int, x \in Int
        <5>2. PICK e \in Int : e = a + d
          BY ONLY <2>1
        <5>3. 4 * e >= 2 * x - 2
          BY ONLY <3>4, <5>1, <5>2
        <5>4. 4 * (end - e) < grid + 2
          BY ONLY <1>7, <2>1, <3>4, <3>6, <5>2, <5>3
        <5> QED
          BY <5>1, <5>2, <5>4
    <3> QED
      BY ONLY <3>7, <3>8, <3>9
  <2>5. SourceEnd' = end /\ limit' = limit /\ grid' = grid /\ preserve' = preserve
    BY <1>5, <2>1 DEF SourceEnd
  <2> QED
    BY <1>8, <2>3, <2>4, <2>5 DEF EndsWithSource
<1> QED
  BY <1>9, <1>10, <1>11, <1>12, <1>13, <1>14, <1>15, <1>16, <1>17, <1>18 DEF EndpointInv

LEMMA EndpointStarts ==
  ASSUME EndpointInit
  PROVE  EndpointInv
<1>1. /\ film \in Films /\ grid \in Grids /\ limit \in Limits /\ preserve \in BOOLEAN
      /\ fed = 0 /\ held = 0 /\ nextSlot = -1000
      /\ ledger = [emitted |-> 0, dups |-> 0, drops |-> 0]
      /\ marks = <<>> /\ queue = <<>> /\ pending = <<>> /\ written = <<>> /\ cutLog = <<>>
      /\ run = "open"
  BY EndpointConstants DEF EndpointInit, EndpointStart, NoSlot
<1>2. EndpointTypes
  <2>1. <<>> \in Seq(Nat) /\ <<>> \in Seq(Shown) /\ -1000 \in Int
    OBVIOUS
  <2>2. fed \in 0..Len(film)
    BY <1>1, EndpointConstants
  <2>3. ledger \in [emitted : Int, dups : Int, drops : Int]
    BY <1>1
  <2> QED
    BY <1>1, <2>1, <2>2, <2>3 DEF EndpointTypes
<1>3. limit \in Nat /\ limit # 0 /\ DOMAIN <<>> = {} /\ Len(<<>>) = 0
  BY <1>2, FilmIs
<1>4. EndpointPhases
  BY <1>1, <1>3 DEF EndpointPhases
<1>5. InSlots /\ OnGrid /\ FromZero /\ EndsWithSource
  BY <1>1, <1>3 DEF InSlots, OnGrid, FromZero, EndsWithSource
<1>6. AllInPlace
  <2>1. Passed = 0 /\ 1..Passed = {}
    BY <1>1 DEF Passed
  <2> QED
    BY <1>1, <1>3, <2>1 DEF AllInPlace
<1>7. \A n : /\ ~Among(n, marks) /\ ~Among(n, cutLog) /\ \A k : ~Carries(k, n)
  BY <1>1, <1>3 DEF Among, Carries
<1>8. CutsInOrder
  BY <1>1, <1>3, <1>7, AmongFew DEF CutsInOrder, Below
<1>9. CutsKept /\ CutsAhead
  <2>1. 1..fed = {}
    BY <1>1
  <2> QED
    BY <1>7, <2>1 DEF CutsKept, CutsAhead, Known, Coming
<1>10. LedgerAddsUp
  BY <1>1 DEF LedgerAddsUp, Passed
<1> QED
  BY <1>2, <1>4, <1>5, <1>6, <1>8, <1>9, <1>10 DEF EndpointInv

\* The first frame.
LEMMA FirstFrame ==
  ASSUME EndpointInv, StageStarts
  PROVE  EndpointInv'
<1>1. /\ EndpointTypes /\ EndpointPhases /\ CutsInOrder /\ CutsKept /\ LedgerAddsUp
      /\ run = "open" /\ fed = 0 /\ held' = 1 /\ fed' = 1
      /\ UNCHANGED <<film, grid, limit, preserve, ledger, marks, queue, pending, written,
                  cutLog, run>>
  <2>1. EndpointTypes /\ EndpointPhases /\ CutsInOrder /\ CutsKept /\ LedgerAddsUp
    BY DEF EndpointInv
  <2> QED
    BY <2>1 DEF StageStarts, sink
<1>2. /\ queue = <<>> /\ pending = <<>> /\ written = <<>> /\ held = 0
      /\ Len(written) + Len(pending) < limit
  BY <1>1 DEF EndpointTypes, EndpointPhases
<1>3. nextSlot' \in Int /\ nextSlot' <= 0
  <2>1. FrameTime(1) \in Int /\ FrameTime(1) <= 0 /\ -FrameTime(1) \in Int /\ -FrameTime(1) >= 0
    BY <1>1, FilmIs, FrameTimes
  <2>2. SlotTime(1) \in Nat /\ SlotTime(1) # 0
    <3>1. grid \in Nat /\ grid # 0
      BY <1>1, FilmIs
    <3>2. SlotTime(1) = 2 * (1 * grid)
      BY <3>1, SlotTimes
    <3> QED
      BY <3>1, <3>2
  <2>3. (-FrameTime(1)) \div SlotTime(1) \in Int /\ (-FrameTime(1)) \div SlotTime(1) >= 0
    BY <2>1, <2>2, InSlot
  <2>4. nextSlot' = -((-FrameTime(1)) \div SlotTime(1))
    BY DEF StageStarts
  <2> QED
    BY ONLY <2>3, <2>4
<1>4. EndpointTypes'
  <2>1. 1 \in 0..Len(film)
    BY <1>1, FilmIs
  <2> QED
    BY <1>1, <1>3, <2>1 DEF EndpointTypes
<1>5. EndpointPhases'
  BY <1>1, <1>2 DEF EndpointPhases
<1>6. DOMAIN <<>> = {} /\ Len(<<>>) = 0
  OBVIOUS
<1>7. InSlots' /\ OnGrid' /\ EndsWithSource'
  BY <1>1, <1>2, <1>6 DEF InSlots, OnGrid, EndsWithSource
<1>8. FromZero'
  <2>1. HeadSlot' <= 0
    <3>1. Len(queue') = 0
      BY <1>1, <1>2, <1>6
    <3>2. HeadSlot' = nextSlot' - Len(queue')
      BY DEF HeadSlot
    <3> QED
      <4>1. \A x \in Int : x <= 0 => x - 0 <= 0
        OBVIOUS
      <4> QED
        BY <1>3, <3>1, <3>2, <4>1
  <2> QED
    BY <1>1, <1>2, <2>1 DEF FromZero
<1>9. Passed' = 0 /\ Passed = 0
  BY <1>1, <1>2 DEF Passed
<1>10. AllInPlace'
  BY <1>1, <1>2, <1>6, <1>9 DEF AllInPlace
<1>11. CutsInOrder'
  BY <1>1 DEF CutsInOrder, Rising, Below, Among
<1>12. \A n : Known(n)' <=> Known(n)
  BY <1>1 DEF Known, Among, Carries
<1>13. CutsKept'
  <2>1. \A n : ~Known(n)
    BY <1>1 DEF CutsKept
  <2>2. ~film[1].cut /\ 1..1 = {1}
    BY <1>1, FilmIs
  <2> QED
    BY <1>1, <1>12, <2>1, <2>2 DEF CutsKept
<1>14. CutsAhead'
  BY <1>1, <1>2, <1>6 DEF CutsAhead, Carries
<1>15. LedgerAddsUp'
  BY <1>1, <1>9 DEF LedgerAddsUp
<1> QED
  BY <1>4, <1>5, <1>7, <1>8, <1>10, <1>11, <1>13, <1>14, <1>15 DEF EndpointInv

\* Another frame, or the end of the stream.
LEMMA FillsAll ==
  ASSUME EndpointInv, NEW c, Fills(c),
         (run' = "open" /\ held' # 0) \/ (run' = "flushed" /\ held' = 0 /\ fed' = Len(film))
  PROVE  EndpointInv'
<1>1. /\ EndpointTypes' /\ InSlots' /\ OnGrid' /\ AllInPlace' /\ FromZero' /\ LedgerAddsUp'
      /\ CutsInOrder' /\ CutsKept' /\ CutsAhead'
  BY FillsSlots, FillsCuts
<1>2. /\ EndpointPhases /\ run = "open" /\ fed # 0 /\ fed \in Nat /\ fed' # 0
      /\ UNCHANGED <<film, limit, pending, written>>
  <2>1. EndpointPhases /\ EndpointTypes
    BY DEF EndpointInv
  <2>2. /\ run = "open" /\ fed # 0 /\ fed' \in {fed, fed + 1}
        /\ UNCHANGED <<film, limit, pending, written>>
    BY DEF Fills, sink
  <2>3. fed \in Nat
    BY <2>1, FilmIs DEF EndpointTypes
  <2> QED
    BY <2>1, <2>2, <2>3
<1>3. EndpointPhases'
  <2>1. /\ Len(pending) <= 1 /\ Len(written) + Len(pending) <= limit
        /\ Len(written) + Len(pending) < limit
    BY <1>2 DEF EndpointPhases
  <2> QED
    BY <1>2, <2>1 DEF EndpointPhases
<1>4. EndsWithSource'
  BY DEF EndsWithSource
<1> QED
  BY <1>1, <1>3, <1>4 DEF EndpointInv

LEMMA Takes ==
  ASSUME EndpointInv, StageTakes \/ StageEnds
  PROVE  EndpointInv'
<1>1. /\ EndpointTypes /\ run = "open" /\ held # 0 /\ held = fed
      /\ fed \in Nat /\ Len(film) \in Nat /\ fed <= Len(film)
  <2>1. EndpointTypes /\ run = "open" /\ held # 0
    BY DEF EndpointInv, StageTakes, StageEnds
  <2> QED
    BY <2>1, FilmIs DEF EndpointTypes
<1>2. Until = UntilOf(fed)
  <2>1. fed = Len(film) \/ (fed # Len(film) /\ fed < Len(film))
    BY <1>1
  <2> QED
    BY <1>1, <2>1 DEF Until, UntilOf, AtCut, Footage, Midpoint
<1>3. CASE StageTakes
  <2>1. Fills(Fill(UntilOf(fed)))
    BY <1>1, <1>2, <1>3 DEF StageTakes, Fills, AtCut
  <2>2. run' = "open" /\ held' # 0
    BY <1>1, <1>3 DEF StageTakes
  <2> QED
    BY <2>1, <2>2, FillsAll
<1>4. CASE StageEnds
  <2>1. Fills(Fill(UntilOf(fed)))
    BY <1>1, <1>2, <1>4 DEF StageEnds, Fills
  <2>2. run' = "flushed" /\ held' = 0 /\ fed' = Len(film)
    BY <1>1, <1>4 DEF StageEnds
  <2> QED
    BY <2>1, <2>2, FillsAll
<1> QED
  BY <1>3, <1>4

\* What does not depend on how far the run is.
LEMMA EndpointStays ==
  ASSUME EndpointInv, UNCHANGED <<film, grid, limit, preserve, stage, queue, sink>>,
         run' = run \/ (run = "open" /\ run' = "failed")
  PROVE  EndpointInv'
<1>1. /\ UNCHANGED <<film, grid, limit, preserve, fed, held, nextSlot, ledger, marks, queue>>
      /\ UNCHANGED <<pending, written, cutLog>>
  BY DEF stage, sink
<1>2. /\ EndpointTypes /\ EndpointPhases /\ InSlots /\ OnGrid /\ AllInPlace /\ FromZero
      /\ CutsInOrder /\ CutsKept /\ CutsAhead /\ LedgerAddsUp /\ EndsWithSource
  BY DEF EndpointInv
<1>3. EndpointTypes'
  BY <1>1, <1>2 DEF EndpointTypes
<1>4. EndpointPhases'
  BY <1>1, <1>2 DEF EndpointPhases
<1>5. InSlots'
  BY <1>1, <1>2 DEF InSlots, HeadSlot
<1>6. OnGrid'
  <2>1. \A w : (Timed(w)' <=> Timed(w)) /\ (Lasts(w)' <=> Lasts(w))
    BY <1>1, StaysOnGrid
  <2>2. run' # "finished" => run # "finished"
    OBVIOUS
  <2> QED
    BY <1>1, <1>2, <2>1, <2>2 DEF OnGrid
<1>7. AllInPlace'
  <2>1. \A w : InPlace(w) => InPlace(w)'
    <3>1. fed \in Nat /\ fed' \in Nat /\ fed <= fed'
      <4>1. fed \in Nat
        BY <1>2, FilmIs DEF EndpointTypes
      <4> QED
        BY <1>1, <4>1
    <3> QED
      BY <1>1, <3>1, StaysInPlace
  <2>2. /\ SlotTime(nextSlot)' = SlotTime(nextSlot) /\ Passed' = Passed
        /\ \A n : UntilOf(n)' = UntilOf(n)
    BY <1>1, Still DEF SlotTime, Passed
  <2> QED
    BY <1>1, <1>2, <2>1, <2>2 DEF AllInPlace
<1>8. FromZero'
  BY <1>1, <1>2 DEF FromZero, HeadSlot
<1>9. CutsInOrder' /\ CutsKept'
  BY <1>1, <1>2 DEF CutsInOrder, CutsKept, Rising, Below, Among, Known, Carries
<1>10. CutsAhead'
  BY <1>1, <1>2 DEF CutsAhead, Among, Coming, Carries
<1>11. LedgerAddsUp' /\ EndsWithSource'
  BY <1>1, <1>2 DEF LedgerAddsUp, Passed, EndsWithSource, SourceEnd
<1> QED
  BY <1>3, <1>4, <1>5, <1>6, <1>7, <1>8, <1>9, <1>10, <1>11 DEF EndpointInv

LEMMA EndpointStep ==
  ASSUME EndpointInv, [EndpointNext]_nvars
  PROVE  EndpointInv'
<1>1. CASE StageStarts
  BY <1>1, FirstFrame
<1>2. CASE StageTakes \/ StageEnds
  BY <1>2, Takes
<1>3. CASE StageRefuses
  BY <1>3, EndpointStays DEF StageRefuses
<1>4. CASE Consume
  BY <1>4, Consumes, ConsumesCuts DEF EndpointInv
<1>5. CASE EndpointFinish
  BY <1>5, Finishes
<1>6. CASE UNCHANGED nvars
  <2>1. UNCHANGED <<film, grid, limit, preserve, stage, queue, sink>> /\ run' = run
    BY <1>6 DEF nvars
  <2> QED
    BY <2>1, EndpointStays
<1> QED
  BY <1>1, <1>2, <1>3, <1>4, <1>5, <1>6 DEF EndpointNext

-----------------------------------------------------------------------------
(* The end of a file run: what it promises *)

\* What is sent is written, held back or in the queue.
LEMMA PartOf ==
  ASSUME NEW S, NEW s \in Seq(S), NEW t \in Seq(S)
  PROVE  \A k \in DOMAIN (s \o t) : \/ \E i \in DOMAIN s : (s \o t)[k] = s[i]
                                   \/ \E i \in DOMAIN t : (s \o t)[k] = t[i]
<1> TAKE k \in DOMAIN (s \o t)
<1>1. Among((s \o t)[k], s \o t)
  BY DEF Among
<1>2. Among((s \o t)[k], s) \/ Among((s \o t)[k], t)
  BY <1>1, AmongJoin
<1> QED
  BY <1>2 DEF Among

\* Each output is in its place.
LEMMA SentInPlace ==
  ASSUME EndpointInv, NEW k \in DOMAIN Sent
  PROVE  ShowsNearest(Sent[k]) /\ CutIsSharp(Sent[k])
<1>1. EndpointTypes /\ AllInPlace
  BY DEF EndpointInv
<1>2. /\ written \in Seq(Shown) /\ pending \in Seq(Shown) /\ queue \in Seq(Shown)
      /\ Sent = (written \o pending) \o queue
  BY <1>1 DEF EndpointTypes, Sent
<1>3. written \o pending \in Seq(Shown)
  BY <1>2
<1>4. \/ \E i \in DOMAIN written : Sent[k] = written[i]
      \/ \E i \in DOMAIN pending : Sent[k] = pending[i]
      \/ \E i \in DOMAIN queue : Sent[k] = queue[i]
  <2>1. \/ \E i \in DOMAIN (written \o pending) : Sent[k] = (written \o pending)[i]
        \/ \E i \in DOMAIN queue : Sent[k] = queue[i]
    <3>1. queue \in Seq(Shown) /\ Sent = (written \o pending) \o queue
      BY <1>2
    <3>2. PICK s \in Seq(Shown) : s = written \o pending
      BY <1>3
    <3>3. s \in Seq(Shown) /\ k \in DOMAIN (s \o queue) /\ Sent = s \o queue
      BY <3>1, <3>2
    <3>4. \/ \E i \in DOMAIN s : (s \o queue)[k] = s[i]
          \/ \E i \in DOMAIN queue : (s \o queue)[k] = queue[i]
      <4>1. queue \in Seq(Shown)
        BY <3>1
      <4> QED
        BY ONLY <3>3, <4>1, PartOf
    <3> QED
      BY ONLY <3>2, <3>3, <3>4
  <2>2. ASSUME NEW i \in DOMAIN (written \o pending)
        PROVE  \/ \E j \in DOMAIN written : (written \o pending)[i] = written[j]
               \/ \E j \in DOMAIN pending : (written \o pending)[i] = pending[j]
    <3>1. written \in Seq(Shown) /\ pending \in Seq(Shown)
      BY <1>2
    <3> QED
      BY ONLY <2>2, <3>1, PartOf
  <2> QED
    BY <2>1, <2>2
<1>5. PICK w : w = Sent[k]
  OBVIOUS
<1>6. w \in Shown /\ InPlace(w)
  BY <1>1, <1>2, <1>4, <1>5 DEF AllInPlace
<1>7. w.slot \in Int
  BY <1>6 DEF Shown
<1>8. ShowsNearest(w) /\ CutIsSharp(w)
  BY <1>1, <1>6, <1>7, PlaceShows
<1> QED
  BY <1>5, <1>8

\* The movie has no holes and no overlaps.
LEMMA NoHoles ==
  ASSUME EndpointInv, NEW k \in 2..Len(written)
  PROVE  written[k].pts = written[k - 1].pts + written[k - 1].dur
<1>1. EndpointTypes /\ InSlots /\ OnGrid
  BY DEF EndpointInv
<1>2. /\ written \in Seq(Shown) /\ pending \in Seq(Shown) /\ queue \in Seq(Shown)
      /\ nextSlot \in Int /\ grid \in Nat /\ grid # 0
  BY <1>1, FilmIs DEF EndpointTypes
<1>3. Len(written) \in Nat /\ Len(pending) \in Nat /\ HeadSlot \in Int
  BY <1>2 DEF HeadSlot
<1>4. k \in DOMAIN written /\ k - 1 \in DOMAIN written /\ k - 1 < Len(written)
  BY <1>2, <1>3
<1>5. PICK m \in Int : m = HeadSlot - Len(pending) - Len(written) + (k - 1) - 1
  <2>1. k \in Int
    OBVIOUS
  <2>2. HeadSlot - Len(pending) - Len(written) + (k - 1) - 1 \in Int
    BY ONLY <1>3, <2>1
  <2> QED
    BY <2>2
<1>6. written[k].slot = m + 1 /\ written[k - 1].slot = m
  BY <1>1, <1>3, <1>4, <1>5 DEF InSlots
<1>7. /\ written[k].pts = GridTicks(m + 1) /\ written[k - 1].pts = GridTicks(m)
      /\ written[k - 1].dur = GridTicks(m + 1) - GridTicks(m)
  BY <1>1, <1>4, <1>6 DEF OnGrid, Timed, Lasts
<1>8. GridTicks(m) \in Int /\ GridTicks(m + 1) \in Int
  <2>1. m \in Int /\ m + 1 \in Int
    BY <1>5
  <2>2. grid \in Nat /\ grid # 0
    BY <1>2
  <2> QED
    BY ONLY <2>1, <2>2, Rounded
<1> QED
  BY ONLY <1>7, <1>8

\* The log holds the cuts in order, all those up to the last frame of the movie.
LEMMA CutsLogged ==
  ASSUME EndpointInv
  PROVE  /\ \A k \in DOMAIN cutLog : film[cutLog[k]].cut /\ (k > 1 => cutLog[k - 1] < cutLog[k])
         /\ \A n \in DOMAIN film : film[n].cut /\ (\E k \in DOMAIN written : written[k].frame >= n)
              => \E k \in DOMAIN cutLog : cutLog[k] = n
<1>1. /\ EndpointTypes /\ AllInPlace /\ CutsInOrder /\ CutsKept /\ CutsAhead
  BY DEF EndpointInv
<1>2. cutLog \in Seq(Nat) /\ written \in Seq(Shown) /\ fed \in Nat /\ DOMAIN film = 1..Len(film)
  BY <1>1, FilmIs DEF EndpointTypes
<1>3. ASSUME NEW k \in DOMAIN cutLog
      PROVE  film[cutLog[k]].cut /\ (k > 1 => cutLog[k - 1] < cutLog[k])
  <2>1. Among(cutLog[k], cutLog)
    BY DEF Among
  <2>2. film[cutLog[k]].cut
    BY <1>1, <2>1 DEF CutsKept, Known
  <2>3. k > 1 => k \in 2..Len(cutLog)
    BY <1>2, <1>3
  <2> QED
    BY <1>1, <2>2, <2>3 DEF CutsInOrder, Rising
<1>4. ASSUME NEW n \in DOMAIN film, film[n].cut, NEW k \in DOMAIN written, written[k].frame >= n
      PROVE  \E i \in DOMAIN cutLog : cutLog[i] = n
  <2>1. written[k].frame \in 1..fed
    BY <1>1 DEF AllInPlace, InPlace
  <2>2. n \in 1..fed
    <3>1. n \in Nat /\ n >= 1
      BY <1>2, <1>4
    <3> QED
      BY <1>2, <1>4, <2>1, <3>1
  <2>3. Known(n)
    BY <1>1, <1>4, <2>2 DEF CutsKept
  <2>4. ~Coming(n)
    <3>1. Coming(n) => written[k].frame < n
      BY <1>1 DEF CutsAhead
    <3> QED
      BY <1>2, <1>4, <2>1, <2>2, <3>1
  <2> QED
    BY <2>3, <2>4 DEF Known, Coming, Among
<1> QED
  BY <1>3, <1>4

LEMMA EndpointSafe ==
  ASSUME EndpointInv
  PROVE  MovieFollowsSource
<1>1. /\ EndpointTypes /\ EndpointPhases /\ FromZero /\ LedgerAddsUp /\ EndsWithSource
  BY DEF EndpointInv
<1>2. Len(written) <= limit
  <2>1. written \in Seq(Shown) /\ pending \in Seq(Shown) /\ limit \in Nat
    BY <1>1, FilmIs DEF EndpointTypes
  <2>2. Len(written) \in Nat /\ Len(pending) \in Nat
    BY <2>1
  <2>3. Len(written) + Len(pending) <= limit
    BY <1>1 DEF EndpointPhases
  <2> QED
    BY ONLY <2>1, <2>2, <2>3
<1>3. held = 0 /\ fed > 0 => ledger.emitted = fed + ledger.dups - ledger.drops
  BY <1>1 DEF LedgerAddsUp, Passed
<1>4. /\ \A k \in DOMAIN Sent : ShowsNearest(Sent[k]) /\ CutIsSharp(Sent[k])
      /\ \A k \in 2..Len(written) : written[k].pts = written[k - 1].pts + written[k - 1].dur
  BY SentInPlace, NoHoles
<1>5. written # <<>> => written[1].pts = 0
  BY <1>1 DEF FromZero
<1> QED
  BY <1>1, <1>2, <1>3, <1>4, <1>5, CutsLogged DEF MovieFollowsSource, EndsWithSource

\* The movie of a file run, for every film whose frames last a tick at least and do not
\* overlap, and every slot of whole half ticks: without holes from the start, each slot
\* with the frame nearest to it among those of that frame's own shot, the cuts sharp and
\* logged in order, to the limit or to the end of the source, which a chain that
\* preserves the duration does not pass (processors/conform, pipeline/run.py).
THEOREM MovieFollowsTheSource == EndpointSpec => []MovieFollowsSource
<1>1. EndpointInit => EndpointInv
  BY EndpointStarts
<1>2. EndpointInv /\ [EndpointNext]_nvars => EndpointInv'
  BY EndpointStep
<1>3. EndpointInv => MovieFollowsSource
  BY EndpointSafe
<1> QED
  BY <1>1, <1>2, <1>3, PTL DEF EndpointSpec

-----------------------------------------------------------------------------
(* Joined recordings *)

\* Intervals of a recording of pace d: one may be doubled by a damaged stamp.
Steady(q, d) ==
  /\ q \in Seq({d, 2 * d})
  /\ \A i, j \in DOMAIN q : q[i] = 2 * d /\ q[j] = 2 * d => i = j
  /\ Len(q) = 1 => q[1] = d

\* The median is the pace.
LEMMA SteadyMedian ==
  ASSUME NEW d \in Nat \ {0}, NEW q, Steady(q, d), q # <<>>
  PROVE  DeltaMedian(q) = d
<1>1. PICK len \in Nat : len = Len(q) /\ DOMAIN q = 1..len /\ len # 0
  BY DEF Steady
<1>2. \A i \in 1..len : q[i] = d \/ q[i] = 2 * d
  BY <1>1 DEF Steady
<1>3. PICK half \in Nat : half = (len - 1) \div 2
  BY <1>1
<1>4. 2 * half <= len - 1
  BY ONLY <1>1, <1>3
<1> DEFINE below(x) == {i \in 1..len : q[i] < x}
           upto(x)  == {i \in 1..len : q[i] <= x}
<1>5. IsFiniteSet(1..len) /\ Cardinality(1..len) = len
  <2>1. /\ IsFiniteSet(1..len)
        /\ Cardinality(1..len) = IF 1 > len THEN 0 ELSE len - 1 + 1
    BY FS_Interval
  <2> QED
    BY ONLY <1>1, <2>1
<1>6. below(d) = {}
  BY <1>2
<1>7. Cardinality(below(d)) <= half
  BY <1>3, <1>6, FS_EmptySet
<1>8. below(2 * d) = upto(d)
  BY <1>2
<1>9. Cardinality(upto(d)) > half
  <2>1. CASE \A i \in 1..len : q[i] = d
    <3>1. upto(d) = 1..len
      BY <2>1
    <3>2. Cardinality(upto(d)) = len
      BY <1>5, <3>1
    <3> HIDE DEF upto
    <3> QED
      BY ONLY <1>1, <1>3, <1>4, <3>2
  <2>2. CASE \E i \in 1..len : q[i] # d
    <3>1. PICK j \in 1..len : q[j] = 2 * d /\ q[j] # d
      BY <1>2, <2>2
    <3>2. \A i \in 1..len : q[i] = 2 * d => i = j
      BY <1>1, <3>1 DEF Steady
    <3>3. \A i \in 1..len : i # j => q[i] = d
      BY <1>2, <3>2
    <3>4. upto(d) = (1..len) \ {j}
      <4>1. ~(q[j] <= d)
        BY <3>1
      <4> QED
        BY <3>3, <4>1
    <3>5. Cardinality(upto(d)) = len - 1
      BY <1>5, <3>1, <3>4, FS_RemoveElement
    <3>6. len # 1
      BY <1>1, <3>1 DEF Steady
    <3> HIDE DEF upto
    <3> QED
      BY ONLY <1>1, <1>3, <1>4, <3>5, <3>6
  <2> QED
    BY <2>1, <2>2
<1> DEFINE Mid(x) == Cardinality(below(x)) <= half /\ Cardinality(upto(x)) > half
<1>10. Mid(d)
  BY <1>7, <1>9
<1>11. \A x \in ToSet(q) : Mid(x) => x = d
  <2> SUFFICES ASSUME NEW x \in ToSet(q), Mid(x), x # d PROVE FALSE
    OBVIOUS
  <2>1. x = 2 * d
    BY <1>1, <1>2 DEF ToSet
  <2>2. Cardinality(upto(d)) <= half
    BY <1>8, <2>1
  <2>3. Cardinality(upto(d)) \in Nat
    <3>1. upto(d) \in SUBSET (1..len)
      OBVIOUS
    <3> QED
      BY <1>5, <3>1, FS_Subset, FS_CardinalityType
  <2> QED
    BY <1>3, <1>9, <2>2, <2>3
<1>12. d \in ToSet(q)
  <2>1. upto(d) # {}
    <3>1. upto(d) = {} => Cardinality(upto(d)) = 0
      BY FS_EmptySet
    <3> HIDE DEF upto
    <3> QED
      BY <1>3, <1>9, <3>1
  <2>2. PICK i \in 1..len : q[i] <= d
    BY <2>1
  <2>3. q[i] = d
    BY <1>2, <2>2
  <2> QED
    BY <1>1, <2>3 DEF ToSet
<1>13. DeltaMedian(q) = CHOOSE x \in ToSet(q) : Mid(x)
  BY <1>1, <1>3 DEF DeltaMedian
<1> HIDE DEF Mid
<1> QED
  BY <1>10, <1>11, <1>12, <1>13


\* What is kept of them, and a new one.
Kept(q) == SubSeq(q, Max({1, Len(q) - Recent + 1}), Len(q))

LEMMA KeptAre ==
  ASSUME NEW S, NEW q \in Seq(S), q # <<>>
  PROVE  \E from \in 1..Len(q) :
           /\ Kept(q) \in Seq(S) /\ Len(Kept(q)) = Len(q) - from + 1
           /\ \A i \in DOMAIN Kept(q) : i + from - 1 \in DOMAIN q /\ Kept(q)[i] = q[i + from - 1]
           /\ Len(Kept(q)) = 1 => Len(q) = 1
<1>1. PICK len \in Nat : len = Len(q) /\ DOMAIN q = 1..len /\ len # 0
  OBVIOUS
<1>2. Recent \in Nat \ {0, 1}
  BY EpochConstants
<1>3. PICK from \in 1..len : from = Max({1, len - Recent + 1}) /\ (len - from + 1 = 1 => len = 1)
  <2>1. Max({1, len - Recent + 1}) = IF 1 >= len - Recent + 1 THEN 1 ELSE len - Recent + 1
    BY <1>1, <1>2, MaxOfTwo
  <2> QED
    BY <1>1, <1>2, <2>1
<1>4. Kept(q) = SubSeq(q, from, len)
  BY <1>1, <1>3 DEF Kept
<1>5. /\ SubSeq(q, from, len) \in Seq(S) /\ Len(SubSeq(q, from, len)) = len - from + 1
      /\ \A i \in 1..(len - from + 1) : SubSeq(q, from, len)[i] = q[i + from - 1]
  <2>1. \A i \in from..len : q[i] \in S
    BY <1>1, <1>3
  <2>2. from <= len /\ len - from + 1 \in Nat /\ from \in Int /\ len \in Int
    BY <1>1, <1>3
  <2>3. /\ SubSeq(q, from, len) \in Seq(S)
        /\ Len(SubSeq(q, from, len)) = IF from <= len THEN len - from + 1 ELSE 0
        /\ \A i \in 1..(len - from + 1) : SubSeq(q, from, len)[i] = q[from + i - 1]
    BY <2>1, <2>2, SubSeqProperties
  <2>4. \A i \in 1..(len - from + 1) : from + i - 1 = i + from - 1
    BY <2>2
  <2> QED
    BY <2>2, <2>3, <2>4
<1>6. PICK k : k = Kept(q)
  OBVIOUS
<1>7. /\ k \in Seq(S) /\ Len(k) = len - from + 1
      /\ \A i \in 1..(len - from + 1) : k[i] = q[i + from - 1]
  BY <1>4, <1>5, <1>6
<1>8. DOMAIN k = 1..(len - from + 1) /\ \A i \in 1..(len - from + 1) : i + from - 1 \in 1..len
  BY <1>1, <1>3, <1>7
<1> QED
  BY <1>1, <1>3, <1>6, <1>7, <1>8

\* One more interval of the pace, or the first one that is doubled.
LEMMA SteadyOn ==
  ASSUME NEW d \in Nat \ {0}, NEW q, Steady(q, d), NEW x,
         \/ x = d
         \/ x = 2 * d /\ q # <<>> /\ \A i \in DOMAIN q : q[i] = d
  PROVE  /\ Steady(Kept(Append(q, x)), d) /\ Kept(Append(q, x)) # <<>>
         /\ (\A i \in DOMAIN q : q[i] = d) /\ x = d =>
              \A i \in DOMAIN Kept(Append(q, x)) : Kept(Append(q, x))[i] = d
<1>1. PICK all : all = Append(q, x)
  OBVIOUS
<1>2. PICK len \in Nat : len = Len(q) /\ DOMAIN q = 1..len /\ q \in Seq({d, 2 * d})
  BY DEF Steady
<1>3. all \in Seq({d, 2 * d}) /\ Len(all) = len + 1 /\ DOMAIN all = 1..(len + 1)
  BY <1>1, <1>2
<1>4. all[len + 1] = x /\ \A i \in 1..len : all[i] = q[i]
  BY <1>1, <1>2
<1>5. \A i, j \in DOMAIN all : all[i] = 2 * d /\ all[j] = 2 * d => i = j
  <2>1. d # 2 * d
    OBVIOUS
  <2>2. CASE x = d
    <3>1. \A i \in DOMAIN all : all[i] = 2 * d => i \in 1..len /\ q[i] = 2 * d
      BY <1>2, <1>3, <1>4, <2>1, <2>2
    <3> QED
      BY <1>2, <3>1 DEF Steady
  <2>3. CASE x = 2 * d /\ \A i \in DOMAIN q : q[i] = d
    <3>1. \A i \in DOMAIN all : all[i] = 2 * d => i = len + 1
      BY <1>2, <1>3, <1>4, <2>1, <2>3
    <3> QED
      BY <3>1
  <2> QED
    BY <2>2, <2>3
<1>6. Len(all) = 1 => all[1] = d
  <2>1. Len(all) = 1 => len = 0 /\ q = <<>>
    BY <1>2, <1>3
  <2> QED
    BY <1>4, <2>1
<1>7. all # <<>>
  BY <1>3
<1>8. PICK from \in 1..Len(all) :
        /\ Kept(all) \in Seq({d, 2 * d}) /\ Len(Kept(all)) = Len(all) - from + 1
        /\ \A i \in DOMAIN Kept(all) : i + from - 1 \in DOMAIN all /\ Kept(all)[i] = all[i + from - 1]
        /\ Len(Kept(all)) = 1 => Len(all) = 1
  BY <1>3, <1>7, KeptAre
<1>9. PICK k : k = Kept(all)
  OBVIOUS
<1>10. /\ from \in 1..(len + 1) /\ k \in Seq({d, 2 * d}) /\ Len(k) = len + 2 - from
       /\ DOMAIN k = 1..(len + 2 - from)
       /\ \A i \in DOMAIN k : i + from - 1 \in DOMAIN all /\ k[i] = all[i + from - 1]
       /\ Len(k) = 1 => Len(all) = 1
  BY <1>3, <1>8, <1>9
<1>11. k # <<>>
  BY <1>10
<1>12. \A i, j \in DOMAIN k : k[i] = 2 * d /\ k[j] = 2 * d => i = j
  <2> SUFFICES ASSUME NEW i \in DOMAIN k, NEW j \in DOMAIN k, k[i] = 2 * d, k[j] = 2 * d
               PROVE  i = j
    OBVIOUS
  <2>1. i + from - 1 = j + from - 1
    BY <1>5, <1>10
  <2> QED
    BY <1>10, <2>1
<1>13. Len(k) = 1 => k[1] = d
  <2> SUFFICES ASSUME Len(k) = 1 PROVE k[1] = d
    OBVIOUS
  <2>1. len = 0 /\ from = 1 /\ 1 \in DOMAIN k
    BY <1>3, <1>10
  <2> QED
    BY <1>3, <1>6, <1>10, <2>1
<1>14. (\A i \in DOMAIN q : q[i] = d) /\ x = d => \A i \in DOMAIN k : k[i] = d
  <2> SUFFICES ASSUME \A i \in DOMAIN q : q[i] = d, x = d PROVE \A i \in DOMAIN k : k[i] = d
    OBVIOUS
  <2>1. \A i \in 1..(len + 1) : all[i] = d
    BY <1>2, <1>4
  <2> QED
    BY <1>3, <1>10, <2>1
<1> QED
  BY <1>1, <1>9, <1>10, <1>11, <1>12, <1>13, <1>14 DEF Steady

\* What an unwrapper remembers.
Unwrapper ==
  [fed : BOOLEAN, offset : Int, prev : Int, top : Int, deltas : Seq(Int), pending : Seq(Int),
   resets : Nat, adjusted : Int]

LEMMA Absorbs ==
  ASSUME NEW u \in Unwrapper, NEW pts, ~StaysBack(u, pts)
  PROVE  /\ Confirm(u, pts) \in Unwrapper
         /\ Confirm(u, pts).pending = <<>>
         /\ Confirm(u, pts).fed = u.fed /\ Confirm(u, pts).offset = u.offset
         /\ Confirm(u, pts).prev = u.prev /\ Confirm(u, pts).top = u.top
         /\ Confirm(u, pts).deltas = u.deltas /\ Confirm(u, pts).resets = u.resets
<1>1. Confirm(u, pts) = [u EXCEPT !.pending = <<>>]
  BY DEF Confirm
<1>2. <<>> \in Seq(Int)
  OBVIOUS
<1>3. PICK c : c = [u EXCEPT !.pending = <<>>]
  OBVIOUS
<1>4. c \in Unwrapper
  BY <1>2, <1>3 DEF Unwrapper
<1>5. /\ c.pending = <<>> /\ c.fed = u.fed /\ c.offset = u.offset /\ c.prev = u.prev
      /\ c.top = u.top /\ c.deltas = u.deltas /\ c.resets = u.resets
  BY <1>3 DEF Unwrapper
<1> QED
  BY <1>1, <1>3, <1>4, <1>5

LEMMA Commits ==
  ASSUME NEW u \in Unwrapper, NEW pts, NEW a \in Int, NEW b \in Int, u.pending = <<a, b>>,
         StaysBack(u, pts)
  PROVE  /\ Confirm(u, pts) \in Unwrapper
         /\ Confirm(u, pts).pending = <<>>
         /\ Confirm(u, pts).fed = u.fed /\ Confirm(u, pts).offset = b
         /\ Confirm(u, pts).prev = a /\ Confirm(u, pts).top = u.top
         /\ Confirm(u, pts).deltas = u.deltas /\ Confirm(u, pts).resets = u.resets + 1
<1>1. Confirm(u, pts) = [u EXCEPT !.pending = <<>>, !.prev = a, !.offset = b, !.resets = u.resets + 1]
  BY DEF Confirm
<1>2. <<>> \in Seq(Int)
  OBVIOUS
<1>3. PICK c : c = [u EXCEPT !.pending = <<>>, !.prev = a, !.offset = b, !.resets = u.resets + 1]
  OBVIOUS
<1>4. u.resets + 1 \in Nat
  BY DEF Unwrapper
<1>5. c \in Unwrapper
  BY <1>2, <1>3, <1>4 DEF Unwrapper
<1>6. /\ c.pending = <<>> /\ c.fed = u.fed /\ c.offset = b /\ c.prev = a
      /\ c.top = u.top /\ c.deltas = u.deltas /\ c.resets = u.resets + 1
  BY <1>3 DEF Unwrapper
<1> QED
  BY <1>1, <1>3, <1>5, <1>6

\* The greatest stamp so far.
TopAfter(c, adjusted) == IF c.fed /\ c.top >= adjusted THEN c.top ELSE adjusted

LEMMA AdjustsIs ==
  ASSUME NEW c \in Unwrapper, NEW adjusted \in Int
  PROVE  Adjusts(c, adjusted) =
           [c EXCEPT !.fed = TRUE, !.adjusted = adjusted, !.top = TopAfter(c, adjusted)]
<1>1. c.top \in Int /\ c.fed \in BOOLEAN
  BY DEF Unwrapper
<1>2. Max({c.top, adjusted}) = IF c.top >= adjusted THEN c.top ELSE adjusted
  BY <1>1, MaxOfTwo
<1>3. (IF c.fed THEN Max({c.top, adjusted}) ELSE adjusted) = TopAfter(c, adjusted)
  BY <1>1, <1>2 DEF TopAfter
<1>4. Adjusts(c, adjusted) =
        [c EXCEPT !.fed = TRUE, !.adjusted = adjusted,
                  !.top = IF c.fed THEN Max({c.top, adjusted}) ELSE adjusted]
  BY DEF Adjusts, Unwrapper
<1> QED
  BY <1>3, <1>4

\* A stamp that is not far before the last one.
Follows(c, pts, v) ==
  /\ v \in Unwrapper /\ v.fed = TRUE /\ v.offset = c.offset /\ v.prev = pts
  /\ v.adjusted = pts + c.offset /\ v.top = TopAfter(c, pts + c.offset)
  /\ v.deltas = Intervals(c, pts) /\ v.pending = c.pending /\ v.resets = c.resets

LEMMA PushOn ==
  ASSUME NEW u, NEW v, NEW pts \in Int, NEW c \in Unwrapper, c = Confirm(u, pts),
         ~(c.fed /\ JumpsBack(c.prev, pts)), Intervals(c, pts) \in Seq(Int),
         v = Push(u, pts)
  PROVE  Follows(c, pts, v)
<1>1. PICK x \in Int : x = pts + c.offset
  BY DEF Unwrapper
<1>2. PICK ds \in Seq(Int) : ds = Intervals(c, pts)
  OBVIOUS
<1>3. PICK top \in Int : top = TopAfter(c, x)
  BY DEF TopAfter, Unwrapper
<1>4. v = [Adjusts(c, x) EXCEPT !.prev = pts, !.deltas = ds]
  BY <1>1, <1>2 DEF Push
<1>5. v = [c EXCEPT !.fed = TRUE, !.adjusted = x, !.top = top, !.prev = pts, !.deltas = ds]
  BY <1>3, <1>4, AdjustsIs
<1>6. v \in Unwrapper
  BY <1>5 DEF Unwrapper
<1>7. /\ v.fed = TRUE /\ v.offset = c.offset /\ v.prev = pts /\ v.adjusted = x /\ v.top = top
      /\ v.deltas = ds /\ v.pending = c.pending /\ v.resets = c.resets
  BY <1>5 DEF Unwrapper
<1> QED
  BY <1>1, <1>2, <1>3, <1>6, <1>7 DEF Follows

\* A stamp far before the last one: it is put an interval after the greatest.
Stitches(c, pts, v) ==
  /\ v \in Unwrapper /\ v.fed = TRUE /\ v.offset = c.offset /\ v.prev = c.prev
  /\ v.adjusted = c.top + Stitch(c.deltas) /\ v.top = c.top + Stitch(c.deltas)
  /\ v.deltas = c.deltas /\ v.resets = c.resets
  /\ v.pending = <<pts, v.top - pts>>

LEMMA PushBack ==
  ASSUME NEW u, NEW v, NEW pts \in Int, NEW c \in Unwrapper, c = Confirm(u, pts),
         c.fed, JumpsBack(c.prev, pts), Stitch(c.deltas) \in Nat \ {0},
         v = Push(u, pts)
  PROVE  Stitches(c, pts, v)
<1>1. PICK st \in Nat \ {0} : st = Stitch(c.deltas)
  OBVIOUS
<1>2. PICK x \in Int, y \in Int : x = c.top + st /\ y = c.top + st - pts /\ x = pts + y
  <2>1. c.top \in Int
    BY DEF Unwrapper
  <2>2. /\ c.top + st \in Int /\ c.top + st - pts \in Int
        /\ c.top + st = pts + (c.top + st - pts)
    BY ONLY <2>1, st \in Nat, pts \in Int
  <2> QED
    BY <2>2
<1>3. TopAfter(c, x) = x
  BY <1>2 DEF TopAfter, Unwrapper
<1>4. PICK p \in Seq(Int) : p = <<pts, y>>
  <2>1. <<pts, y>> \in Seq(Int)
    OBVIOUS
  <2> QED
    BY ONLY <2>1
<1>5. v = [Adjusts(c, x) EXCEPT !.pending = p]
  <2>1. c.top + Stitch(c.deltas) - pts = y
    BY <1>1, <1>2
  <2> QED
    BY <1>2, <1>4, <2>1 DEF Push
<1>6. v = [c EXCEPT !.fed = TRUE, !.adjusted = x, !.top = x, !.pending = p]
  <2>1. Adjusts(c, x) = [c EXCEPT !.fed = TRUE, !.adjusted = x, !.top = x]
    BY <1>3, AdjustsIs
  <2> QED
    BY ONLY <1>5, <2>1
<1>7. v \in Unwrapper
  BY <1>6 DEF Unwrapper
<1>8. /\ v.fed = TRUE /\ v.offset = c.offset /\ v.prev = c.prev /\ v.adjusted = x /\ v.top = x
      /\ v.deltas = c.deltas /\ v.pending = p /\ v.resets = c.resets
  BY <1>6 DEF Unwrapper
<1> QED
  <2>1. v.top - pts = y /\ v.pending = <<pts, y>>
    BY <1>1, <1>2, <1>4, <1>8
  <2>2. v.pending = <<pts, v.top - pts>>
    BY ONLY <2>1
  <2> QED
    BY <1>1, <1>2, <1>7, <1>8, <2>2 DEF Stitches

\* The pause after a picture.
PauseAfter(s, n) == IF n = s.pause THEN s.gap ELSE 0

LEMMA RecordingIs ==
  ASSUME NEW s, Recording(s)
  PROVE  /\ s.step \in Nat \ {0} /\ s.start \in Int /\ s.pause \in Int /\ s.gap \in Nat
         /\ s.damaged \in Int /\ s.dip \in Int /\ s.count \in Nat /\ s.head \in Nat
         /\ 2 <= s.head /\ s.head <= s.count
         /\ s.gap # 0 => s.pause > 1 /\ s.step + s.gap > Second /\ s.gap > 3 * s.step
         /\ s.damaged # 0 => 3 <= s.damaged /\ s.damaged < s.head
<1>1. /\ s.step \in Nat \ {0} /\ s.start \in Int /\ s.pause \in Int /\ s.gap \in Int
      /\ s.damaged \in Int /\ s.dip \in Int /\ s.count \in Nat /\ s.head \in 2..s.count
  BY DEF Recording
<1>2. Max({Second, 4 * s.step}) = IF Second >= 4 * s.step THEN Second ELSE 4 * s.step
  BY <1>1, EpochConstants, MaxOfTwo
<1>3. s.gap # 0 => s.pause > 1 /\ s.gap > 0 /\ s.step + s.gap > Max({Second, 4 * s.step})
  BY DEF Recording
<1>4. s.damaged # 0 => s.damaged \in 3..(s.head - 1)
  BY DEF Recording
<1>5. Second \in Nat
  BY EpochConstants
<1> QED
  BY ONLY <1>1, <1>2, <1>3, <1>4, <1>5

\* The stamps rise by the pace, but for a pause, a damaged stamp and a join.
LEMMA RawNext ==
  ASSUME NEW s, Recording(s), NEW n \in 1..s.count
  PROVE  /\ Raw(s, n) \in Int
         /\ n # s.head /\ n < s.count /\ s.damaged \notin {n, n + 1} =>
              Raw(s, n + 1) = Raw(s, n) + s.step + IF n < s.head THEN PauseAfter(s, n) ELSE 0
         /\ n = s.damaged => Raw(s, n) = s.dip
         /\ n + 1 = s.damaged => Raw(s, n + 2) = Raw(s, n) + 2 * s.step + PauseAfter(s, n)
                                                 + PauseAfter(s, n + 1)
<1>1. /\ s.step \in Nat \ {0} /\ s.start \in Int /\ s.pause \in Int /\ s.gap \in Nat
      /\ s.damaged \in Int /\ s.dip \in Int /\ s.count \in Nat /\ s.head \in Nat
      /\ s.damaged # 0 => 3 <= s.damaged /\ s.damaged < s.head
  BY RecordingIs
<1>2. PICK a \in Int, b \in Int, d \in Nat : a = s.step * (n - 1) /\ b = s.step * (n - s.head - 1) /\ d = s.step
  BY <1>1
<1>3. /\ s.step * (n + 1 - 1) = a + d /\ s.step * (n + 2 - 1) = a + 2 * d
      /\ s.step * (n + 1 - s.head - 1) = b + d
  <2>1. \A x \in Int : d * (x + 1) = d * x + d /\ d * (x + 2) = d * x + 2 * d
    OBVIOUS
  <2>2. /\ n + 1 - 1 = (n - 1) + 1 /\ n + 2 - 1 = (n - 1) + 2
        /\ n + 1 - s.head - 1 = (n - s.head - 1) + 1
        /\ n - 1 \in Int /\ n - s.head - 1 \in Int
    BY <1>1
  <2> QED
    BY ONLY <1>2, <2>1, <2>2
<1>4. /\ n # s.damaged /\ n <= s.head => Raw(s, n) = s.start + a + IF n > s.pause THEN s.gap ELSE 0
      /\ n # s.damaged /\ n > s.head => Raw(s, n) = b
      /\ n = s.damaged => Raw(s, n) = s.dip
  BY <1>1, <1>2 DEF Raw
<1>5. /\ n + 1 # s.damaged /\ n + 1 <= s.head =>
           Raw(s, n + 1) = s.start + (a + d) + IF n + 1 > s.pause THEN s.gap ELSE 0
      /\ n + 1 # s.damaged /\ n + 1 > s.head => Raw(s, n + 1) = b + d
  BY <1>1, <1>3 DEF Raw
<1>6. n + 2 # s.damaged /\ n + 2 <= s.head =>
        Raw(s, n + 2) = s.start + (a + 2 * d) + IF n + 2 > s.pause THEN s.gap ELSE 0
  BY <1>1, <1>3 DEF Raw
<1>7. PICK g \in Nat, p \in Int : g = s.gap /\ p = s.pause
  BY <1>1
<1>8. Raw(s, n) \in Int
  BY <1>1, <1>2, <1>4
<1>9. ASSUME n < s.head, s.damaged \notin {n, n + 1}
      PROVE  Raw(s, n + 1) = Raw(s, n) + s.step + PauseAfter(s, n)
  <2>1. /\ Raw(s, n) = s.start + a + IF n > p THEN g ELSE 0
        /\ Raw(s, n + 1) = s.start + (a + d) + IF n + 1 > p THEN g ELSE 0
    BY <1>1, <1>4, <1>5, <1>7, <1>9
  <2>2. PauseAfter(s, n) = IF n = p THEN g ELSE 0
    BY <1>7 DEF PauseAfter
  <2> QED
    BY <1>1, <1>2, <2>1, <2>2
<1>10. ASSUME n > s.head, s.damaged \notin {n, n + 1}
       PROVE  Raw(s, n + 1) = Raw(s, n) + s.step
  BY <1>1, <1>2, <1>4, <1>5, <1>10
<1>11. ASSUME n + 1 = s.damaged
       PROVE  Raw(s, n + 2) = Raw(s, n) + 2 * s.step + PauseAfter(s, n) + PauseAfter(s, n + 1)
  <2>1. n # s.damaged /\ n + 2 # s.damaged /\ n <= s.head /\ n + 2 <= s.head
    BY <1>1, <1>11
  <2>2. /\ Raw(s, n) = s.start + a + IF n > p THEN g ELSE 0
        /\ Raw(s, n + 2) = s.start + (a + 2 * d) + IF n + 2 > p THEN g ELSE 0
    BY <1>4, <1>6, <1>7, <2>1
  <2>3. /\ PauseAfter(s, n) = IF n = p THEN g ELSE 0
        /\ PauseAfter(s, n + 1) = IF n + 1 = p THEN g ELSE 0
    BY <1>7 DEF PauseAfter
  <2> QED
    BY <1>1, <1>2, <2>2, <2>3
<1>12. ASSUME n # s.head, n < s.count, s.damaged \notin {n, n + 1}
       PROVE  Raw(s, n + 1) = Raw(s, n) + s.step + IF n < s.head THEN PauseAfter(s, n) ELSE 0
  <2>1. n < s.head \/ n > s.head
    BY <1>1, <1>12
  <2>2. CASE n < s.head
    BY <1>9, <1>12, <2>2
  <2>3. CASE n > s.head
    <3>1. Raw(s, n + 1) = Raw(s, n) + s.step
      BY <1>10, <1>12, <2>3
    <3> QED
      BY <1>1, <1>8, <2>3, <3>1
  <2> QED
    BY <2>1, <2>2, <2>3
<1> QED
  BY <1>4, <1>8, <1>11, <1>12

\* The next interval: of the pace, doubled, or a pause.
LEMMA IntervalsAre ==
  ASSUME NEW d \in Nat \ {0}, NEW c \in Unwrapper, Steady(c.deltas, d), c.fed,
         NEW pts \in Int, NEW delta \in Nat \ {0}, pts = c.prev + delta
  PROVE  /\ delta = d \/ (delta = 2 * d /\ c.deltas # <<>>) =>
              Intervals(c, pts) = Kept(Append(c.deltas, delta))
         /\ delta > Second /\ delta > 4 * d /\ c.deltas # <<>> => Intervals(c, pts) = c.deltas
<1>1. c.prev \in Int /\ c.deltas \in Seq(Int) /\ Second \in Nat
  BY EpochConstants DEF Unwrapper
<1>2. pts > c.prev /\ pts - c.prev = delta
  BY <1>1
<1>3. c.deltas # <<>> => DeltaMedian(c.deltas) = d
  BY SteadyMedian
<1>4. Max({Second, 4 * d}) = IF Second >= 4 * d THEN Second ELSE 4 * d
  BY <1>1, MaxOfTwo
<1>5. Typical(c.deltas, delta) <=> c.deltas = <<>> \/ delta <= Max({Second, 4 * d})
  BY <1>3 DEF Typical
<1>6. Intervals(c, pts) = IF Typical(c.deltas, delta) THEN Kept(Append(c.deltas, delta)) ELSE c.deltas
  BY <1>2 DEF Intervals, Kept
<1>7. delta = d \/ (delta = 2 * d /\ c.deltas # <<>>) => Typical(c.deltas, delta)
  <2>1. delta = d \/ delta = 2 * d => delta <= Max({Second, 4 * d})
    BY <1>1, <1>4
  <2> QED
    BY <1>5, <2>1
<1>8. delta > Second /\ delta > 4 * d /\ c.deltas # <<>> => ~Typical(c.deltas, delta)
  <2>1. delta > Second /\ delta > 4 * d => ~(delta <= Max({Second, 4 * d}))
    BY <1>1, <1>4
  <2> QED
    BY <1>5, <2>1
<1> QED
  BY <1>6, <1>7, <1>8

\* The unwrapper has seen a stamp far before the one before it, and no other yet.
Suspended(s, p) == p > 0 /\ (p = s.damaged \/ p = s.head + 1)

\* The unwrapper of the decoder after p pictures.
TrimAt(s, p, u) ==
  /\ u \in Unwrapper /\ (u.fed <=> p > 0)
  /\ Steady(u.deltas, s.step) /\ (p > 1 => u.deltas # <<>>)
  /\ p <= s.damaged => \A i \in DOMAIN u.deltas : u.deltas[i] = s.step
  /\ u.resets = IF p > s.head + 1 THEN 1 ELSE 0
  /\ p <= s.head + 1 => u.offset = 0
  /\ IF Suspended(s, p)
     THEN /\ u.pending = <<Raw(s, p), u.top - Raw(s, p)>>
          /\ u.prev = Raw(s, p - 1) /\ u.top = Raw(s, p - 1) + s.step
     ELSE /\ u.pending = <<>>
          /\ p > 0 => u.prev = Raw(s, p) /\ u.top = Raw(s, p) + u.offset

\* The clock of the picture after it.
RisesTo(s, p, u, v) ==
  /\ v.adjusted = v.top /\ (p > 0 => u.top < v.top)
  /\ p = s.head => v.top = u.top + s.step

\* The first picture.
LEMMA TrimFirst ==
  ASSUME NEW s, Recording(s), NEW u, TrimAt(s, 0, u), NEW v, v = Push(u, Raw(s, 1))
  PROVE  TrimAt(s, 1, v) /\ RisesTo(s, 0, u, v)
<1>1. /\ s.step \in Nat \ {0} /\ s.damaged \in Int /\ s.count \in Nat /\ s.head \in Nat
      /\ 2 <= s.head /\ s.head <= s.count
      /\ s.damaged # 0 => 3 <= s.damaged
  BY RecordingIs
<1>2. PICK pts \in Int : pts = Raw(s, 1)
  <2>1. 1 \in 1..s.count
    BY <1>1
  <2> QED
    BY <2>1, RawNext
<1>3. ~Suspended(s, 0) /\ ~Suspended(s, 1)
  BY <1>1 DEF Suspended
<1>4. /\ u \in Unwrapper /\ ~u.fed /\ Steady(u.deltas, s.step) /\ u.resets = 0 /\ u.offset = 0
      /\ u.pending = <<>>
      /\ 0 <= s.damaged => \A i \in DOMAIN u.deltas : u.deltas[i] = s.step
  BY <1>1, <1>3 DEF TrimAt
<1>5. ~StaysBack(u, pts)
  BY <1>4 DEF StaysBack
<1>6. PICK c \in Unwrapper :
        /\ c = Confirm(u, pts) /\ c.pending = <<>> /\ c.fed = u.fed /\ c.offset = u.offset
        /\ c.deltas = u.deltas /\ c.resets = u.resets
  BY <1>4, <1>5, Absorbs
<1>7. Intervals(c, pts) = u.deltas /\ u.deltas \in Seq(Int)
  BY <1>4, <1>6 DEF Intervals, Unwrapper
<1>8. TopAfter(c, pts + c.offset) = pts /\ pts + c.offset = pts
  BY <1>4, <1>6 DEF TopAfter
<1>9. /\ v \in Unwrapper /\ v.fed = TRUE /\ v.offset = 0 /\ v.prev = pts
      /\ v.adjusted = pts /\ v.top = pts /\ v.deltas = u.deltas /\ v.pending = <<>> /\ v.resets = 0
  <2>1. ~(c.fed /\ JumpsBack(c.prev, pts)) /\ Intervals(c, pts) \in Seq(Int)
    BY <1>4, <1>6, <1>7
  <2>2. c = Confirm(u, pts) /\ v = Push(u, pts)
    BY <1>2, <1>6
  <2>3. Follows(c, pts, v)
    BY <2>1, <2>2, PushOn
  <2> QED
    BY <1>4, <1>6, <1>7, <1>8, <2>3 DEF Follows
<1>10. TrimAt(s, 1, v)
  BY <1>1, <1>2, <1>3, <1>4, <1>9 DEF TrimAt
<1> QED
  BY <1>1, <1>9, <1>10 DEF RisesTo

\* A stamp far before the one before it.
LEMMA TrimJumps ==
  ASSUME NEW s, Recording(s), NEW p \in 1..(s.count - 1), NEW u, TrimAt(s, p, u),
         ~Suspended(s, p), Suspended(s, p + 1), NEW v, v = Push(u, Raw(s, p + 1))
  PROVE  TrimAt(s, p + 1, v) /\ RisesTo(s, p, u, v)
<1>1. /\ s.step \in Nat \ {0} /\ s.damaged \in Int /\ s.count \in Nat /\ s.head \in Nat
      /\ 2 <= s.head /\ s.head <= s.count
      /\ s.damaged # 0 => 3 <= s.damaged /\ s.damaged < s.head
  BY RecordingIs
<1>2. PICK pts \in Int, raw \in Int : pts = Raw(s, p + 1) /\ raw = Raw(s, p)
  <2>1. p \in 1..s.count /\ p + 1 \in 1..s.count
    BY <1>1
  <2> QED
    BY <2>1, RawNext
<1>3. p >= 2 /\ p <= s.head /\ (p + 1 = s.damaged \/ (p = s.head /\ p < s.count))
  BY <1>1 DEF Suspended
<1>4. JumpsBack(raw, pts)
  <2>1. CASE p + 1 = s.damaged
    <3>1. p = s.damaged - 1 /\ s.damaged # 0 /\ p + 1 \in 1..s.count
      BY <1>1, <2>1
    <3>2. Raw(s, p + 1) = s.dip
      BY <2>1, <3>1, RawNext
    <3> QED
      BY <1>2, <3>1, <3>2 DEF Recording
  <2>2. CASE p = s.head /\ p < s.count
    <3>1. \A n \in 1..2 : JumpsBack(Raw(s, s.head), Raw(s, s.head + n))
      BY <2>2 DEF Recording
    <3> QED
      BY <1>2, <2>2, <3>1
  <2> QED
    BY <1>3, <2>1, <2>2
<1>5. /\ u \in Unwrapper /\ u.fed /\ Steady(u.deltas, s.step) /\ u.deltas # <<>>
      /\ p <= s.damaged => \A i \in DOMAIN u.deltas : u.deltas[i] = s.step
      /\ u.resets = 0 /\ u.offset = 0 /\ u.pending = <<>> /\ u.prev = raw /\ u.top = raw
  <2>1. raw + 0 = raw
    OBVIOUS
  <2> QED
    BY <1>1, <1>2, <1>3, <2>1 DEF TrimAt
<1>6. ~StaysBack(u, pts)
  BY <1>5 DEF StaysBack
<1>7. PICK c \in Unwrapper :
        /\ c = Confirm(u, pts) /\ c.pending = <<>> /\ c.fed = u.fed /\ c.offset = u.offset
        /\ c.prev = u.prev /\ c.top = u.top /\ c.deltas = u.deltas /\ c.resets = u.resets
  BY <1>5, <1>6, Absorbs
<1>8. Stitch(c.deltas) = s.step
  BY <1>1, <1>5, <1>7, SteadyMedian DEF Stitch
<1>9. /\ v \in Unwrapper /\ v.fed = TRUE /\ v.offset = 0 /\ v.prev = raw
      /\ v.adjusted = raw + s.step /\ v.top = raw + s.step
      /\ v.deltas = u.deltas /\ v.resets = 0 /\ v.pending = <<pts, v.top - pts>>
  <2>1. c.fed /\ JumpsBack(c.prev, pts) /\ Stitch(c.deltas) \in Nat \ {0}
    BY <1>1, <1>4, <1>5, <1>7, <1>8
  <2>2. c = Confirm(u, pts) /\ v = Push(u, pts)
    BY <1>2, <1>7
  <2>3. Stitches(c, pts, v)
    BY <2>1, <2>2, PushBack
  <2> QED
    BY <1>5, <1>7, <1>8, <2>3 DEF Stitches
<1>10. p + 1 - 1 = p /\ p + 1 > 0 /\ p + 1 > 1 /\ ~(p + 1 > s.head + 1)
  BY <1>1, <1>3
<1>11. p + 1 <= s.damaged => \A i \in DOMAIN v.deltas : v.deltas[i] = s.step
  BY <1>1, <1>5, <1>9
<1>12. TrimAt(s, p + 1, v)
  <2>1. v.pending = <<Raw(s, p + 1), v.top - Raw(s, p + 1)>>
    BY ONLY <1>2, <1>9
  <2>2. v.prev = Raw(s, p + 1 - 1) /\ v.top = Raw(s, p + 1 - 1) + s.step
    BY <1>2, <1>9, <1>10
  <2>3. Steady(v.deltas, s.step) /\ v.deltas # <<>> /\ (v.fed <=> p + 1 > 0)
    BY <1>5, <1>9, <1>10
  <2>4. v.resets = IF p + 1 > s.head + 1 THEN 1 ELSE 0
    BY <1>9, <1>10
  <2> QED
    BY ONLY <1>9, <1>11, <2>1, <2>2, <2>3, <2>4, Suspended(s, p + 1) DEF TrimAt
<1>13. raw < raw + s.step
  BY <1>1, <1>2
<1> QED
  BY <1>5, <1>9, <1>12, <1>13 DEF RisesTo

\* An interval of one pace or of two, with a pause or none.
LEMMA NextInterval ==
  ASSUME NEW s, Recording(s), NEW c \in Unwrapper, c.fed, Steady(c.deltas, s.step),
         NEW k \in 1..2, NEW g \in {0, s.gap}, k = 2 \/ g # 0 => c.deltas # <<>>,
         k = 2 => \A i \in DOMAIN c.deltas : c.deltas[i] = s.step,
         NEW pts \in Int, pts = c.prev + k * s.step + g
  PROVE  /\ Steady(Intervals(c, pts), s.step) /\ Intervals(c, pts) # <<>>
         /\ Intervals(c, pts) \in Seq(Int)
         /\ (\A i \in DOMAIN c.deltas : c.deltas[i] = s.step) /\ k = 1 =>
              \A i \in DOMAIN Intervals(c, pts) : Intervals(c, pts)[i] = s.step
         /\ pts > c.prev /\ ~JumpsBack(c.prev, pts)
<1>1. /\ s.step \in Nat \ {0} /\ s.gap \in Nat
      /\ s.gap # 0 => s.step + s.gap > Second /\ s.gap > 3 * s.step
  BY RecordingIs
<1>2. PICK d \in Nat \ {0} : d = s.step
  BY <1>1
<1>3. PICK delta \in Nat \ {0} : delta = k * s.step + g
  BY <1>1
<1>4. c.prev \in Int /\ Second \in Nat
  BY EpochConstants DEF Unwrapper
<1>5. pts = c.prev + delta
  BY <1>1, <1>3, <1>4
<1>6. pts > c.prev /\ ~JumpsBack(c.prev, pts)
  BY <1>4, <1>5 DEF JumpsBack, EpochResetSeconds
<1>7. PICK q : q = c.deltas
  OBVIOUS
<1>8. Steady(q, d) /\ \A x : x \in DOMAIN q => q[x] = c.deltas[x]
  BY <1>2, <1>7
<1>9. CASE g = 0
  <2>1. (k = 1 /\ delta = d) \/ (k = 2 /\ delta = 2 * d)
    BY <1>1, <1>2, <1>3, <1>9
  <2>2. Intervals(c, pts) = Kept(Append(q, delta))
    BY <1>2, <1>5, <1>7, <2>1, IntervalsAre
  <2>3. k = 2 => \A i \in DOMAIN q : q[i] = d
    BY <1>2, <1>7
  <2>4. delta = d \/ (delta = 2 * d /\ q # <<>> /\ \A i \in DOMAIN q : q[i] = d)
    BY <1>7, <2>1, <2>3
  <2>5. /\ Steady(Kept(Append(q, delta)), d) /\ Kept(Append(q, delta)) # <<>>
        /\ (\A i \in DOMAIN q : q[i] = d) /\ delta = d =>
             \A i \in DOMAIN Kept(Append(q, delta)) : Kept(Append(q, delta))[i] = d
    BY <1>8, <2>4, SteadyOn
  <2>6. PICK r : r = Intervals(c, pts)
    OBVIOUS
  <2>7. Steady(r, d) /\ r # <<>>
    BY <2>2, <2>5, <2>6
  <2>8. r \in Seq(Int)
    <3>1. r \in Seq({d, 2 * d})
      BY <2>7 DEF Steady
    <3>2. {d, 2 * d} \subseteq Int
      OBVIOUS
    <3> QED
      BY <3>1, <3>2
  <2>9. k = 1 /\ (\A i \in DOMAIN q : q[i] = d) => \A i \in DOMAIN r : r[i] = d
    BY <2>1, <2>2, <2>5, <2>6
  <2> QED
    BY <1>2, <1>6, <1>7, <2>6, <2>7, <2>8, <2>9
<1>10. CASE g # 0
  <2>1. g = s.gap /\ s.gap # 0 /\ q # <<>>
    BY <1>7, <1>10
  <2>2. PICK z \in Nat : z = s.gap /\ g = z
    BY <1>1, <2>1
  <2>3. d + z > Second /\ z > 3 * d
    BY <1>1, <1>2, <2>1, <2>2
  <2>4. delta = d + z \/ delta = 2 * d + z
    BY <1>2, <1>3, <2>2
  <2>5. delta > Second /\ delta > 4 * d
    BY <1>4, <2>3, <2>4
  <2>6. Intervals(c, pts) = q
    BY <1>2, <1>5, <1>7, <2>1, <2>5, IntervalsAre
  <2>7. q \in Seq(Int)
    BY <1>7 DEF Unwrapper
  <2> QED
    BY <1>2, <1>6, <1>7, <1>8, <2>1, <2>6, <2>7
<1> QED
  BY <1>9, <1>10

\* A stamp after the one before it.
LEMMA TrimOn ==
  ASSUME NEW s, Recording(s), NEW p \in 1..(s.count - 1), NEW u, TrimAt(s, p, u),
         ~Suspended(s, p), ~Suspended(s, p + 1), NEW v, v = Push(u, Raw(s, p + 1))
  PROVE  TrimAt(s, p + 1, v) /\ RisesTo(s, p, u, v)
<1>1. /\ s.step \in Nat \ {0} /\ s.damaged \in Int /\ s.count \in Nat /\ s.head \in Nat
      /\ s.gap \in Nat /\ (s.gap # 0 => s.pause > 1)
      /\ 2 <= s.head /\ s.head <= s.count
      /\ s.damaged # 0 => 3 <= s.damaged /\ s.damaged < s.head
  BY RecordingIs
<1>2. p # s.head /\ p # s.damaged /\ p + 1 # s.damaged /\ p # s.head + 1 /\ p < s.count
  BY <1>1 DEF Suspended
<1>3. PICK pts \in Int, raw \in Int, g \in {0, s.gap} :
        /\ pts = Raw(s, p + 1) /\ raw = Raw(s, p)
        /\ g = IF p < s.head THEN PauseAfter(s, p) ELSE 0
  <2>1. p \in 1..s.count /\ p + 1 \in 1..s.count
    BY <1>1
  <2>2. (IF p < s.head THEN PauseAfter(s, p) ELSE 0) \in {0, s.gap}
    BY DEF PauseAfter
  <2>3. Raw(s, p) \in Int /\ Raw(s, p + 1) \in Int
    BY <2>1, RawNext
  <2> QED
    BY <2>2, <2>3
<1>4. pts = raw + 1 * s.step + g
  <2>1. p \in 1..s.count
    BY <1>1
  <2>2. s.damaged \notin {p, p + 1}
    BY <1>2
  <2>3. Raw(s, p + 1) = Raw(s, p) + s.step + IF p < s.head THEN PauseAfter(s, p) ELSE 0
    BY <1>2, <2>1, <2>2, RawNext
  <2>4. s.step = 1 * s.step
    BY <1>1
  <2> QED
    BY <1>3, <2>3, <2>4
<1>5. g # 0 => p > 1
  <2>1. g # 0 => PauseAfter(s, p) # 0
    BY <1>3
  <2>2. PauseAfter(s, p) # 0 => p = s.pause /\ s.gap # 0
    BY DEF PauseAfter
  <2> QED
    BY <1>1, <2>1, <2>2
<1>6. /\ u \in Unwrapper /\ u.fed /\ Steady(u.deltas, s.step) /\ (p > 1 => u.deltas # <<>>)
      /\ p <= s.damaged => \A i \in DOMAIN u.deltas : u.deltas[i] = s.step
      /\ u.resets = IF p > s.head + 1 THEN 1 ELSE 0
      /\ p <= s.head + 1 => u.offset = 0
      /\ u.pending = <<>> /\ u.prev = raw /\ u.top = raw + u.offset
  BY <1>3 DEF TrimAt
<1>7. ~StaysBack(u, pts)
  BY <1>6 DEF StaysBack
<1>8. PICK c \in Unwrapper :
        /\ c = Confirm(u, pts) /\ c.pending = <<>> /\ c.fed = u.fed /\ c.offset = u.offset
        /\ c.prev = u.prev /\ c.top = u.top /\ c.deltas = u.deltas /\ c.resets = u.resets
  BY <1>6, <1>7, Absorbs
<1>9. /\ Steady(Intervals(c, pts), s.step) /\ Intervals(c, pts) # <<>>
      /\ Intervals(c, pts) \in Seq(Int)
      /\ (\A i \in DOMAIN c.deltas : c.deltas[i] = s.step) =>
           \A i \in DOMAIN Intervals(c, pts) : Intervals(c, pts)[i] = s.step
      /\ pts > c.prev /\ ~JumpsBack(c.prev, pts)
  <2>1. c.fed /\ Steady(c.deltas, s.step) /\ (g # 0 => c.deltas # <<>>)
    BY <1>5, <1>6, <1>8
  <2>2. pts = c.prev + 1 * s.step + g
    BY <1>4, <1>6, <1>8
  <2>3. PICK k \in 1..2 : k = 1
    OBVIOUS
  <2> QED
    BY <2>1, <2>2, <2>3, NextInterval
<1>10. Follows(c, pts, v)
  <2>1. v = Push(u, pts)
    BY <1>3
  <2> QED
    BY <1>8, <1>9, <2>1, PushOn
<1>11. PICK o \in Int : o = c.offset
  BY DEF Unwrapper
<1>12. c.top = raw + o /\ pts > raw /\ TopAfter(c, pts + o) = pts + o /\ raw + o < pts + o
  <2>1. c.top = raw + o /\ pts > raw /\ c.fed
    BY <1>6, <1>8, <1>9, <1>11
  <2> QED
    BY <2>1 DEF TopAfter
<1>13. /\ v \in Unwrapper /\ v.fed = TRUE /\ v.offset = o /\ v.prev = pts /\ v.adjusted = pts + o
       /\ v.top = pts + o /\ v.deltas = Intervals(c, pts) /\ v.pending = <<>>
       /\ v.resets = u.resets
  BY <1>8, <1>10, <1>11, <1>12 DEF Follows
<1>14. p + 1 <= s.damaged => \A i \in DOMAIN v.deltas : v.deltas[i] = s.step
  <2> SUFFICES ASSUME p + 1 <= s.damaged PROVE \A i \in DOMAIN v.deltas : v.deltas[i] = s.step
    OBVIOUS
  <2>1. p <= s.damaged
    BY <1>1
  <2>2. \A i \in DOMAIN c.deltas : c.deltas[i] = s.step
    BY <1>6, <1>8, <2>1
  <2> QED
    BY <1>9, <1>13, <2>2
<1>15. v.resets = IF p + 1 > s.head + 1 THEN 1 ELSE 0
  <2>1. p > s.head + 1 <=> p + 1 > s.head + 1
    BY <1>1, <1>2
  <2> QED
    BY ONLY <1>6, <1>13, <2>1
<1>16. p + 1 <= s.head + 1 => v.offset = 0
  <2>1. p + 1 <= s.head + 1 => p <= s.head + 1
    BY <1>1
  <2>2. v.offset = u.offset
    BY <1>8, <1>11, <1>13
  <2> QED
    BY ONLY <1>6, <2>1, <2>2
<1>17. TrimAt(s, p + 1, v)
  <2>1. v.prev = Raw(s, p + 1) /\ v.top = Raw(s, p + 1) + v.offset
    BY <1>3, <1>13
  <2>2. Steady(v.deltas, s.step) /\ v.deltas # <<>> /\ (v.fed <=> p + 1 > 0)
    BY <1>9, <1>13
  <2> QED
    BY ONLY <1>13, <1>14, <1>15, <1>16, <2>1, <2>2, ~Suspended(s, p + 1) DEF TrimAt
<1>18. v.adjusted = v.top /\ u.top < v.top
  BY <1>6, <1>8, <1>12, <1>13
<1> QED
  BY <1>2, <1>17, <1>18 DEF RisesTo

\* The stamp after a damaged one belongs to the clock before it.
LEMMA TrimAbsorbs ==
  ASSUME NEW s, Recording(s), NEW p \in 1..(s.count - 1), NEW u, TrimAt(s, p, u),
         p = s.damaged, NEW v, v = Push(u, Raw(s, p + 1))
  PROVE  TrimAt(s, p + 1, v) /\ RisesTo(s, p, u, v)
<1>1. /\ s.step \in Nat \ {0} /\ s.damaged \in Int /\ s.count \in Nat /\ s.head \in Nat
      /\ s.gap \in Nat /\ s.head <= s.count /\ 3 <= p /\ p < s.head
  BY RecordingIs
<1>2. PICK pts \in Int, raw \in Int, g \in {0, s.gap} :
        pts = Raw(s, p + 1) /\ raw = Raw(s, p - 1) /\ pts = raw + 2 * s.step + g
  <2>1. p - 1 \in 1..s.count /\ p + 1 \in 1..s.count /\ p - 1 + 1 = p /\ p - 1 + 2 = p + 1
    BY <1>1
  <2>2. /\ Raw(s, p - 1) \in Int /\ Raw(s, p + 1) \in Int
        /\ Raw(s, p + 1) = Raw(s, p - 1) + 2 * s.step + PauseAfter(s, p - 1) + PauseAfter(s, p)
    BY <2>1, RawNext
  <2>3. PauseAfter(s, p - 1) = 0 \/ PauseAfter(s, p) = 0
    BY <1>1 DEF PauseAfter
  <2>4. PauseAfter(s, p - 1) \in {0, s.gap} /\ PauseAfter(s, p) \in {0, s.gap}
    BY DEF PauseAfter
  <2>5. PICK a \in {0, s.gap}, b \in {0, s.gap} : a = PauseAfter(s, p - 1) /\ b = PauseAfter(s, p)
    BY <2>4
  <2>6. a + b \in {0, s.gap} /\ Raw(s, p + 1) = Raw(s, p - 1) + 2 * s.step + (a + b)
    BY <1>1, <2>2, <2>3, <2>5
  <2> QED
    BY <2>2, <2>6
<1>3. Suspended(s, p) /\ ~Suspended(s, p + 1)
  BY <1>1 DEF Suspended
<1>4. /\ u \in Unwrapper /\ u.fed /\ Steady(u.deltas, s.step) /\ u.deltas # <<>>
      /\ \A i \in DOMAIN u.deltas : u.deltas[i] = s.step
      /\ u.resets = 0 /\ u.offset = 0 /\ u.prev = raw /\ u.top = raw + s.step
  <2>1. /\ u \in Unwrapper /\ (u.fed <=> p > 0) /\ Steady(u.deltas, s.step)
        /\ p > 1 => u.deltas # <<>>
        /\ p <= s.damaged => \A i \in DOMAIN u.deltas : u.deltas[i] = s.step
        /\ u.resets = IF p > s.head + 1 THEN 1 ELSE 0
        /\ p <= s.head + 1 => u.offset = 0
        /\ u.prev = Raw(s, p - 1) /\ u.top = Raw(s, p - 1) + s.step
    BY <1>3 DEF TrimAt
  <2>2. p > 0 /\ p > 1 /\ p <= s.damaged /\ ~(p > s.head + 1) /\ p <= s.head + 1
    BY <1>1
  <2>3. u.deltas # <<>> /\ u.resets = 0 /\ u.fed
    BY ONLY <2>1, <2>2
  <2> QED
    BY <1>2, <2>1, <2>2, <2>3
<1>5. PICK k \in 1..2 : k = 2
  OBVIOUS
<1>6. /\ Steady(Intervals(u, pts), s.step) /\ Intervals(u, pts) # <<>>
      /\ Intervals(u, pts) \in Seq(Int) /\ ~JumpsBack(u.prev, pts)
  <2>1. pts = u.prev + k * s.step + g
    BY <1>2, <1>4, <1>5
  <2> QED
    BY <1>4, <1>5, <2>1, NextInterval
<1>7. ~StaysBack(u, pts)
  BY <1>6 DEF StaysBack
<1>8. PICK c \in Unwrapper :
        /\ c = Confirm(u, pts) /\ c.pending = <<>> /\ c.fed = u.fed /\ c.offset = u.offset
        /\ c.prev = u.prev /\ c.top = u.top /\ c.deltas = u.deltas /\ c.resets = u.resets
  BY <1>4, <1>7, Absorbs
<1>9. Intervals(c, pts) = Intervals(u, pts)
  BY <1>8 DEF Intervals
<1>10. Follows(c, pts, v)
  <2>1. v = Push(u, pts)
    BY <1>2
  <2>2. ~(c.fed /\ JumpsBack(c.prev, pts)) /\ Intervals(c, pts) \in Seq(Int)
    BY <1>6, <1>8, <1>9
  <2> QED
    BY <1>8, <2>1, <2>2, PushOn
<1>11. pts + 0 = pts /\ raw + s.step < pts /\ TopAfter(c, pts) = pts
  <2>1. raw + s.step < pts
    BY <1>1, <1>2
  <2> QED
    BY <1>1, <1>4, <1>8, <2>1 DEF TopAfter
<1>12. /\ v \in Unwrapper /\ v.fed = TRUE /\ v.offset = 0 /\ v.prev = pts /\ v.adjusted = pts
       /\ v.top = pts /\ v.deltas = Intervals(u, pts) /\ v.pending = <<>> /\ v.resets = 0
  BY <1>4, <1>8, <1>9, <1>10, <1>11 DEF Follows
<1>13. TrimAt(s, p + 1, v)
  <2>1. v.prev = Raw(s, p + 1) /\ v.top = Raw(s, p + 1) + v.offset
    BY <1>2, <1>11, <1>12
  <2>2. Steady(v.deltas, s.step) /\ v.deltas # <<>> /\ (v.fed <=> p + 1 > 0)
    BY <1>6, <1>12
  <2>3. ~(p + 1 <= s.damaged) /\ ~(p + 1 > s.head + 1)
    BY <1>1
  <2> QED
    BY ONLY <1>3, <1>12, <2>1, <2>2, <2>3 DEF TrimAt
<1> QED
  BY <1>1, <1>4, <1>11, <1>12, <1>13 DEF RisesTo

\* The second stamp of a joined recording: the clock goes on.
LEMMA TrimCommits ==
  ASSUME NEW s, Recording(s), NEW p \in 1..(s.count - 1), NEW u, TrimAt(s, p, u),
         p = s.head + 1, NEW v, v = Push(u, Raw(s, p + 1))
  PROVE  TrimAt(s, p + 1, v) /\ RisesTo(s, p, u, v)
<1>1. /\ s.step \in Nat \ {0} /\ s.damaged \in Int /\ s.count \in Nat /\ s.head \in Nat
      /\ 2 <= s.head /\ s.head < s.count /\ p < s.count
      /\ s.damaged # 0 => 3 <= s.damaged /\ s.damaged < s.head
  BY RecordingIs
<1>2. PICK pts \in Int, a \in Int :
        pts = Raw(s, p + 1) /\ a = Raw(s, p) /\ pts = a + 1 * s.step + 0
  <2>1. p \in 1..s.count /\ p + 1 \in 1..s.count /\ p # s.head /\ ~(p < s.head)
        /\ s.damaged \notin {p, p + 1}
    BY <1>1
  <2>2. Raw(s, p) \in Int /\ Raw(s, p + 1) \in Int
    BY <2>1, RawNext
  <2>3. Raw(s, p + 1) = Raw(s, p) + s.step + IF p < s.head THEN PauseAfter(s, p) ELSE 0
    BY <1>1, <2>1, RawNext
  <2>4. Raw(s, p + 1) = Raw(s, p) + 1 * s.step + 0
    BY <1>1, <2>1, <2>2, <2>3
  <2> QED
    BY <2>2, <2>4
<1>3. Suspended(s, p) /\ ~Suspended(s, p + 1)
  BY <1>1 DEF Suspended
<1>4. p - 1 = s.head /\ p + 1 = s.head + 2 /\ p > 1 /\ ~(p > s.head + 1)
  BY <1>1
<1>5. /\ u \in Unwrapper /\ u.fed /\ Steady(u.deltas, s.step) /\ u.deltas # <<>>
      /\ u.resets = 0 /\ u.prev = Raw(s, s.head) /\ u.pending = <<a, u.top - a>>
  BY <1>2, <1>3, <1>4 DEF TrimAt
<1>6. PICK b \in Int : b = u.top - a
  BY <1>5 DEF Unwrapper
<1>7. StaysBack(u, pts)
  <2>1. \A n \in 1..2 : JumpsBack(Raw(s, s.head), Raw(s, s.head + n))
    BY <1>1 DEF Recording
  <2>2. JumpsBack(u.prev, pts)
    BY <1>2, <1>4, <1>5, <2>1
  <2>3. u.pending # <<>>
    BY <1>5
  <2> QED
    BY <2>2, <2>3 DEF StaysBack
<1>8. PICK c \in Unwrapper :
        /\ c = Confirm(u, pts) /\ c.pending = <<>> /\ c.fed = u.fed /\ c.offset = b
        /\ c.prev = a /\ c.top = u.top /\ c.deltas = u.deltas /\ c.resets = u.resets + 1
  <2>1. u.pending = <<a, b>>
    BY <1>5, <1>6
  <2> QED
    BY <1>5, <1>7, <2>1, Commits
<1>9. PICK k \in 1..2 : k = 1
  OBVIOUS
<1>10. /\ Steady(Intervals(c, pts), s.step) /\ Intervals(c, pts) # <<>>
       /\ Intervals(c, pts) \in Seq(Int) /\ ~JumpsBack(c.prev, pts)
  <2>1. pts = c.prev + k * s.step + 0
    BY <1>2, <1>8, <1>9
  <2>2. c.fed /\ Steady(c.deltas, s.step) /\ c.deltas # <<>>
    BY <1>5, <1>8
  <2>3. PICK g \in {0, s.gap} : g = 0
    OBVIOUS
  <2> QED
    BY <1>9, <2>1, <2>2, <2>3, NextInterval
<1>11. Follows(c, pts, v)
  <2>1. v = Push(u, pts)
    BY <1>2
  <2> QED
    BY <1>8, <1>10, <2>1, PushOn
<1>12. u.top \in Int /\ pts + b = u.top + s.step /\ u.top < pts + b /\ TopAfter(c, pts + b) = pts + b
  <2>1. u.top \in Int
    BY <1>5 DEF Unwrapper
  <2>2. pts + b = u.top + s.step
    BY <1>1, <1>2, <1>6, <2>1
  <2>3. u.top < pts + b
    BY <1>1, <2>1, <2>2
  <2> QED
    BY <1>8, <2>1, <2>2, <2>3 DEF TopAfter
<1>13. /\ v \in Unwrapper /\ v.fed = TRUE /\ v.offset = b /\ v.prev = pts /\ v.adjusted = pts + b
       /\ v.top = pts + b /\ v.deltas = Intervals(c, pts) /\ v.pending = <<>> /\ v.resets = 1
  BY <1>5, <1>8, <1>11, <1>12 DEF Follows
<1>14. TrimAt(s, p + 1, v)
  <2>1. v.prev = Raw(s, p + 1) /\ v.top = Raw(s, p + 1) + v.offset
    BY <1>2, <1>13
  <2>2. Steady(v.deltas, s.step) /\ v.deltas # <<>> /\ (v.fed <=> p + 1 > 0)
    BY <1>10, <1>13
  <2>3. ~(p + 1 <= s.damaged) /\ p + 1 > s.head + 1 /\ ~(p + 1 <= s.head + 1)
    BY <1>1
  <2> QED
    BY ONLY <1>3, <1>13, <2>1, <2>2, <2>3 DEF TrimAt
<1> QED
  BY <1>1, <1>12, <1>13, <1>14 DEF RisesTo

LEMMA TrimStep ==
  ASSUME NEW s, Recording(s), NEW p \in 0..(s.count - 1), NEW u, TrimAt(s, p, u),
         NEW v, v = Push(u, Raw(s, p + 1))
  PROVE  TrimAt(s, p + 1, v) /\ RisesTo(s, p, u, v)
<1>1. s.count \in Nat
  BY RecordingIs
<1>2. CASE p = 0
  BY <1>2, TrimFirst
<1>3. CASE p # 0
  <2>1. p \in 1..(s.count - 1)
    BY <1>1, <1>3
  <2>2. CASE Suspended(s, p)
    <3>1. p = s.damaged \/ p = s.head + 1
      BY <2>2 DEF Suspended
    <3> QED
      BY <2>1, <3>1, TrimAbsorbs, TrimCommits
  <2>3. CASE ~Suspended(s, p) /\ Suspended(s, p + 1)
    BY <2>1, <2>3, TrimJumps
  <2>4. CASE ~Suspended(s, p) /\ ~Suspended(s, p + 1)
    BY <2>1, <2>4, TrimOn
  <2> QED
    BY <2>2, <2>3, <2>4
<1> QED
  BY <1>2, <1>3

\* The unwrapper of the decoder and the clock it has shown.
Continues(s, sh, n) == n = s.head + 1 => sh[n] = sh[n - 1] + s.step

EpochInv ==
  /\ source \in Sources /\ pushed \in 0..source.count /\ shown \in [1..source.count -> Int]
  /\ TrimAt(source, pushed, trim) /\ (pushed > 0 => trim.top = shown[pushed])
  /\ \A n \in 2..pushed : shown[n - 1] < shown[n] /\ Continues(source, shown, n)

LEMMA EpochBegins == EpochInit => EpochInv
<1> SUFFICES ASSUME EpochInit PROVE EpochInv
  OBVIOUS
<1>1. PICK s \in Sources : EpochStart(s)
  BY DEF EpochInit
<1>2. Recording(s)
  BY EpochConstants
<1>3. /\ s.step \in Nat \ {0} /\ s.damaged \in Int /\ s.count \in Nat /\ s.head \in Nat
  BY <1>2, RecordingIs
<1>4. source = s /\ pushed = 0 /\ trim = Unused /\ shown = [n \in 1..s.count |-> 0]
  BY <1>1 DEF EpochStart
<1>5. PICK u : u = Unused
  OBVIOUS
<1>6. /\ u \in Unwrapper /\ u.fed = FALSE /\ u.deltas = <<>> /\ u.pending = <<>>
      /\ u.offset = 0 /\ u.resets = 0
  <2>1. <<>> \in Seq(Int)
    OBVIOUS
  <2>2. u = [fed |-> FALSE, offset |-> 0, prev |-> 0, top |-> 0, deltas |-> <<>>,
             pending |-> <<>>, resets |-> 0, adjusted |-> 0]
    BY <1>5 DEF Unused
  <2> QED
    BY <2>1, <2>2 DEF Unwrapper
<1>7. Steady(<<>>, s.step)
  BY <1>3 DEF Steady
<1>8. TrimAt(s, 0, u)
  <2>1. ~Suspended(s, 0)
    BY DEF Suspended
  <2>2. ~(0 > s.head + 1)
    BY <1>3
  <2>3. \A i \in DOMAIN u.deltas : u.deltas[i] = s.step
    BY <1>6
  <2> QED
    BY <1>6, <1>7, <2>1, <2>2, <2>3 DEF TrimAt
<1>9. /\ pushed \in 0..s.count /\ shown \in [1..s.count -> Int] /\ ~(pushed > 0)
      /\ \A n \in 2..pushed : FALSE
  BY <1>3, <1>4
<1> QED
  BY <1>4, <1>5, <1>8, <1>9 DEF EpochInv

LEMMA EpochGoesOn == EpochInv /\ [EpochNext]_evars => EpochInv'
<1> SUFFICES ASSUME EpochInv, [EpochNext]_evars PROVE EpochInv'
  OBVIOUS
<1>1. CASE UNCHANGED evars
  BY <1>1 DEF EpochInv, Continues, evars
<1>2. CASE EpochNext
  <2>1. Sample
    BY <1>2 DEF EpochNext
  <2>2. PICK s \in Sources, p \in Nat : s = source /\ p = pushed
    <3>1. source.count \in Nat
      BY EpochConstants, RecordingIs DEF EpochInv
    <3> QED
      BY <3>1 DEF EpochInv
  <2>3. Recording(s)
    BY EpochConstants
  <2>4. s.count \in Nat
    BY <2>3, RecordingIs
  <2>5. PICK u, v, sh, th : u = trim /\ v = trim' /\ sh = shown /\ th = shown'
    OBVIOUS
  <2>6. /\ TrimAt(s, p, u) /\ (p > 0 => u.top = sh[p]) /\ sh \in [1..s.count -> Int]
        /\ \A n \in 2..p : sh[n - 1] < sh[n] /\ Continues(s, sh, n)
    BY <2>2, <2>5 DEF EpochInv
  <2>7. /\ p < s.count /\ pushed' = p + 1 /\ source' = s
        /\ v = Push(u, Raw(s, p + 1)) /\ th = [sh EXCEPT ![p + 1] = v.adjusted]
    BY <2>1, <2>2, <2>5 DEF Sample
  <2>8. TrimAt(s, p + 1, v) /\ RisesTo(s, p, u, v)
    <3>1. p \in 0..(s.count - 1)
      BY <2>4, <2>7
    <3> QED
      BY <2>3, <2>6, <2>7, <3>1, TrimStep
  <2>9. /\ v.adjusted \in Int /\ v.adjusted = v.top /\ (p > 0 => u.top < v.top)
        /\ p = s.head => v.top = u.top + s.step
    <3>1. v.adjusted \in Int
      BY <2>8 DEF TrimAt, Unwrapper
    <3> QED
      BY <2>8, <3>1 DEF RisesTo
  <2>10. /\ p + 1 \in 1..s.count /\ th \in [1..s.count -> Int] /\ th[p + 1] = v.top
         /\ \A n \in 1..p : th[n] = sh[n]
    BY <2>4, <2>6, <2>7, <2>9
  <2>11. \A n \in 2..(p + 1) : th[n - 1] < th[n] /\ Continues(s, th, n)
    <3> SUFFICES ASSUME NEW n \in 2..(p + 1) PROVE th[n - 1] < th[n] /\ Continues(s, th, n)
      OBVIOUS
    <3>1. CASE n \in 2..p
      <4>1. th[n - 1] = sh[n - 1] /\ th[n] = sh[n]
        BY <2>10, <3>1
      <4> QED
        BY <2>6, <3>1, <4>1 DEF Continues
    <3>2. CASE n = p + 1
      <4>1. p > 0 /\ n - 1 = p /\ th[p] = sh[p]
        BY <2>10, <3>2
      <4>2. th[n - 1] = u.top /\ th[n] = v.top
        BY <2>6, <2>10, <3>2, <4>1
      <4>3. n = s.head + 1 => p = s.head
        BY <2>3, <3>2, RecordingIs
      <4> QED
        BY <2>9, <4>1, <4>2, <4>3 DEF Continues
    <3> QED
      BY <3>1, <3>2
  <2>12. (p + 1) \in 0..s.count
    BY <2>10
  <2>13. /\ source' = s /\ pushed' = p + 1 /\ trim' = v /\ shown' = th
    BY <2>5, <2>7
  <2> QED
    BY <2>8, <2>10, <2>11, <2>12, <2>13 DEF EpochInv
<1> QED
  BY <1>1, <1>2

LEMMA EpochSeamless == EpochInv => JoinsAreSeamless
<1> SUFFICES ASSUME EpochInv PROVE JoinsAreSeamless
  OBVIOUS
<1>1. PICK s \in Sources : s = source
  BY DEF EpochInv
<1>2. Recording(s)
  BY EpochConstants
<1>3. s.count \in Nat /\ s.head \in Nat /\ s.head <= s.count /\ (s.head < s.count => s.head + 2 <= s.count)
  BY <1>2, RecordingIs DEF Recording
<1>4. \A n \in 2..pushed :
        shown[n - 1] < shown[n] /\ (n = s.head + 1 => shown[n] = shown[n - 1] + s.step)
  BY <1>1 DEF EpochInv, Continues
<1>5. trim.resets = IF pushed > s.head + 1 THEN 1 ELSE 0
  BY <1>1 DEF EpochInv, TrimAt
<1>6. pushed = s.count => (pushed > s.head + 1 <=> s.head < s.count)
  BY <1>3
<1>7. pushed = s.count => trim.resets = IF s.head < s.count THEN 1 ELSE 0
  BY ONLY <1>5, <1>6
<1> QED
  BY <1>1, <1>4, <1>7 DEF JoinsAreSeamless

\* One clock for joined recordings (EpochUnwrapper.push; video_reader.py and
\* ffmpeg_reader.py unwrap every decoded stamp with it), for every file that
\* Recording allows: of damaged stamps, one that jumps back by more than a reset.
THEOREM JoinsKeepOneClock == EpochSpec => []JoinsAreSeamless
<1>1. EpochInit => EpochInv
  BY EpochBegins
<1>2. EpochInv /\ [EpochNext]_evars => EpochInv'
  BY EpochGoesOn
<1>3. EpochInv => JoinsAreSeamless
  BY EpochSeamless
<1> QED
  BY <1>1, <1>2, <1>3, PTL DEF EpochSpec
=============================================================================
