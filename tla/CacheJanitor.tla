---------------------------- MODULE CacheJanitor ----------------------------
(***************************************************************************)
(* The Core Image cache janitor (media/pixel_buffers.py, _CiCacheJanitor): *)
(* renders of several threads, leases of owners, and clears that happen    *)
(* periodically, after the last owner or on request.  Every block under    *)
(* the condition is one step; a thread that waits sleeps until notify_all. *)
(***************************************************************************)
EXTENDS Integers, FiniteSets

CONSTANTS
  Renderer,   \* the threads
  Interval,   \* renders between two periodic clears
  Renders     \* renders of the whole run

ASSUME JanitorConstants == Interval \in Nat \ {0} /\ Renders \in Nat

VARIABLES
  cpc,        \* what a thread does
  asleep,     \* the threads that wait to be notified
  owning,     \* the threads with an owner's lease (_owners)
  active,     \* _active
  dirty,      \* _dirty
  backoff,    \* _backoff
  clearing,   \* _clearing
  rendered,   \* renders completed
  cleared,    \* _cleared
  owed        \* renders completed when a thread asked for its clear

jvars == <<cpc, asleep, owning, active, dirty, backoff, clearing, rendered, cleared, owed>>

Step(t, from, to) == t \notin asleep /\ cpc[t] = from /\ cpc' = [cpc EXCEPT ![t] = to]

\* Condition.wait(): the loop is entered again after a notification.
Sleep(t, at) ==
  /\ t \notin asleep /\ cpc[t] = at /\ asleep' = asleep \cup {t}
  /\ UNCHANGED <<cpc, owning, active, dirty, backoff, clearing, rendered, cleared, owed>>

AcquireOwner(t) ==
  /\ Step(t, "idle", "idle") /\ t \notin owning
  /\ owning' = owning \cup {t}
  /\ UNCHANGED <<asleep, active, dirty, backoff, clearing, rendered, cleared, owed>>

\* Only the last owner goes on to clear.
ReleaseOwner(t) ==
  /\ t \in owning /\ owning' = owning \ {t}
  /\ Step(t, "idle", IF owning = {t} THEN "settle" ELSE "idle")
  /\ owed' = [owed EXCEPT ![t] = IF owning = {t} THEN rendered ELSE 0]
  /\ UNCHANGED <<asleep, active, dirty, backoff, clearing, rendered, cleared>>

ClearIfDirty(t) ==
  /\ Step(t, "idle", "settle")
  /\ owed' = [owed EXCEPT ![t] = rendered]
  /\ UNCHANGED <<asleep, owning, active, dirty, backoff, clearing, rendered, cleared>>

Render(t) ==
  /\ Step(t, "idle", "begin")
  /\ rendered + active + Cardinality({u \in Renderer : cpc[u] = "begin"}) < Renders
  /\ UNCHANGED <<asleep, owning, active, dirty, backoff, clearing, rendered, cleared, owed>>

\* Faulty variant: a render enters while the caches are cleared.
EntersAnyway == TRUE

\* What lets a render in.
MayEnter == ~clearing

BeginRender(t) ==
  \/ /\ MayEnter /\ Step(t, "begin", "render") /\ active' = active + 1
     /\ UNCHANGED <<asleep, owning, dirty, backoff, clearing, rendered, cleared, owed>>
  \/ ~MayEnter /\ Sleep(t, "begin")

\* A failed clear is not tried again before another interval is over.
Due(n) == n - backoff >= Interval

FinishRender(t) ==
  /\ active' = active - 1 /\ dirty' = dirty + 1 /\ rendered' = rendered + 1
  /\ LET due == active = 1 /\ ~clearing /\ Due(dirty + 1)
     IN  /\ clearing' = (clearing \/ due)
         /\ Step(t, "render", IF due THEN "clear" ELSE "idle")
  /\ asleep' = IF active = 1 THEN {} ELSE asleep
  /\ owed' = [owed EXCEPT ![t] = 0]
  /\ UNCHANGED <<owning, backoff, cleared>>

\* No clear and no render is under way.
Calm == ~clearing /\ active = 0

\* Faulty variant: a request clears what is due, like a render.
WorthByInterval == Due(dirty)

WorthClearing == dirty > 0

\* release_owner() and clear_if_dirty() once they are alone.
Settles(t) ==
  \/ ~Calm /\ Sleep(t, "settle")
  \/ /\ Calm /\ clearing' = WorthClearing
     /\ Step(t, "settle", IF WorthClearing THEN "clear" ELSE "idle")
     /\ UNCHANGED <<asleep, owning, active, dirty, backoff, rendered, cleared, owed>>

Cleared(t) ==
  /\ Step(t, "clear", "idle")
  /\ cleared' = cleared + dirty /\ dirty' = 0 /\ backoff' = 0
  /\ clearing' = FALSE /\ asleep' = {}
  /\ UNCHANGED <<owning, active, rendered, owed>>

\* Faulty variant: a failed clear wakes nobody.
WakesNobody == asleep' = asleep

WakesAll == asleep' = {}

\* The renders stay dirty, for the next clear.
ClearFails(t) ==
  /\ Step(t, "clear", "idle")
  /\ backoff' = dirty /\ clearing' = FALSE /\ WakesAll
  /\ UNCHANGED <<owning, active, dirty, rendered, cleared, owed>>

JanitorInit ==
  /\ cpc = [t \in Renderer |-> "idle"] /\ asleep = {} /\ owning = {} /\ active = 0
  /\ dirty = 0 /\ backoff = 0 /\ clearing = FALSE /\ rendered = 0 /\ cleared = 0
  /\ owed = [t \in Renderer |-> 0]

\* What a thread does by its own choice, and what follows.
JanitorCall(t) == AcquireOwner(t) \/ ReleaseOwner(t) \/ ClearIfDirty(t) \/ Render(t)
JanitorStep(t) ==
  BeginRender(t) \/ FinishRender(t) \/ Settles(t) \/ Cleared(t) \/ ClearFails(t)

JanitorNext == \E t \in Renderer : JanitorCall(t) \/ JanitorStep(t)

JanitorSpec == JanitorInit /\ [][JanitorNext]_jvars

-----------------------------------------------------------------------------
\* A clear of the Core Image caches runs alone: no render and no other clear.
ClearsAlone ==
  /\ clearing => active = 0
  /\ Cardinality({t \in Renderer : cpc[t] = "clear"}) = (IF clearing THEN 1 ELSE 0)

\* "Clear every render completed before": a request, or the last release, that
\* returns has covered the renders completed before it, or its clear failed.
ClearCovers ==
  [][\A t \in Renderer : cpc[t] \in {"settle", "clear"} /\ cpc'[t] = "idle" =>
        cleared' >= owed[t] \/ backoff' > 0]_jvars

\* No wake-up is lost: a thread sleeps only as long as what it waits for lasts.
SleepsForReason ==
  \A t \in asleep : clearing \/ (cpc[t] = "settle" /\ active > 0)
=============================================================================
