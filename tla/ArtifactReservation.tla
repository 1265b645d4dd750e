------------------------ MODULE ArtifactReservation ------------------------
(***************************************************************************)
(* The reservation of output paths (pipeline/run.py, _ArtifactReservation) *)
(* by runs of several processes: a table of the process under its guard,   *)
(* and byte-range locks of the kernel, exclusive on every artifact and     *)
(* shared on its ancestors.  Runs of one process share the kernel's locks  *)
(* and count their holders.                                                *)
(***************************************************************************)
EXTENDS Integers, FiniteSets

CONSTANTS
  Run,        \* runs that reserve
  ProcessOf,  \* the process of a run
  Outputs,    \* the artifacts of a run
  Paths,      \* all paths, in the order of their names
  Parents     \* the ancestors of a path

Path    == {Paths[n] : n \in DOMAIN Paths}
Process == {ProcessOf[r] : r \in Run}

ASSUME ReservationConstants ==
  /\ \A r \in Run : Outputs[r] \subseteq Path
  /\ \A p \in Path : Parents[p] \subseteq Path \ {p}

VARIABLES
  rpc,        \* "idle", "locking", "held", "dead" of a run
  namespaces, \* _RESERVED_NAMESPACES of a process
  holders,    \* _NAMESPACE_RANGE_HOLDERS of a process
  ranges,     \* the kernel's locks: <<process, path, mode>>
  taken       \* _locked_offsets of a run: the paths it has locked

rvars == <<rpc, namespaces, holders, ranges, taken>>

Overlap(a, b) == a = b \/ a \in Parents[b] \/ b \in Parents[a]

\* The paths a run locks; its artifacts exclusively, their ancestors shared.
Requests(r) == {p \in Path : \E o \in Outputs[r] : p = o \/ p \in Parents[o]}
Mode(r, path) == IF path \in Outputs[r] THEN "LOCK_EX" ELSE "LOCK_SH"
Precedes(a, b) == \E m, n \in DOMAIN Paths : m < n /\ Paths[m] = a /\ Paths[n] = b

Runs(p) == {r \in Run : ProcessOf[r] = p}

\* The guard of the process is free.
Guarded(r) == \A s \in Runs(ProcessOf[r]) : rpc[s] # "locking"

\* Faulty variant: only the same path is a conflict.
ConflictsSame(r) == namespaces[ProcessOf[r]] \cap Outputs[r] # {}

\* A run of this process has a path, an ancestor or a descendant of one.
Conflicts(r) == \E a \in namespaces[ProcessOf[r]], b \in Outputs[r] : Overlap(a, b)

\* acquire(): a conflict in the process is refused at once.
StartsLocking(r) ==
  /\ rpc[r] = "idle" /\ Guarded(r) /\ ~Conflicts(r)
  /\ rpc' = [rpc EXCEPT ![r] = "locking"]
  /\ UNCHANGED <<namespaces, holders, ranges, taken>>

\* fcntl.lockf(LOCK_NB) of the kernel.
Granted(p, path, mode) ==
  \A range \in ranges : range[1] # p /\ range[2] = path => mode = "LOCK_SH" /\ range[3] = "LOCK_SH"

\* The paths are locked in their order.
IsNext(path, r) ==
  path \in Requests(r) \ taken[r] /\ \A other \in Requests(r) \ taken[r] : ~Precedes(other, path)

\* A range a run of this process already holds is only counted.
LocksNext(r) ==
  /\ rpc[r] = "locking"
  /\ \E path \in Path :
       /\ IsNext(path, r)
       /\ IF holders[ProcessOf[r]][path] > 0 THEN UNCHANGED ranges
          ELSE /\ Granted(ProcessOf[r], path, Mode(r, path))
               /\ ranges' = ranges \cup {<<ProcessOf[r], path, Mode(r, path)>>}
       /\ holders' = [holders EXCEPT ![ProcessOf[r]][path] = @ + 1]
       /\ taken' = [taken EXCEPT ![r] = @ \cup {path}]
  /\ UNCHANGED <<rpc, namespaces>>

\* Faulty variant: a range is unlocked with its first holder.
UnlocksAll(r) == taken[r]

\* A range is unlocked with its last holder.
Unlocks(r) == {path \in taken[r] : holders[ProcessOf[r]][path] = 1}

\* _release_offsets()
Releases(r) ==
  LET p == ProcessOf[r]
  IN  /\ ranges' = {range \in ranges : ~(range[1] = p /\ range[2] \in Unlocks(r))}
      /\ holders' = [holders EXCEPT ![p] = [path \in Path |->
           IF path \in taken[r] THEN @[path] - 1 ELSE @[path]]]
      /\ taken' = [taken EXCEPT ![r] = {}]
      /\ rpc' = [rpc EXCEPT ![r] = "idle"]

\* The kernel refuses, or the call fails: what was locked is unlocked.
GivesUpLocking(r) ==
  /\ rpc[r] = "locking" /\ Releases(r)
  /\ UNCHANGED namespaces

Holds(r) ==
  /\ rpc[r] = "locking" /\ taken[r] = Requests(r)
  /\ rpc' = [rpc EXCEPT ![r] = "held"]
  /\ namespaces' = [namespaces EXCEPT ![ProcessOf[r]] = @ \cup Outputs[r]]
  /\ UNCHANGED <<holders, ranges, taken>>

ReleasesRun(r) ==
  /\ rpc[r] = "held" /\ Guarded(r) /\ Releases(r)
  /\ namespaces' = [namespaces EXCEPT ![ProcessOf[r]] = @ \ Outputs[r]]

\* The process dies: its runs are gone, and the kernel drops its locks.
Dies(p) ==
  /\ \E r \in Runs(p) : rpc[r] # "dead"
  /\ rpc' = [r \in Run |-> IF r \in Runs(p) THEN "dead" ELSE rpc[r]]
  /\ ranges' = {range \in ranges : range[1] # p}
  /\ UNCHANGED <<namespaces, holders, taken>>

ReservationInit ==
  /\ rpc = [r \in Run |-> "idle"] /\ namespaces = [p \in Process |-> {}]
  /\ holders = [p \in Process |-> [path \in Path |-> 0]]
  /\ ranges = {} /\ taken = [r \in Run |-> {}]

ReservationNext ==
  \/ \E r \in Run :
       StartsLocking(r) \/ LocksNext(r) \/ GivesUpLocking(r) \/ Holds(r) \/ ReleasesRun(r)
  \/ \E p \in Process : Dies(p)

ReservationSpec == ReservationInit /\ [][ReservationNext]_rvars

-----------------------------------------------------------------------------
\* Two runs that hold their reservations never write to the same artifact, nor
\* one inside an artifact of the other, in one process or in two.
ReservationsDisjoint ==
  \A r, s \in Run : r # s /\ rpc[r] = "held" /\ rpc[s] = "held" =>
    \A a \in Outputs[r], b \in Outputs[s] : ~Overlap(a, b)

\* The kernel's locks of a process are those of its runs, no more (nothing stays
\* locked after a refusal or a release) and no less (a release of one run leaves
\* those another one needs).
RangesFollowRuns ==
  \A p \in Process :
    {range[2] : range \in {g \in ranges : g[1] = p}}
      = UNION {taken[r] : r \in {s \in Runs(p) : rpc[s] # "dead"}}
=============================================================================
