------------------------- MODULE OutputTransaction -------------------------
(***************************************************************************)
(* The artifacts of one file run (pipeline/run.py, _OutputTransaction).    *)
(* Every artifact is written to a temporary name.  commit() finishes the   *)
(* writers, moves what is at the final names aside, and renames the        *)
(* temporaries to the final names; when anything raises it rolls back, and *)
(* leaving the with block rolls back once more through discard().          *)
(*                                                                         *)
(* One step is one call of the file system together with the bookkeeping   *)
(* after it.  A step that is disturbed either has no effect (the call      *)
(* fails) or has its effect and raises before the bookkeeping (an          *)
(* interrupt as the call returns).  The disk between two steps is what a   *)
(* killed process leaves behind.                                           *)
(***************************************************************************)
EXTENDS Naturals

CONSTANTS
  K,          \* number of artifacts, in plan order
  Existing,   \* artifacts whose final name exists before the run
  Sinks,      \* artifacts written by a video sink
  Framed,     \* the sinks that hold frames
  Dirs,       \* artifacts that are directories
  Overwrite,  \* plan.overwrite
  Intruded,   \* final names at which another program may create a file
  FaultSites, \* the steps that may be disturbed
  MaxFaults   \* bound: how many steps are disturbed

Art     == 1..K
Place   == {"final", "temp", "backup"}
Content == {"none", "old", "new", "foreign"}
Phase   == {"write", "finish", "displace", "publish", "unpublish", "restore",
            "tidy", "cleanup", "exit", "closed"}
Site    == {"write", "finish", "displace", "publish", "unpublish", "restore",
            "tidy", "cleanup", "between"}

ASSUME TransactionConstants ==
  /\ K \in Nat
  /\ Existing \subseteq Art /\ Sinks \subseteq Art /\ Dirs \subseteq Art
  /\ Framed \subseteq Sinks /\ Sinks \cap Dirs = {}
  /\ Overwrite \in BOOLEAN /\ (Existing # {} => Overwrite)
  /\ Intruded \subseteq Art
  /\ FaultSites \subseteq Site
  /\ MaxFaults \in Nat

VARIABLES
  disk,        \* disk[a][p]: what is at place p of artifact a
  publishing,  \* entry.publishing
  published,   \* entry.published
  slot,        \* entry.backup_path is set
  phase,       \* the pass under way
  k,           \* the entry the pass is at
  discarding,  \* the rollback under way is the one of discard()
  committed,   \* _committed
  reserved,    \* the artifact reservation is held
  faults       \* steps disturbed so far

entries == <<publishing, published, slot>>
control == <<phase, k, discarding, committed, reserved>>
vars    == <<disk, entries, control, faults>>

-----------------------------------------------------------------------------
Fault(site) ==
  /\ site \in FaultSites /\ faults < MaxFaults
  /\ faults' = faults + 1

Undisturbed == UNCHANGED faults

\* rename_exclusive, Path.replace and the removal of a file, on one artifact.
CanRename(a, from, to) == disk[a][from] # "none" /\ disk[a][to] = "none"
Moved(a, from, to) == [disk EXCEPT ![a][to] = disk[a][from], ![a][from] = "none"]
Removed(a, place)  == [disk EXCEPT ![a][place] = "none"]

GoTo(p, i) == phase' = p /\ k' = i
Stay       == UNCHANGED <<discarding, committed, reserved>>

\* Faulty variant: the rollback starts past the end of the entries.
RaisePastEnd == GoTo("unpublish", K + 2) /\ discarding' = FALSE /\ UNCHANGED <<committed, reserved>>

\* commit() catches anything that is raised and rolls back from the last entry.
Raise == GoTo("unpublish", K) /\ discarding' = FALSE /\ UNCHANGED <<committed, reserved>>

-----------------------------------------------------------------------------
(* The body of the with block *)

\* The run ends, and commits.
BeginCommit == phase = "write" /\ GoTo("finish", 1) /\ Stay /\ UNCHANGED <<disk, entries, faults>>

\* The run raises: straight to discard().
RunFails ==
  /\ phase = "write" /\ Fault("write")
  /\ GoTo("exit", 1) /\ Stay
  /\ UNCHANGED <<disk, entries>>

\* FileSink.finalize: a sink that cannot finish keeps its frames.
Finish ==
  /\ phase = "finish" /\ k <= K
  /\ \/ GoTo("finish", k + 1) /\ Stay /\ Undisturbed
     \/ k \in Sinks /\ Fault("finish") /\ Raise
  /\ UNCHANGED <<disk, entries>>

\* plan.validate: without overwrite no final name may exist.
Validate ==
  /\ phase = "finish" /\ k = K + 1
  /\ IF ~Overwrite /\ \E a \in Art : disk[a]["final"] # "none"
     THEN Raise
     ELSE GoTo("displace", 1) /\ Stay
  /\ UNCHANGED <<disk, entries, faults>>

\* Faulty variant: the slot is noted after the rename.
DisplaceNotedLate ==
  /\ phase = "displace" /\ k <= K
  /\ disk[k]["final"] # "none" /\ Overwrite
  /\ \/ disk' = Moved(k, "final", "backup") /\ slot' = [slot EXCEPT ![k] = TRUE]
        /\ GoTo("displace", k + 1) /\ Stay /\ Undisturbed
     \/ disk' = Moved(k, "final", "backup") /\ UNCHANGED slot /\ Fault("displace") /\ Raise
     \/ UNCHANGED <<disk, slot>> /\ Fault("displace") /\ Raise
  /\ UNCHANGED <<publishing, published>>

\* Displace what is at the final name; the slot is noted before the rename.
Displace ==
  /\ phase = "displace" /\ k <= K
  /\ disk[k]["final"] # "none" /\ Overwrite
  /\ slot' = [slot EXCEPT ![k] = TRUE]
  /\ \/ disk' = Moved(k, "final", "backup") /\ GoTo("displace", k + 1) /\ Stay /\ Undisturbed
     \/ disk' = Moved(k, "final", "backup") /\ Fault("displace") /\ Raise
     \/ UNCHANGED disk /\ Fault("displace") /\ Raise
  /\ UNCHANGED <<publishing, published>>

NothingToDisplace ==
  /\ phase = "displace"
  /\ IF k > K THEN GoTo("publish", 1)
              ELSE disk[k]["final"] = "none" /\ GoTo("displace", k + 1)
  /\ Stay
  /\ UNCHANGED <<disk, entries, faults>>

DestinationAppeared ==
  /\ phase = "displace" /\ k <= K
  /\ disk[k]["final"] # "none" /\ ~Overwrite
  /\ Raise
  /\ UNCHANGED <<disk, entries, faults>>

\* The exclusive rename to the final name, between its two flags.
Publish ==
  /\ phase = "publish" /\ k <= K
  /\ publishing' = [publishing EXCEPT ![k] = TRUE]
  /\ \/ /\ CanRename(k, "temp", "final")
        /\ disk' = Moved(k, "temp", "final")
        /\ published' = [published EXCEPT ![k] = TRUE]
        /\ GoTo("publish", k + 1) /\ Stay /\ Undisturbed
     \/ /\ CanRename(k, "temp", "final")
        /\ disk' = Moved(k, "temp", "final")
        /\ Fault("publish") /\ Raise /\ UNCHANGED published
     \/ /\ IF CanRename(k, "temp", "final") THEN Fault("publish") ELSE Undisturbed
        /\ Raise /\ UNCHANGED <<disk, published>>
  /\ UNCHANGED slot

\* The commit point.
CommitPoint ==
  /\ phase = "publish" /\ k = K + 1
  /\ committed' = TRUE
  /\ GoTo("cleanup", 1)
  /\ UNCHANGED <<disk, entries, discarding, reserved, faults>>

\* Backups go one by one; a failure to remove one does not stop the others.
Cleanup ==
  /\ phase = "cleanup" /\ k <= K
  /\ \/ /\ IF slot[k] THEN disk' = Removed(k, "backup") ELSE UNCHANGED disk
        /\ slot' = [slot EXCEPT ![k] = FALSE]
        /\ Undisturbed
     \/ /\ slot[k] /\ Fault("cleanup")
        /\ disk' \in {disk, Removed(k, "backup")}
        /\ UNCHANGED slot
  /\ GoTo("cleanup", k + 1) /\ Stay
  /\ UNCHANGED <<publishing, published>>

-----------------------------------------------------------------------------
(* Rollback: three passes, each from the last entry to the first *)

Down(p) == GoTo(p, k - 1) /\ Stay

\* An interrupt outside the try blocks leaves the rollback where it is: __exit__
\* follows, or, when it was discard's, the with statement is left.
Escape == (IF discarding THEN GoTo("closed", 1) ELSE GoTo("exit", 1)) /\ Stay

\* Faulty variant: whatever is at the final name is taken for the run's own.
LandedByName(a) == disk[a]["final"] # "none"

Landed(a) == published[a] \/ (disk[a]["final"] # "none" /\ disk[a]["temp"] = "none")

ForgetPublication(a) ==
  /\ publishing' = [publishing EXCEPT ![a] = FALSE]
  /\ published'  = [published  EXCEPT ![a] = FALSE]

\* Faulty variant: the flags of an entry that did not land stay set.
NotLandedKeepsFlags ==
  /\ phase = "unpublish" /\ k > 0
  /\ ~(publishing[k] /\ Landed(k))
  /\ Down("unpublish")
  /\ UNCHANGED <<disk, entries, faults>>

\* _remove_published, for an entry that did not land.
NotLanded ==
  /\ phase = "unpublish" /\ k > 0
  /\ ~(publishing[k] /\ Landed(k))
  /\ ForgetPublication(k)
  /\ Down("unpublish")
  /\ UNCHANGED <<disk, slot, faults>>

\* _remove_published, for one that did: a video goes back to its temporary
\* name, anything else is removed.  After a failure the flags stay set.
Unpublish ==
  LET possible == k \in Sinks => CanRename(k, "final", "temp")
      without  == IF k \in Sinks THEN Moved(k, "final", "temp") ELSE Removed(k, "final")
  IN
  /\ phase = "unpublish" /\ k > 0
  /\ publishing[k] /\ Landed(k)
  /\ \/ /\ possible /\ disk' = without
        /\ ForgetPublication(k) /\ Undisturbed /\ Down("unpublish")
     \/ /\ possible /\ disk' = without
        /\ UNCHANGED <<publishing, published>>
        /\ \/ Fault("unpublish") /\ Down("unpublish")
           \/ Fault("between") /\ Escape
     \/ /\ IF possible THEN Fault("unpublish") ELSE Undisturbed
        /\ UNCHANGED <<disk, publishing, published>> /\ Down("unpublish")
  /\ UNCHANGED slot

NothingToRestore ==
  /\ phase = "restore" /\ k > 0
  /\ slot[k] => disk[k]["backup"] = "none"
  /\ slot' = [slot EXCEPT ![k] = FALSE]
  /\ Down("restore")
  /\ UNCHANGED <<disk, publishing, published, faults>>

\* _restore_backup: Path.replace overwrites a file, but no directory.
Restore ==
  LET possible == k \in Dirs => disk[k]["final"] = "none"
  IN
  /\ phase = "restore" /\ k > 0
  /\ slot[k] /\ disk[k]["backup"] # "none"
  /\ \/ /\ possible /\ disk' = Moved(k, "backup", "final")
        /\ slot' = [slot EXCEPT ![k] = FALSE] /\ Undisturbed /\ Down("restore")
     \/ /\ possible /\ disk' = Moved(k, "backup", "final")
        /\ UNCHANGED slot
        /\ \/ Fault("restore") /\ Down("restore")
           \/ Fault("between") /\ Escape
     \/ /\ IF possible THEN Fault("restore") ELSE Undisturbed
        /\ UNCHANGED <<disk, slot>> /\ Down("restore")
  /\ UNCHANGED <<publishing, published>>

\* Faulty variant: a video goes even when it holds frames.
TidyVideos ==
  /\ phase = "tidy" /\ k > 0
  /\ IF published[k]
     THEN UNCHANGED disk /\ Undisturbed
     ELSE \/ disk' = Removed(k, "temp") /\ Undisturbed
          \/ disk' \in {disk, Removed(k, "temp")} /\ Fault("tidy")
  /\ Down("tidy")
  /\ UNCHANGED entries

\* _remove_temporary: what is published, and a video with frames, stays.
Tidy ==
  /\ phase = "tidy" /\ k > 0
  /\ IF published[k] \/ k \in Framed
     THEN UNCHANGED disk /\ Undisturbed
     ELSE \/ disk' = Removed(k, "temp") /\ Undisturbed
          \/ disk' \in {disk, Removed(k, "temp")} /\ Fault("tidy")
  /\ Down("tidy")
  /\ UNCHANGED entries

\* The next pass, and the way out of the rollback of commit().
NextPass ==
  /\ k = 0
  /\ \/ phase = "unpublish" /\ GoTo("restore", K) /\ Stay
     \/ phase = "restore" /\ GoTo("tidy", K) /\ Stay
     \/ phase = "tidy" /\ ~discarding /\ GoTo("exit", 1) /\ Stay
     \/ /\ phase = "tidy" /\ discarding
        /\ GoTo("closed", 1)
        /\ reserved' = FALSE /\ UNCHANGED <<discarding, committed>>
  /\ UNCHANGED <<disk, entries, faults>>

\* An interrupt between two entries.
Interrupted ==
  /\ Fault("between")
  /\ \/ phase \in {"finish", "displace", "publish"} /\ Raise
     \/ phase \in {"unpublish", "restore", "tidy", "cleanup"} /\ Escape
     \/ phase = "publish" /\ k = K + 1 /\ Escape
  /\ UNCHANGED <<disk, entries>>

\* __exit__: a run that did not commit is discarded; then the reservation goes.
Exit ==
  /\ \/ phase = "exit"
     \/ phase = "cleanup" /\ k = K + 1
  /\ IF committed
     THEN GoTo("closed", 1) /\ reserved' = FALSE /\ UNCHANGED discarding
     ELSE GoTo("unpublish", K) /\ discarding' = TRUE /\ UNCHANGED reserved
  /\ UNCHANGED <<disk, entries, committed, faults>>

Closed == phase = "closed" /\ UNCHANGED vars

\* Another program creates a file at a free final name.
Intrude ==
  /\ phase # "closed"
  /\ \E a \in Intruded :
       /\ disk[a]["final"] = "none"
       /\ \A p \in Place : disk[a][p] # "foreign"
       /\ disk' = [disk EXCEPT ![a]["final"] = "foreign"]
  /\ UNCHANGED <<entries, control, faults>>

-----------------------------------------------------------------------------
Init ==
  /\ disk = [a \in Art |-> [p \in Place |->
               CASE p = "final"  -> IF a \in Existing THEN "old" ELSE "none"
                 [] p = "temp"   -> "new"
                 [] p = "backup" -> "none"]]
  /\ publishing = [a \in Art |-> FALSE]
  /\ published = [a \in Art |-> FALSE]
  /\ slot = [a \in Art |-> FALSE]
  /\ phase = "write" /\ k = 1 /\ discarding = FALSE
  /\ committed = FALSE /\ reserved = TRUE
  /\ faults = 0

RunStep ==
  \/ BeginCommit \/ RunFails \/ Finish \/ Validate
  \/ Displace \/ NothingToDisplace \/ DestinationAppeared
  \/ Publish \/ CommitPoint \/ Cleanup
  \/ NotLanded \/ Unpublish \/ NothingToRestore \/ Restore \/ Tidy
  \/ NextPass \/ Interrupted \/ Exit

Next == RunStep \/ Intrude \/ Closed

Spec == Init /\ [][Next]_vars

-----------------------------------------------------------------------------
\* Every variable has its type.
TypeOK ==
  /\ disk \in [Art -> [Place -> Content]]
  /\ publishing \in [Art -> BOOLEAN] /\ published \in [Art -> BOOLEAN]
  /\ slot \in [Art -> BOOLEAN]
  /\ phase \in Phase /\ k \in 0..(K + 1)
  /\ discarding \in BOOLEAN /\ committed \in BOOLEAN /\ reserved \in BOOLEAN
  /\ faults \in 0..MaxFaults

\* Until the whole set is in place the user's file is at its own name or at its
\* backup: whenever the process dies, and however often it is interrupted.
OriginalKept ==
  \A a \in Existing :
    committed \/ disk[a]["final"] = "old" \/ disk[a]["backup"] = "old"

\* The set is published together: after the with block of a run that was
\* disturbed at most once, every final name holds the run's artifact, or every
\* one is as it was before the run.  A name that another program took while it
\* was free is that program's.
AllOrNone ==
  phase = "closed" /\ faults <= 1 =>
    \A a \in Art :
      \/ disk[a]["final"] = "foreign"
      \/ disk[a]["final"] = (IF committed THEN "new" ELSE IF a \in Existing THEN "old" ELSE "none")

\* "A video is never deleted": the frames written so far are at the final or at
\* the partial name.  It holds as long as the rename of a published video back to
\* its partial name is not what fails: after that the original is restored over
\* it (TxnVideo.cfg), so a run that checks it takes "unpublish" out of the sites.
VideoKept ==
  \A a \in Framed : disk[a]["final"] = "new" \/ disk[a]["temp"] = "new"

\* Without overwrite, a file that another program put at a destination is left
\* alone, by the publication and by either rollback.
ForeignKept ==
  [][\A a \in Art : disk[a]["final"] = "foreign" => disk'[a]["final"] = "foreign"]_vars
=============================================================================
