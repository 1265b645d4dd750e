---------------------- MODULE OutputTransactionProofs ----------------------
(***************************************************************************)
(* Theorems about the output transaction, for every number of artifacts    *)
(* and every number of disturbed steps: the types, that the user's files   *)
(* survive, that the set is published together or not at all, that the     *)
(* video's frames are never lost, and that files of other programs are     *)
(* left alone, all but the types as long as the removal of what was        *)
(* published is not what is disturbed.                                     *)
(***************************************************************************)
EXTENDS OutputTransaction, TLAPS

-----------------------------------------------------------------------------
(* The file system *)

\* What a rename leaves where.
LEMMA Renaming ==
  ASSUME disk \in [Art -> [Place -> Content]],
         NEW a \in Art, NEW from \in Place, NEW to \in Place, from # to
  PROVE  /\ Moved(a, from, to) \in [Art -> [Place -> Content]]
         /\ \A b \in Art, p \in Place :
              Moved(a, from, to)[b][p] = IF b = a /\ p = to THEN disk[a][from]
                                         ELSE IF b = a /\ p = from THEN "none"
                                         ELSE disk[b][p]
BY DEF Moved, Content

\* What a removal leaves where.
LEMMA Removing ==
  ASSUME disk \in [Art -> [Place -> Content]], NEW a \in Art, NEW place \in Place
  PROVE  /\ Removed(a, place) \in [Art -> [Place -> Content]]
         /\ \A b \in Art, p \in Place :
              Removed(a, place)[b][p] = IF b = a /\ p = place THEN "none" ELSE disk[b][p]
BY DEF Removed, Content

-----------------------------------------------------------------------------
(* Types *)

Rollback == {"unpublish", "restore", "tidy"}

\* The cursor stands on an entry whenever a pass looks at one.
Cursor == IF phase \in Rollback THEN k <= K ELSE k >= 1

DiskOK     == disk \in [Art -> [Place -> Content]]
EntriesOK  == /\ publishing \in [Art -> BOOLEAN] /\ published \in [Art -> BOOLEAN]
              /\ slot \in [Art -> BOOLEAN]
FlagsOK    == discarding \in BOOLEAN /\ committed \in BOOLEAN /\ reserved \in BOOLEAN
PositionOK == /\ phase \in Phase /\ k \in 0..(K + 1) /\ faults \in 0..MaxFaults
              /\ Cursor

Typed == DiskOK /\ EntriesOK /\ FlagsOK /\ PositionOK

LEMMA InitTyped == Init => Typed
<1> SUFFICES ASSUME Init PROVE Typed
  OBVIOUS
<1>1. DiskOK
  BY DEF Init, DiskOK, Place, Content
<1>2. EntriesOK
  BY DEF Init, EntriesOK
<1>3. FlagsOK
  BY DEF Init, FlagsOK
<1>4. PositionOK
  BY TransactionConstants DEF Init, PositionOK, Cursor, Rollback, Phase
<1> QED
  BY <1>1, <1>2, <1>3, <1>4 DEF Typed

LEMMA NextTyped == Typed /\ [Next]_vars => Typed'
<1> SUFFICES ASSUME DiskOK, EntriesOK, FlagsOK, PositionOK, [Next]_vars PROVE Typed'
  BY DEF Typed
<1> USE DEF Art
<1>1. FlagsOK'
  <2>1. CASE CommitPoint \/ Cleanup \/ NotLanded \/ Unpublish \/ NothingToRestore \/ Restore
             \/ Tidy \/ NextPass \/ Interrupted \/ Exit
    BY <2>1 DEF FlagsOK, CommitPoint, Cleanup, NotLanded, Unpublish, NothingToRestore, Restore,
       Tidy, NextPass, Interrupted, Exit, Down, Stay, Raise, Escape
  <2>2. CASE BeginCommit \/ RunFails \/ Finish \/ Validate \/ Displace \/ NothingToDisplace
             \/ DestinationAppeared \/ Publish \/ Intrude \/ Closed \/ UNCHANGED vars
    BY <2>2 DEF FlagsOK, BeginCommit, RunFails, Finish, Validate, Displace, NothingToDisplace,
       DestinationAppeared, Publish, Intrude, Closed, Stay, Raise, vars, control
  <2> QED
    BY <2>1, <2>2 DEF Next, RunStep
<1>2. PositionOK'
  <2> USE TransactionConstants DEF PositionOK, Cursor, Rollback, Phase, GoTo
  <2>1. CASE BeginCommit
    BY <2>1 DEF BeginCommit
  <2>2. CASE RunFails
    BY <2>2 DEF RunFails, Fault
  <2>3. CASE Finish
    BY <2>3 DEF Finish, Fault, Undisturbed, Raise
  <2>4. CASE Validate
    BY <2>4 DEF Validate, Raise
  <2>5. CASE Displace
    BY <2>5 DEF Displace, Fault, Undisturbed, Raise
  <2>6. CASE NothingToDisplace
    BY <2>6 DEF NothingToDisplace
  <2>7. CASE DestinationAppeared
    BY <2>7 DEF DestinationAppeared, Raise
  <2>8. CASE Publish
    BY <2>8 DEF Publish, Fault, Undisturbed, Raise
  <2>9. CASE CommitPoint
    BY <2>9 DEF CommitPoint
  <2>10. CASE Cleanup
    BY <2>10 DEF Cleanup, Fault, Undisturbed
  <2>11. CASE NotLanded
    BY <2>11 DEF NotLanded, Down
  <2>12. CASE Unpublish
    BY <2>12 DEF Unpublish, Down, Fault, Undisturbed, Escape
  <2>13. CASE NothingToRestore
    BY <2>13 DEF NothingToRestore, Down
  <2>14. CASE Restore
    BY <2>14 DEF Restore, Down, Fault, Undisturbed, Escape
  <2>15. CASE Tidy
    BY <2>15 DEF Tidy, Down, Fault, Undisturbed
  <2>16. CASE NextPass
    BY <2>16 DEF NextPass
  <2>17. CASE Interrupted
    BY <2>17 DEF Interrupted, Fault, Raise, Escape
  <2>18. CASE Exit
    BY <2>18 DEF Exit
  <2>19. CASE Intrude
    BY <2>19 DEF Intrude, control
  <2>20. CASE Closed
    BY <2>20 DEF Closed, vars, control
  <2>21. CASE UNCHANGED vars
    BY <2>21 DEF vars, control
  <2> QED
    BY <2>1, <2>2, <2>3, <2>4, <2>5, <2>6, <2>7, <2>8, <2>9, <2>10, <2>11, <2>12, <2>13, <2>14,
       <2>15, <2>16, <2>17, <2>18, <2>19, <2>20, <2>21 DEF Next, RunStep
<1>3. EntriesOK'
  BY DEF EntriesOK, PositionOK, Next, RunStep, BeginCommit, RunFails, Finish, Validate,
     Displace, NothingToDisplace, DestinationAppeared, Publish, CommitPoint, Cleanup,
     NotLanded, Unpublish, NothingToRestore, Restore, Tidy, NextPass, Interrupted, Exit,
     Intrude, Closed, ForgetPublication, entries, vars
<1>4. DiskOK'
  <2> USE TransactionConstants DEF PositionOK, Cursor, Rollback
  <2> "final" \in Place /\ "temp" \in Place /\ "backup" \in Place
    BY DEF Place
  <2>1. CASE Displace
    <3>1. k \in 1..K
      BY <2>1 DEF Displace
    <3>2. disk' = disk \/ disk' = Moved(k, "final", "backup")
      BY <2>1 DEF Displace
    <3> QED
      BY <3>1, <3>2, Renaming DEF DiskOK
  <2>2. CASE Publish
    <3>1. k \in 1..K
      BY <2>2 DEF Publish
    <3>2. disk' = disk \/ disk' = Moved(k, "temp", "final")
      BY <2>2 DEF Publish
    <3> QED
      BY <3>1, <3>2, Renaming DEF DiskOK
  <2>3. CASE Cleanup
    <3>1. k \in 1..K
      BY <2>3 DEF Cleanup
    <3> QED
      BY <2>3, <3>1, Renaming, Removing DEF Cleanup, DiskOK
  <2>4. CASE Unpublish
    <3>1. k \in 1..K
      BY <2>4 DEF Unpublish
    <3>2. \/ disk' = disk
          \/ disk' = Moved(k, "final", "temp")
          \/ disk' = Removed(k, "final")
      BY <2>4 DEF Unpublish
    <3>3. k \in Art /\ "final" \in Place /\ "temp" \in Place
      BY <3>1 DEF Art, Place
    <3>4. CASE disk' = disk
      BY <3>4 DEF DiskOK
    <3>5. CASE disk' = Moved(k, "final", "temp")
      BY <3>3, <3>5, Renaming DEF DiskOK
    <3>6. CASE disk' = Removed(k, "final")
      BY <3>3, <3>6, Removing DEF DiskOK
    <3> QED
      BY <3>2, <3>4, <3>5, <3>6
  <2>5. CASE Restore
    <3>1. k \in 1..K
      BY <2>5 DEF Restore
    <3> QED
      BY <2>5, <3>1, Renaming, Removing DEF Restore, DiskOK
  <2>6. CASE Tidy
    <3>1. k \in 1..K
      BY <2>6 DEF Tidy
    <3> QED
      BY <2>6, <3>1, Renaming, Removing DEF Tidy, DiskOK
  <2>7. CASE Intrude
    BY <2>7 DEF Intrude, DiskOK, Content
  <2>8. CASE UNCHANGED disk
    BY <2>8 DEF DiskOK
  <2> QED
    BY <2>1, <2>2, <2>3, <2>4, <2>5, <2>6, <2>7, <2>8 DEF Next, RunStep, vars, BeginCommit,
       RunFails, Finish, Validate, NothingToDisplace, DestinationAppeared, CommitPoint,
       NotLanded, NothingToRestore, NextPass, Interrupted, Exit, Closed
<1> QED
  BY <1>1, <1>2, <1>3, <1>4 DEF Typed

\* Every variable of the transaction keeps its type.
THEOREM TransactionTyped == Spec => []TypeOK
<1>1. Typed => TypeOK
  BY DEF Typed, DiskOK, EntriesOK, FlagsOK, PositionOK, TypeOK
<1> QED
  BY <1>1, InitTyped, NextTyped, PTL DEF Spec

-----------------------------------------------------------------------------
(* The user's files *)

Clean(a) == ~publishing[a] /\ ~published[a]

\* Where the passes stand with respect to entry a.
ToDisplace(a)  == phase \in {"write", "finish"} \/ (phase = "displace" /\ k <= a)
Displaced(a)   == phase = "publish" \/ (phase = "displace" /\ k > a)
ToUnpublish(a) == phase = "unpublish" /\ k >= a
Unpublished(a) == phase \in {"restore", "tidy"} \/ (phase = "unpublish" /\ k < a)

Phases ==
  /\ committed => phase \in {"cleanup", "exit", "closed"}
  /\ phase = "cleanup" => committed
  /\ discarding => phase \in Rollback \cup {"closed"}

\* Why the user's file survives: it is displaced before anything is published
\* over it, and once it is back no pass to come takes it for the run's own.
Safe(a) ==
  ~committed =>
    /\ disk[a]["final"] = "old" \/ disk[a]["backup"] = "old"
    /\ disk[a]["backup"] \in {"none", "old"} /\ disk[a]["temp"] # "old"
    /\ ToDisplace(a) => disk[a]["final"] = "old"
    /\ Displaced(a) => disk[a]["final"] # "old"
    /\ phase \in {"write", "finish", "displace"} => Clean(a)
    /\ published[a] /\ ~discarding /\ (phase = "publish" \/ ToUnpublish(a))
         => disk[a]["final"] # "none" /\ disk[a]["temp"] = "none"
    /\ ~discarding /\ Unpublished(a) => Clean(a)
    /\ disk[a]["final"] = "old" /\ phase # "closed" /\ (~discarding \/ ToUnpublish(a))
         => Clean(a)

SafeInv == Phases /\ \A a \in Existing : Safe(a)

LEMMA InitSafe == Init => SafeInv
<1>1. Init => \A a \in Existing : /\ disk[a]["final"] = "old" /\ disk[a]["temp"] = "new"
                                 /\ disk[a]["backup"] = "none"
  BY TransactionConstants DEF Init, Place
<1> QED
  BY <1>1, TransactionConstants
   DEF Init, SafeInv, Phases, Safe, Clean, ToDisplace, Displaced, ToUnpublish, Unpublished,
       Rollback, Art, Place

\* The order of the passes.
LEMMA PhasesStep ==
  ASSUME FlagsOK, Phases, [Next]_vars
  PROVE  Phases'
<1> USE DEF Phases, FlagsOK, Rollback, GoTo, Stay
<1>1. CASE BeginCommit \/ RunFails \/ Finish \/ Validate \/ Displace \/ NothingToDisplace
           \/ DestinationAppeared \/ Publish
  BY <1>1 DEF BeginCommit, RunFails, Finish, Validate, Displace, NothingToDisplace,
     DestinationAppeared, Publish, Raise
<1>2. CASE CommitPoint \/ Cleanup \/ NotLanded \/ Unpublish \/ NothingToRestore \/ Restore
           \/ Tidy
  BY <1>2 DEF CommitPoint, Cleanup, NotLanded, Unpublish, NothingToRestore, Restore, Tidy,
     Down, Escape
<1>3. CASE NextPass \/ Interrupted
  BY <1>3 DEF NextPass, Interrupted, Raise, Escape
<1>4. CASE Exit
  BY <1>4 DEF Exit
<1>5. CASE Intrude \/ Closed \/ UNCHANGED vars
  BY <1>5 DEF Intrude, Closed, vars, control
<1> QED
  BY <1>1, <1>2, <1>3, <1>4, <1>5 DEF Next, RunStep

\* No step loses the user's file at the final name of a, when the removal of
\* published artifacts cannot be disturbed.
LEMMA SafeStep ==
  ASSUME "unpublish" \notin FaultSites, Typed, Phases, NEW a \in Existing, Safe(a), [Next]_vars
  PROVE  Safe(a)'
<1> USE TransactionConstants
    DEF Safe, Clean, ToDisplace, Displaced, ToUnpublish, Unpublished, Phases, Rollback, GoTo, Stay
<1>1. /\ a \in Art /\ a \in 1..K /\ Overwrite
      /\ "final" \in Place /\ "temp" \in Place /\ "backup" \in Place
  BY DEF Art, Place
<1>2. /\ k \in 0..(K + 1) /\ Cursor
      /\ disk \in [Art -> [Place -> Content]]
      /\ publishing \in [Art -> BOOLEAN] /\ published \in [Art -> BOOLEAN]
  BY DEF Typed, DiskOK, EntriesOK, PositionOK
<1>3. CASE BeginCommit
  BY <1>1, <1>2, <1>3 DEF BeginCommit, entries
<1>4. CASE RunFails
  BY <1>1, <1>2, <1>4 DEF RunFails, entries, Fault
<1>5. CASE Finish
  BY <1>1, <1>2, <1>5 DEF Finish, entries, Raise
<1>6. CASE Validate
  BY <1>1, <1>2, <1>6 DEF Validate, entries, Raise
<1>7. CASE Displace
  <2>1. k \in Art
    BY <1>2, <1>7 DEF Displace, Cursor, Art
  <2>2. disk' = disk \/ disk' = Moved(k, "final", "backup")
    BY <1>7 DEF Displace
  <2>3. \A q \in Place : k # a => disk'[a][q] = disk[a][q]
    BY <1>1, <1>2, <2>1, <2>2, Renaming
  <2>4. CASE k # a
    BY <1>1, <1>2, <2>3, <2>4, <1>7 DEF Displace, Raise
  <2>5. CASE k = a
    <3>1. disk[a]["final"] = "old"
      BY <1>1, <1>2, <2>5, <1>7 DEF Displace
    <3>2. \/ disk' = disk
          \/ /\ disk'[a]["final"] = "none" /\ disk'[a]["backup"] = "old"
             /\ disk'[a]["temp"] = disk[a]["temp"]
      BY <1>1, <1>2, <2>1, <2>2, <2>5, <3>1, Renaming
    <3>3. \/ GoTo("displace", k + 1) /\ Stay /\ disk' = Moved(k, "final", "backup")
          \/ Raise
      BY <1>7 DEF Displace
    <3>4. UNCHANGED <<publishing, published>> /\ phase = "displace"
      BY <1>7 DEF Displace
    <3>5. CASE Raise
      BY <1>1, <1>2, <2>5, <3>1, <3>2, <3>4, <3>5 DEF Raise
    <3>6. CASE GoTo("displace", k + 1) /\ Stay /\ disk' = Moved(k, "final", "backup")
      <4>1. /\ disk'[a]["final"] = "none" /\ disk'[a]["backup"] = "old"
            /\ disk'[a]["temp"] = disk[a]["temp"]
        BY <1>1, <1>2, <2>1, <2>5, <3>1, <3>6, Renaming
      <4> QED
        BY <1>1, <1>2, <2>5, <3>4, <3>6, <4>1
    <3> QED
      BY <3>3, <3>5, <3>6
  <2> QED
    BY <2>4, <2>5
<1>8. CASE NothingToDisplace
  BY <1>1, <1>2, <1>8 DEF NothingToDisplace, entries
<1>9. CASE DestinationAppeared
  BY <1>1, <1>2, <1>9 DEF DestinationAppeared, entries, Raise
<1>10. CASE Publish
  <2>1. k \in Art
    BY <1>2, <1>10 DEF Publish, Cursor, Art
  <2>2. disk' = disk \/ (CanRename(k, "temp", "final") /\ disk' = Moved(k, "temp", "final"))
    BY <1>10 DEF Publish
  <2>3. \A q \in Place : k # a => disk'[a][q] = disk[a][q]
    BY <1>1, <1>2, <2>1, <2>2, Renaming
  <2>4. CASE k # a
    BY <1>1, <1>2, <2>3, <2>4, <1>10 DEF Publish, Raise
  <2>5. CASE k = a
    <3>1. disk[a]["final"] # "old" /\ ~committed /\ disk[a]["backup"] = "old"
      BY <1>1, <1>2, <1>10 DEF Publish
    <3>2. CASE disk' = disk /\ UNCHANGED published /\ Raise
      BY <1>1, <1>2, <2>5, <3>1, <3>2, <1>10 DEF Publish, Raise
    <3>3. CASE CanRename(k, "temp", "final") /\ disk' = Moved(k, "temp", "final")
      <4>1. /\ disk'[a]["final"] # "none" /\ disk'[a]["temp"] = "none"
            /\ disk'[a]["backup"] = "old" /\ disk[a]["final"] = "none"
        BY <1>1, <1>2, <2>1, <2>5, <3>1, <3>3, Renaming DEF CanRename
      <4>2. disk'[a]["final"] # "old"
        BY <1>1, <1>2, <2>1, <2>5, <3>1, <3>3, Renaming DEF CanRename
      <4> QED
        BY <1>1, <1>2, <2>5, <3>1, <4>1, <4>2, <1>10 DEF Publish, Raise
    <3> QED
      BY <3>2, <3>3, <1>10 DEF Publish
  <2> QED
    BY <2>4, <2>5
<1>11. CASE CommitPoint
  BY <1>11 DEF CommitPoint
<1>12. CASE Cleanup
  BY <1>12 DEF Cleanup
<1>13. CASE NotLanded
  BY <1>1, <1>2, <1>13 DEF NotLanded, ForgetPublication, Down
<1>14. CASE Unpublish
  <2>1. k \in Art
    BY <1>2, <1>14 DEF Unpublish, Cursor, Art
  <2>2. ~Fault("unpublish")
    BY DEF Fault
  <2>3. CASE k # a
    <3>1. \A q \in Place : disk'[a][q] = disk[a][q]
      BY <1>1, <1>2, <2>1, <2>3, <1>14, Renaming, Removing DEF Unpublish
    <3>2. publishing'[a] = publishing[a] /\ published'[a] = published[a]
      BY <1>1, <1>2, <2>3, <1>14 DEF Unpublish, ForgetPublication
    <3> QED
      BY <1>1, <1>2, <2>3, <3>1, <3>2, <1>14 DEF Unpublish, Down, Escape
  <2>4. CASE k = a
    <3>1. ~committed => disk[a]["final"] # "old"
      BY <1>1, <1>2, <2>4, <1>14 DEF Unpublish
    <3>2. /\ disk'[a]["final"] \in {disk[a]["final"], "none"}
          /\ disk'[a]["backup"] = disk[a]["backup"]
          /\ disk'[a]["temp"] \in {disk[a]["temp"], disk[a]["final"]}
      <4>1. \/ disk' = disk
            \/ disk' = Moved(k, "final", "temp")
            \/ disk' = Removed(k, "final")
        BY <1>14 DEF Unpublish
      <4>2. CASE disk' = disk
        BY <4>2
      <4>3. CASE disk' = Moved(k, "final", "temp")
        BY <1>1, <1>2, <2>4, <4>3 DEF Moved
      <4>4. CASE disk' = Removed(k, "final")
        BY <1>1, <1>2, <2>4, <4>4 DEF Removed
      <4> QED
        BY <4>1, <4>2, <4>3, <4>4
    <3>3. ~committed /\ ~discarding => (k \in Sinks => CanRename(k, "final", "temp"))
      BY <1>1, <1>2, <2>4, <1>14 DEF Unpublish, Landed, CanRename
    <3>4. \/ Clean(a)' /\ Down("unpublish")
          \/ Escape
          \/ Down("unpublish") /\ (discarding \/ committed)
      BY <1>1, <1>2, <2>2, <2>4, <3>3, <1>14 DEF Unpublish, ForgetPublication
    <3> QED
      BY <1>1, <1>2, <2>4, <3>1, <3>2, <3>4, <1>14 DEF Unpublish, Down, Escape
  <2> QED
    BY <2>3, <2>4
<1>15. CASE NothingToRestore
  BY <1>1, <1>2, <1>15 DEF NothingToRestore, Down
<1>16. CASE Restore
  <2>1. k \in Art
    BY <1>2, <1>16 DEF Restore, Cursor, Art
  <2>2. disk' = disk \/ disk' = Moved(k, "backup", "final")
    BY <1>16 DEF Restore
  <2>3. k # a => \A q \in Place : disk'[a][q] = disk[a][q]
    BY <1>1, <1>2, <2>1, <2>2, Renaming
  <2>4. k = a => \/ disk' = disk
                 \/ /\ disk'[a]["final"] = disk[a]["backup"]
                    /\ disk'[a]["backup"] = "none"
                    /\ disk'[a]["temp"] = disk[a]["temp"]
    BY <1>1, <1>2, <2>1, <2>2, Renaming
  <2> QED
    BY <1>1, <1>2, <2>3, <2>4, <1>16 DEF Restore, Down, Escape
<1>17. CASE Tidy
  <2>1. k \in Art
    BY <1>2, <1>17 DEF Tidy, Cursor, Art
  <2>2. disk' = disk \/ disk' = Removed(k, "temp")
    BY <1>17 DEF Tidy
  <2>3. /\ disk'[a]["final"] = disk[a]["final"] /\ disk'[a]["backup"] = disk[a]["backup"]
        /\ disk'[a]["temp"] \in {disk[a]["temp"], "none"}
    BY <1>1, <1>2, <2>1, <2>2, Removing
  <2> QED
    BY <1>1, <1>2, <2>3, <1>17 DEF Tidy, Down, entries
<1>18. CASE NextPass
  BY <1>1, <1>2, <1>18 DEF NextPass, entries
<1>19. CASE Interrupted
  BY <1>1, <1>2, <1>19 DEF Interrupted, entries, Raise, Escape
<1>20. CASE Exit
  BY <1>1, <1>2, <1>20 DEF Exit, entries
<1>21. CASE Intrude
  <2>1. /\ disk'[a]["temp"] = disk[a]["temp"] /\ disk'[a]["backup"] = disk[a]["backup"]
        /\ \/ disk'[a]["final"] = disk[a]["final"]
           \/ disk[a]["final"] = "none" /\ disk'[a]["final"] = "foreign"
    BY <1>1, <1>2, <1>21 DEF Intrude
  <2> QED
    BY <1>1, <2>1, <1>21 DEF Intrude, entries, control
<1>22. CASE Closed \/ UNCHANGED vars
  BY <1>22 DEF Closed, vars, entries, control
<1> QED
  BY <1>3, <1>4, <1>5, <1>6, <1>7, <1>8, <1>9, <1>10, <1>11, <1>12, <1>13, <1>14, <1>15,
     <1>16, <1>17, <1>18, <1>19, <1>20, <1>21, <1>22 DEF Next, RunStep

\* The user's file survives at its own name or at its backup, through every
\* failed call, interrupt and killed process, for every number of artifacts and
\* of disturbed steps: unless it is the removal of a published artifact that is
\* disturbed (pipeline/run.py, _remove_published).
THEOREM OriginalSurvives ==
  ASSUME "unpublish" \notin FaultSites
  PROVE  Spec => []OriginalKept
<1>1. SafeInv => OriginalKept
  BY DEF SafeInv, Safe, OriginalKept
<1>2. Typed /\ SafeInv /\ [Next]_vars => SafeInv'
  BY PhasesStep, SafeStep DEF SafeInv, Typed
<1> QED
  BY <1>1, <1>2, InitTyped, NextTyped, InitSafe, PTL DEF Spec


-----------------------------------------------------------------------------
(* The whole set or nothing of it *)

Before(a) == IF a \in Existing THEN "old" ELSE "none"
Good(a)   == disk[a]["final"] \in {"foreign", Before(a)}

\* A rollback has nothing to do for a any more, whatever disturbs it.
AtRest(a) == Good(a) /\ Clean(a) /\ (disk[a]["backup"] # "none" => disk[a]["final"] # "none")

Restored(a) == phase = "tidy" \/ (phase = "restore" /\ k < a)

\* What the run wrote is at the temporary name until it is published, and a name
\* that holds it is known to be published.
Whereabouts(a) ==
  /\ disk[a]["temp"] \in {"new", "none"} /\ disk[a]["backup"] # "new"
  /\ disk[a]["final"] = "new" => disk[a]["temp"] = "none" /\ publishing[a]
  /\ a \notin Existing => disk[a]["final"] # "old" /\ disk[a]["backup"] # "old"
  /\ disk[a]["backup"] # "none" => slot[a]
  /\ committed => disk[a]["final"] = "new"
  /\ a \in Framed => disk[a]["final"] = "new" \/ disk[a]["temp"] = "new"

\* What the passes found and left.
PassesDone(a) ==
  ~committed =>
    /\ phase \in {"write", "finish", "displace"} => disk[a]["temp"] = "new" /\ Clean(a)
    /\ phase = "publish" /\ k <= a => disk[a]["temp"] = "new" /\ Clean(a)
    /\ phase = "publish" /\ k > a => published[a] /\ disk[a]["final"] = "new"
    /\ ~discarding /\ ToUnpublish(a) /\ (published[a] \/ disk[a]["temp"] = "none")
         => disk[a]["final"] = "new"
    /\ Unpublished(a) => disk[a]["final"] # "new" /\ (~discarding => Clean(a))
    /\ (phase = "exit" \/ (discarding /\ ToUnpublish(a))) /\ publishing[a] /\ a \in Sinks
         /\ disk[a]["temp"] = "none" => disk[a]["final"] = "new"

\* A rollback that nothing disturbs leaves every name as it was.
RolledBack(a) ==
  ~committed =>
    /\ faults = 0 /\ (Restored(a) \/ phase = "exit" \/ discarding) => AtRest(a)
    /\ faults <= 1 /\ ((discarding /\ Restored(a)) \/ phase = "closed") => Good(a)

SetInv == \A a \in Art : Whereabouts(a) /\ PassesDone(a) /\ RolledBack(a)

LEMMA InitSet == Init => SetInv
<1> SUFFICES ASSUME Init, NEW a \in Art PROVE Whereabouts(a) /\ PassesDone(a) /\ RolledBack(a)
  BY DEF SetInv
<1>1. /\ disk[a]["final"] = Before(a) /\ disk[a]["temp"] = "new" /\ disk[a]["backup"] = "none"
      /\ Clean(a) /\ phase = "write" /\ ~committed /\ ~discarding
  BY DEF Init, Place, Before, Clean
<1> QED
  BY <1>1 DEF Whereabouts, PassesDone, RolledBack, Restored, Before, ToUnpublish, Unpublished

\* No step, disturbed or not, spoils an artifact, when the removal of published
\* artifacts cannot be disturbed.
LEMMA SetStep ==
  ASSUME "unpublish" \notin FaultSites, Typed, Phases, NEW a \in Art, a \in Existing => Safe(a),
         Whereabouts(a), PassesDone(a), RolledBack(a), [Next]_vars
  PROVE  Whereabouts(a)' /\ PassesDone(a)' /\ RolledBack(a)'
<1> USE TransactionConstants
    DEF Whereabouts, PassesDone, RolledBack, Restored, Good, Before, AtRest, Clean, ToUnpublish,
        Unpublished, Phases, Rollback, GoTo, Stay
<1>1. /\ a \in 1..K /\ "final" \in Place /\ "temp" \in Place /\ "backup" \in Place
  BY DEF Art, Place
<1>2. /\ k \in 0..(K + 1) /\ Cursor /\ faults \in Nat
      /\ disk \in [Art -> [Place -> Content]]
      /\ publishing \in [Art -> BOOLEAN] /\ published \in [Art -> BOOLEAN]
      /\ slot \in [Art -> BOOLEAN]
  BY DEF Typed, DiskOK, EntriesOK, PositionOK
<1>3. CASE BeginCommit
  BY <1>1, <1>2, <1>3 DEF BeginCommit, entries
<1>4. CASE RunFails
  BY <1>1, <1>2, <1>4 DEF RunFails, entries, Fault
<1>5. CASE Finish
  BY <1>1, <1>2, <1>5 DEF Finish, entries, Raise, Fault, Undisturbed
<1>6. CASE Validate
  BY <1>1, <1>2, <1>6 DEF Validate, entries, Raise
<1>7. CASE Displace
  <2>1. k \in Art
    BY <1>2, <1>7 DEF Displace, Cursor, Art
  <2>2. /\ disk' = disk \/ disk' = Moved(k, "final", "backup")
        /\ slot' = [slot EXCEPT ![k] = TRUE] /\ UNCHANGED <<publishing, published>>
        /\ phase = "displace" /\ disk[k]["final"] # "none" /\ ~committed
    BY <1>7 DEF Displace
  <2>3. \/ GoTo("displace", k + 1) /\ Stay /\ Undisturbed
        \/ Fault("displace") /\ Raise
    BY <1>7 DEF Displace
  <2>4. /\ disk'[a]["temp"] = disk[a]["temp"]
        /\ \/ disk'[a]["final"] = disk[a]["final"] /\ disk'[a]["backup"] = disk[a]["backup"]
           \/ /\ k = a /\ disk'[a]["final"] = "none"
              /\ disk'[a]["backup"] = disk[a]["final"]
    BY <1>1, <1>2, <2>1, <2>2, Renaming
  <2>5. disk'[a]["backup"] # "none" => slot'[a]
    BY <1>2, <2>1, <2>2, <2>4
  <2> QED
    BY <1>1, <1>2, <2>2, <2>3, <2>4, <2>5 DEF Raise, Fault, Undisturbed
<1>8. CASE NothingToDisplace
  BY <1>1, <1>2, <1>8 DEF NothingToDisplace, entries
<1>9. CASE DestinationAppeared
  BY <1>1, <1>2, <1>9 DEF DestinationAppeared, entries, Raise
<1>10. CASE Publish
  <2>1. k \in Art
    BY <1>2, <1>10 DEF Publish, Cursor, Art
  <2>2. disk' = disk \/ (CanRename(k, "temp", "final") /\ disk' = Moved(k, "temp", "final"))
    BY <1>10 DEF Publish
  <2>3. phase = "publish" /\ ~committed /\ slot' = slot /\ publishing' = [publishing EXCEPT ![k] = TRUE]
    BY <1>10 DEF Publish
  <2>4. CASE k # a
    <3>1. \A q \in Place : disk'[a][q] = disk[a][q]
      BY <1>1, <1>2, <2>1, <2>2, <2>4, Renaming
    <3>2. publishing'[a] = publishing[a] /\ published'[a] = published[a]
      BY <1>2, <2>1, <2>4, <1>10 DEF Publish
    <3>3. \/ GoTo("publish", k + 1) /\ Stay /\ Undisturbed
          \/ Raise /\ (Fault("publish") \/ Undisturbed)
      BY <1>10 DEF Publish
    <3> QED
      BY <1>1, <1>2, <2>3, <2>4, <3>1, <3>2, <3>3 DEF Raise, Fault, Undisturbed
  <2>5. CASE k = a
    <3>1. disk[a]["temp"] = "new" /\ Clean(a) /\ publishing'[a]
      BY <1>1, <1>2, <2>1, <2>3, <2>5
    <3>2. disk'[a]["backup"] = disk[a]["backup"]
      BY <1>1, <1>2, <2>1, <2>2, Renaming
    <3>3. CASE GoTo("publish", k + 1)
      <4>1. /\ disk'[a]["final"] = "new" /\ disk'[a]["temp"] = "none"
            /\ published'[a] /\ Stay
        BY <1>1, <1>2, <2>1, <2>5, <3>1, <3>3, <1>10, Renaming DEF Publish, Raise
      <4> QED
        BY <1>1, <1>2, <2>3, <2>5, <3>1, <3>2, <3>3, <4>1, <1>10 DEF Publish
    <3>4. CASE Raise
      <4>1. published'[a] = published[a] /\ (Fault("publish") \/ Undisturbed)
        BY <1>1, <1>2, <2>1, <2>3, <2>5, <3>4, <1>10 DEF Publish, Raise
      <4>2. \/ disk'[a]["final"] = disk[a]["final"] /\ disk'[a]["temp"] = disk[a]["temp"]
            \/ disk'[a]["final"] = "new" /\ disk'[a]["temp"] = "none"
        BY <1>1, <1>2, <2>1, <2>2, <2>5, <3>1, Renaming
      <4> QED
        BY <1>1, <1>2, <2>3, <2>5, <3>1, <3>2, <3>4, <4>1, <4>2 DEF Raise, Fault, Undisturbed
    <3> QED
      BY <3>3, <3>4, <1>10 DEF Publish
  <2> QED
    BY <2>4, <2>5
<1>11. CASE CommitPoint
  BY <1>1, <1>2, <1>11 DEF CommitPoint, entries
<1>12. CASE Cleanup
  <2>1. k \in Art
    BY <1>2, <1>12 DEF Cleanup, Cursor, Art
  <2>2. disk' = disk \/ disk' = Removed(k, "backup")
    BY <1>12 DEF Cleanup
  <2>3. /\ disk'[a]["final"] = disk[a]["final"] /\ disk'[a]["temp"] = disk[a]["temp"]
        /\ disk'[a]["backup"] \in {disk[a]["backup"], "none"}
    BY <1>1, <1>2, <2>1, <2>2, Removing
  <2>4. disk'[a]["backup"] # "none" => slot'[a]
    <3>1. CASE slot' = slot
      BY <2>3, <3>1
    <3>2. CASE slot' = [slot EXCEPT ![k] = FALSE]
      BY <1>1, <1>2, <2>1, <2>3, <3>2, <1>12, Removing DEF Cleanup
    <3> QED
      BY <3>1, <3>2, <1>12 DEF Cleanup
  <2> QED
    BY <1>1, <1>2, <2>3, <2>4, <1>12 DEF Cleanup
<1>13. CASE NotLanded
  <2>1. k \in Art
    BY <1>2, <1>13 DEF NotLanded, Cursor, Art
  <2>2. k = a => disk[a]["final"] # "new"
    BY <1>1, <1>2, <1>13 DEF NotLanded, Landed
  <2>3. /\ publishing'[a] = (IF k = a THEN FALSE ELSE publishing[a])
        /\ published'[a] = (IF k = a THEN FALSE ELSE published[a])
    BY <1>2, <2>1, <1>13 DEF NotLanded, ForgetPublication
  <2> QED
    BY <1>1, <1>2, <2>2, <2>3, <1>13 DEF NotLanded, Down
<1>14. CASE Unpublish
  <2>1. k \in Art
    BY <1>2, <1>14 DEF Unpublish, Cursor, Art
  <2>2. slot' = slot /\ phase = "unpublish" /\ ~committed
    BY <1>14 DEF Unpublish
  <2>3. CASE k # a
    <3>1. \A q \in Place : disk'[a][q] = disk[a][q]
      BY <1>1, <1>2, <2>1, <2>3, <1>14, Renaming, Removing DEF Unpublish
    <3>2. publishing'[a] = publishing[a] /\ published'[a] = published[a]
      BY <1>1, <1>2, <2>3, <1>14 DEF Unpublish, ForgetPublication
    <3>3. ~Fault("unpublish")
      BY DEF Fault
    <3>4. \/ Down("unpublish") /\ Undisturbed
          \/ Fault("between") /\ Escape
      BY <3>3, <1>14 DEF Unpublish
    <3> QED
      BY <1>1, <1>2, <2>2, <2>3, <3>1, <3>2, <3>4 DEF Down, Escape, Fault, Undisturbed
  <2>4. CASE k = a
    <3>1. publishing[a] /\ Landed(a)
      BY <2>4, <1>14 DEF Unpublish
    <3>2. /\ a \in Sinks /\ disk[a]["temp"] = "none" => disk[a]["final"] = "new"
          /\ ~discarding => disk[a]["final"] = "new"
          /\ faults = 0 => ~discarding
      BY <1>1, <1>2, <2>2, <2>4, <3>1 DEF Landed
    <3>3. CASE disk' = disk /\ Down("unpublish") /\ Undisturbed /\ UNCHANGED <<publishing, published>>
                 /\ a \in Sinks /\ ~CanRename(a, "final", "temp")
      <4>1. disk[a]["final"] # "new"
        BY <3>3 DEF CanRename
      <4> QED
        BY <1>1, <1>2, <2>2, <2>4, <3>1, <3>2, <3>3, <4>1 DEF Down, Undisturbed
    <3>4. CASE /\ disk' = IF a \in Sinks THEN Moved(a, "final", "temp") ELSE Removed(a, "final")
               /\ a \in Sinks => CanRename(a, "final", "temp")
      <4>1. /\ disk'[a]["final"] = "none" /\ disk'[a]["backup"] = disk[a]["backup"]
            /\ disk'[a]["temp"] = IF a \in Sinks THEN "new" ELSE disk[a]["temp"]
        BY <1>1, <1>2, <3>2, <3>4, Renaming, Removing DEF CanRename
      <4>2. \/ Down("unpublish") /\ Undisturbed /\ ForgetPublication(a)
            \/ Fault("between") /\ Escape /\ UNCHANGED <<publishing, published>>
        BY <1>1, <1>2, <2>4, <3>2, <3>4, <4>1, <1>14 DEF Unpublish, Fault, CanRename
      <4>3. CASE Down("unpublish") /\ Undisturbed /\ ForgetPublication(a)
        <5>1. Clean(a)'
          BY <1>2, <4>3 DEF ForgetPublication
        <5> QED
          BY <1>1, <1>2, <2>2, <2>4, <3>1, <3>2, <4>1, <4>3, <5>1 DEF Down, Undisturbed
      <4>4. CASE Fault("between") /\ Escape /\ UNCHANGED <<publishing, published>>
        BY <1>1, <1>2, <2>2, <2>4, <3>1, <3>2, <4>1, <4>4 DEF Fault, Escape
      <4> QED
        BY <4>2, <4>3, <4>4
    <3> QED
      BY <2>4, <3>3, <3>4, <1>14 DEF Unpublish, Fault
  <2> QED
    BY <2>3, <2>4
<1>15. CASE NothingToRestore
  <2>1. k \in Art
    BY <1>2, <1>15 DEF NothingToRestore, Cursor, Art
  <2>2. slot'[a] = (IF k = a THEN FALSE ELSE slot[a])
    BY <1>2, <2>1, <1>15 DEF NothingToRestore
  <2>3. k = a => disk[a]["backup"] = "none"
    BY <1>15 DEF NothingToRestore
  <2>4. k = a /\ ~committed => disk[a]["final"] \in {"foreign", Before(a)}
    BY <1>1, <1>2, <2>1, <2>3, <1>15 DEF NothingToRestore, Safe, Content
  <2> QED
    BY <1>1, <1>2, <2>2, <2>3, <2>4, <1>15 DEF NothingToRestore, Down
<1>16. CASE Restore
  <2>1. k \in Art
    BY <1>2, <1>16 DEF Restore, Cursor, Art
  <2>2. /\ UNCHANGED <<publishing, published>> /\ phase = "restore" /\ ~committed
        /\ slot[k] /\ disk[k]["backup"] # "none"
    BY <1>16 DEF Restore
  <2>3. CASE k # a
    <3>1. \A q \in Place : disk'[a][q] = disk[a][q]
      <4>1. disk' = disk \/ disk' = Moved(k, "backup", "final")
        BY <1>16 DEF Restore
      <4>2. \A q \in Place : Moved(k, "backup", "final")[a][q] = disk[a][q]
        BY <1>1, <1>2, <2>1, <2>3, Renaming DEF Place
      <4> QED
        BY <4>1, <4>2
    <3>2. slot'[a] = slot[a]
      BY <1>2, <2>1, <2>3, <1>16 DEF Restore
    <3>3. \/ Down("restore") /\ (Undisturbed \/ Fault("restore"))
          \/ Fault("between") /\ Escape
      BY <1>16 DEF Restore
    <3> QED
      BY <1>1, <1>2, <2>2, <2>3, <3>1, <3>2, <3>3 DEF Down, Escape, Fault, Undisturbed
  <2>4. CASE k = a
    <3>1. disk[a]["final"] # "new" /\ (~discarding => Clean(a)) /\ (faults = 0 /\ discarding => AtRest(a))
      BY <1>1, <1>2, <2>2, <2>4
    <3>2. disk[a]["backup"] \in {"foreign", Before(a)}
      BY <1>1, <1>2, <2>2, <2>4 DEF Safe, Content
    <3>3. CASE disk' = Moved(a, "backup", "final")
      <4>1. /\ disk'[a]["final"] = disk[a]["backup"] /\ disk'[a]["backup"] = "none"
            /\ disk'[a]["temp"] = disk[a]["temp"]
        BY <1>1, <1>2, <3>3, Renaming
      <4>2. \/ Down("restore") /\ (Undisturbed \/ Fault("restore"))
            \/ Fault("between") /\ Escape
        BY <1>16 DEF Restore
      <4>3. a \in Framed => disk[a]["temp"] = "new"
        BY <3>1
      <4> QED
        BY <1>1, <1>2, <2>2, <2>4, <3>1, <3>2, <4>1, <4>2, <4>3 DEF Down, Escape, Fault, Undisturbed
    <3>4. CASE disk' = disk
      <4>1. /\ Down("restore") /\ slot' = slot
            /\ \/ Fault("restore")
               \/ Undisturbed /\ disk[a]["final"] # "none"
        BY <1>1, <1>2, <2>2, <2>4, <3>4, <1>16, Renaming DEF Restore
      <4>2. disk[a]["final"] # "none" => Good(a)
        BY <1>1, <1>2, <3>1 DEF Content
      <4> QED
        BY <1>1, <1>2, <2>2, <2>4, <3>1, <3>4, <4>1, <4>2 DEF Down, Fault, Undisturbed
    <3> QED
      BY <2>4, <3>3, <3>4, <1>16 DEF Restore
  <2> QED
    BY <2>3, <2>4
<1>17. CASE Tidy
  <2>1. k \in Art
    BY <1>2, <1>17 DEF Tidy, Cursor, Art
  <2>2. disk' = disk \/ (disk' = Removed(k, "temp") /\ k \notin Framed)
    BY <1>17 DEF Tidy
  <2>3. /\ disk'[a]["final"] = disk[a]["final"] /\ disk'[a]["backup"] = disk[a]["backup"]
        /\ disk'[a]["temp"] \in {disk[a]["temp"], "none"}
        /\ a \in Framed => disk'[a]["temp"] = disk[a]["temp"]
    BY <1>1, <1>2, <2>1, <2>2, Removing
  <2> QED
    BY <1>1, <1>2, <2>3, <1>17 DEF Tidy, Down, entries, Fault, Undisturbed
<1>18. CASE NextPass
  BY <1>1, <1>2, <1>18 DEF NextPass, entries
<1>19. CASE Interrupted
  BY <1>1, <1>2, <1>19 DEF Interrupted, entries, Raise, Escape, Fault
<1>20. CASE Exit
  BY <1>1, <1>2, <1>20 DEF Exit, entries
<1>21. CASE Intrude
  <2>1. /\ disk'[a]["temp"] = disk[a]["temp"] /\ disk'[a]["backup"] = disk[a]["backup"]
        /\ \/ disk'[a]["final"] = disk[a]["final"]
           \/ disk[a]["final"] = "none" /\ disk'[a]["final"] = "foreign"
    BY <1>1, <1>2, <1>21 DEF Intrude
  <2> QED
    BY <1>1, <2>1, <1>21 DEF Intrude, entries, control
<1>22. CASE Closed \/ UNCHANGED vars
  BY <1>22 DEF Closed, vars, entries, control
<1> QED
  BY <1>3, <1>4, <1>5, <1>6, <1>7, <1>8, <1>9, <1>10, <1>11, <1>12, <1>13, <1>14, <1>15,
     <1>16, <1>17, <1>18, <1>19, <1>20, <1>21, <1>22 DEF Next, RunStep

LEMMA SetInvariant ==
  ASSUME "unpublish" \notin FaultSites
  PROVE  Spec => [](Typed /\ SafeInv /\ SetInv)
<1>1. Typed /\ SafeInv /\ SetInv /\ [Next]_vars => SetInv'
  <2> SUFFICES ASSUME Typed, SafeInv, SetInv, [Next]_vars, NEW a \in Art
               PROVE  Whereabouts(a)' /\ PassesDone(a)' /\ RolledBack(a)'
    BY DEF SetInv
  <2>1. Phases /\ (a \in Existing => Safe(a))
    BY DEF SafeInv
  <2>2. Whereabouts(a) /\ PassesDone(a) /\ RolledBack(a)
    BY DEF SetInv
  <2> QED
    BY <2>1, <2>2, SetStep
<1>2. Typed /\ SafeInv /\ [Next]_vars => SafeInv'
  BY PhasesStep, SafeStep DEF SafeInv, Typed
<1> QED
  BY <1>1, <1>2, InitTyped, NextTyped, InitSafe, InitSet, PTL DEF Spec

\* The set is published together or not at all: after a run that was disturbed
\* once or not at all, and not at the removal of what it published, every final
\* name holds the run's artifact, or every one is as it was, for every number of
\* artifacts (pipeline/run.py, _OutputTransaction).  Nothing is said of a run that
\* is disturbed a second time, when a rename of the rollback may fail for good.
THEOREM SetIsWhole ==
  ASSUME "unpublish" \notin FaultSites
  PROVE  Spec => []AllOrNone
<1>1. SetInv => AllOrNone
  BY DEF SetInv, Whereabouts, RolledBack, Good, Before, AllOrNone
<1> QED
  BY <1>1, SetInvariant, PTL

\* "A video is never deleted": as long as what fails is not its own way back to
\* the partial name, its frames are at the final or at the partial name, however
\* often the run is disturbed.
THEOREM VideoSurvives ==
  ASSUME "unpublish" \notin FaultSites
  PROVE  Spec => []VideoKept
<1>1. SetInv => VideoKept
  BY TransactionConstants DEF SetInv, Whereabouts, VideoKept
<1> QED
  BY <1>1, SetInvariant, PTL

-----------------------------------------------------------------------------
(* The files of other programs *)

\* Without overwrite nothing is displaced, and what the flags take for the run's
\* own is the run's own; once the flags are clean they stay so.
OwnOnly(a) ==
  /\ ~slot[a]
  /\ published[a] => disk[a]["final"] = "new"
  /\ publishing[a] /\ disk[a]["temp"] = "none" => disk[a]["final"] = "new"
  /\ ~committed /\ (Unpublished(a) \/ phase \in {"exit", "closed"} \/ discarding) => Clean(a)

\* No step touches what is at the final name of a and is not the run's, when
\* neither the removal of published artifacts is disturbed nor a step cut in two.
LEMMA OwnOnlyStep ==
  ASSUME {"unpublish", "between"} \cap FaultSites = {}, ~Overwrite, Typed, Phases, NEW a \in Art,
         Whereabouts(a), PassesDone(a), \A b \in Art : OwnOnly(b) /\ Whereabouts(b), [Next]_vars
  PROVE  /\ OwnOnly(a)'
         /\ disk[a]["final"] = "foreign" => disk'[a]["final"] = "foreign"
<1> USE TransactionConstants
    DEF Whereabouts, PassesDone, OwnOnly, Clean, ToUnpublish, Unpublished, Phases, Rollback, GoTo,
        Stay
<1>1. /\ a \in 1..K /\ "final" \in Place /\ "temp" \in Place /\ "backup" \in Place
      /\ "unpublish" \notin FaultSites /\ "between" \notin FaultSites
  BY DEF Art, Place
<1>2. /\ k \in 0..(K + 1) /\ Cursor
      /\ disk \in [Art -> [Place -> Content]]
      /\ publishing \in [Art -> BOOLEAN] /\ published \in [Art -> BOOLEAN]
      /\ slot \in [Art -> BOOLEAN]
  BY DEF Typed, DiskOK, EntriesOK, PositionOK
<1>3. CASE BeginCommit \/ RunFails \/ Finish \/ Validate
  BY <1>1, <1>2, <1>3 DEF BeginCommit, RunFails, Finish, Validate, entries, Raise
<1>4. CASE NothingToDisplace \/ DestinationAppeared \/ CommitPoint \/ NextPass \/ Exit
  BY <1>1, <1>2, <1>4 DEF NothingToDisplace, DestinationAppeared, CommitPoint, NextPass, Exit,
     entries, Raise
<1>5. CASE Displace
  BY <1>5 DEF Displace
<1>6. CASE Publish
  <2>1. k \in Art
    BY <1>2, <1>6 DEF Publish, Cursor, Art
  <2>2. disk' = disk \/ (CanRename(k, "temp", "final") /\ disk' = Moved(k, "temp", "final"))
    BY <1>6 DEF Publish
  <2>3. /\ phase = "publish" /\ ~committed /\ ~discarding /\ slot' = slot
        /\ publishing' = [publishing EXCEPT ![k] = TRUE]
    BY <1>6 DEF Publish
  <2>4. (GoTo("publish", k + 1) /\ Stay) \/ Raise
    BY <1>6 DEF Publish
  <2>5. CASE k # a
    <3>1. \A q \in Place : disk'[a][q] = disk[a][q]
      BY <1>1, <1>2, <2>1, <2>2, <2>5, Renaming
    <3>2. publishing'[a] = publishing[a] /\ published'[a] = published[a]
      BY <1>2, <2>1, <2>5, <1>6 DEF Publish
    <3> QED
      BY <1>1, <1>2, <2>3, <2>4, <2>5, <3>1, <3>2 DEF Raise
  <2>6. CASE k = a
    <3>1. disk[a]["temp"] = "new" /\ Clean(a)
      BY <1>1, <1>2, <2>3, <2>6
    <3>2. CASE CanRename(k, "temp", "final") /\ disk' = Moved(k, "temp", "final")
      <4>1. disk'[a]["final"] = "new" /\ disk[a]["final"] = "none"
        BY <1>1, <1>2, <2>1, <2>6, <3>1, <3>2, Renaming DEF CanRename
      <4> QED
        BY <1>1, <1>2, <2>3, <2>4, <2>6, <3>1, <4>1 DEF Raise
    <3>3. CASE disk' = disk /\ published' = published
      BY <1>1, <1>2, <2>3, <2>4, <2>6, <3>1, <3>3 DEF Raise
    <3> QED
      BY <1>6, <3>2, <3>3 DEF Publish
  <2> QED
    BY <2>5, <2>6
<1>7. CASE Cleanup
  <2>1. phase = "cleanup" /\ k <= K
    BY <1>7 DEF Cleanup
  <2>2. k \in Art /\ ~slot[k]
    BY <1>2, <2>1 DEF Cursor, Art
  <2> QED
    BY <1>1, <1>2, <2>1, <2>2, <1>7 DEF Cleanup
<1>8. CASE NotLanded
  BY <1>1, <1>2, <1>8 DEF NotLanded, Down, ForgetPublication, Art
<1>9. CASE Unpublish
  <2>1. k \in Art
    BY <1>2, <1>9 DEF Unpublish, Cursor, Art
  <2>2. publishing[k] /\ Landed(k) /\ phase = "unpublish" /\ ~committed /\ slot' = slot
    BY <1>9 DEF Unpublish
  <2>3. disk[k]["final"] = "new" /\ disk[k]["temp"] = "none"
    BY <2>1, <2>2 DEF Landed
  <2>4. ~discarding
    BY <2>1, <2>2, <1>1, <1>2
  <2>5. ForgetPublication(k) /\ Down("unpublish")
    BY <1>1, <2>3, <1>9 DEF Unpublish, CanRename, Fault
  <2>6. /\ k # a => disk'[a]["final"] = disk[a]["final"] /\ disk'[a]["temp"] = disk[a]["temp"]
    BY <1>1, <1>2, <2>1, <2>3, <1>9, Renaming, Removing DEF Unpublish, CanRename
  <2> QED
    BY <1>1, <1>2, <2>1, <2>2, <2>3, <2>4, <2>5, <2>6 DEF ForgetPublication, Down
<1>10. CASE NothingToRestore
  BY <1>1, <1>2, <1>10 DEF NothingToRestore, Down, Art
<1>11. CASE Restore
  <2>1. phase = "restore" /\ k > 0 /\ slot[k]
    BY <1>11 DEF Restore
  <2> QED
    BY <1>2, <2>1 DEF Cursor, Art
<1>12. CASE Tidy
  <2>1. k \in Art /\ phase = "tidy" /\ ~committed
    BY <1>2, <1>12 DEF Tidy, Cursor, Art
  <2>2. disk' = disk \/ disk' = Removed(k, "temp")
    BY <1>12 DEF Tidy
  <2>3. disk'[a]["final"] = disk[a]["final"] /\ Clean(a)
    BY <1>1, <1>2, <2>1, <2>2, Removing
  <2> QED
    BY <1>1, <1>2, <2>1, <2>3, <1>12 DEF Tidy, Down, entries
<1>13. CASE Interrupted
  BY <1>1, <1>13 DEF Interrupted, Fault
<1>14. CASE Intrude
  <2>1. /\ disk'[a]["temp"] = disk[a]["temp"]
        /\ \/ disk'[a]["final"] = disk[a]["final"]
           \/ disk[a]["final"] = "none" /\ disk'[a]["final"] = "foreign"
    BY <1>1, <1>2, <1>14 DEF Intrude
  <2> QED
    BY <1>1, <2>1, <1>14 DEF Intrude, entries, control
<1>15. CASE Closed \/ UNCHANGED vars
  BY <1>15 DEF Closed, vars, entries, control
<1> QED
  BY <1>3, <1>4, <1>5, <1>6, <1>7, <1>8, <1>9, <1>10, <1>11, <1>12, <1>13, <1>14, <1>15
     DEF Next, RunStep

\* Without overwrite a file that another program put at a destination is left
\* alone, for every number of artifacts and of failing calls, as long as none of
\* them is the removal of what was published and no call is cut in two.
THEOREM ForeignersAreLeft ==
  ASSUME {"unpublish", "between"} \cap FaultSites = {}, ~Overwrite
  PROVE  Spec => ForeignKept
<1> DEFINE OwnOnlyInv == \A a \in Art : OwnOnly(a)
           Left == \A a \in Art : disk[a]["final"] = "foreign" => disk'[a]["final"] = "foreign"
<1>1. "unpublish" \notin FaultSites
  OBVIOUS
<1>2. Init => OwnOnlyInv
  BY DEF Init, OwnOnly, Clean, Unpublished
<1>3. ASSUME Typed, SafeInv, SetInv, OwnOnlyInv, [Next]_vars
      PROVE  OwnOnlyInv' /\ Left
  <2>1. ASSUME NEW a \in Art
        PROVE  OwnOnly(a)' /\ (disk[a]["final"] = "foreign" => disk'[a]["final"] = "foreign")
    <3>1. Phases /\ Whereabouts(a) /\ PassesDone(a)
      BY <1>3 DEF SafeInv, SetInv
    <3>2. \A b \in Art : OwnOnly(b) /\ Whereabouts(b)
      BY <1>3 DEF SetInv
    <3> QED
      BY <1>3, <3>1, <3>2, OwnOnlyStep
  <2> QED
    BY <2>1
<1>4. Typed /\ SafeInv /\ SetInv /\ OwnOnlyInv /\ [Next]_vars => OwnOnlyInv' /\ [Left]_vars
  BY <1>3
<1>5. Spec => [](Typed /\ SafeInv /\ SetInv)
  BY <1>1, SetInvariant
<1> QED
  <2>1. Spec => [][Left]_vars
    BY <1>2, <1>4, <1>5, PTL DEF Spec
  <2> QED
    BY <2>1 DEF ForeignKept
=============================================================================
