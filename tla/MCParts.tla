------------------------------ MODULE MCParts ------------------------------
(***************************************************************************)
(* The components that do not depend on one another, checked one at a      *)
(* time: a behaviour chooses a part first, and the others stand still.     *)
(* The part "foreign" is a second output transaction, without overwrite,   *)
(* while another program creates files at two of its destinations.         *)
(***************************************************************************)
EXTENDS CacheJanitor, FlowServices, ArtifactReservation, WindowBuffer, MCEndpoint, SkipRings,
        SessionCleanup, MCTransaction, MCEpoch

VARIABLES part, disk2, publishing2, published2, slot2, phase2, k2, discarding2,
          committed2, reserved2, faults2

\* Only calls of the file system, and not the removal of what was published.
FileSystemCalls == Site \ {"unpublish", "between"}

Fresh == INSTANCE OutputTransaction WITH
  K <- 3, Existing <- {}, Sinks <- {1}, Framed <- {1}, Dirs <- {3}, Overwrite <- FALSE,
  Intruded <- {1, 2}, FaultSites <- FileSystemCalls, MaxFaults <- 2,
  disk <- disk2, publishing <- publishing2, published <- published2, slot <- slot2,
  phase <- phase2, k <- k2, discarding <- discarding2, committed <- committed2,
  reserved <- reserved2, faults <- faults2

xvars == <<disk2, publishing2, published2, slot2, phase2, k2, discarding2, committed2, reserved2,
           faults2>>

Parts == {"janitor", "flow", "reservation", "window", "transaction", "foreign", "epoch",
          "endpoint", "rings", "cleanup"}

pvars == <<part, jvars, fvars, rvars, wvars, vars, xvars, evars, nvars, svars, cvars>>

\* A film of two frames, for the behaviours of the other parts.
PlainFilm == <<[pts |-> 0, dur |-> 1, cut |-> FALSE], [pts |-> 1, dur |-> 1, cut |-> FALSE]>>

\* All n frames of a clip are wanted.
Whole(n) == [length |-> n, upto |-> n]

PartsInit ==
  /\ part \in Parts
  /\ JanitorInit /\ FlowInit /\ ReservationInit /\ WindowInit /\ Init /\ Fresh!Init
  /\ IF part = "epoch" THEN EpochInit ELSE EpochStart(Joined(1, 3, 9))
  /\ IF part = "endpoint" THEN EndpointInit ELSE EndpointStart(PlainFilm, 3, 2, TRUE)
  /\ IF part = "rings" THEN RingsInit ELSE RingsStart(Whole(1))
  /\ CleanupInit

Only(p) ==
  /\ part = p /\ UNCHANGED part
  /\ p # "janitor" => UNCHANGED jvars
  /\ p # "flow" => UNCHANGED fvars
  /\ p # "reservation" => UNCHANGED rvars
  /\ p # "window" => UNCHANGED wvars
  /\ p # "transaction" => UNCHANGED vars
  /\ p # "foreign" => UNCHANGED xvars
  /\ p # "epoch" => UNCHANGED evars
  /\ p # "endpoint" => UNCHANGED nvars
  /\ p # "rings" => UNCHANGED svars
  /\ p # "cleanup" => UNCHANGED cvars

PartsNext ==
  \/ part = "janitor" /\ JanitorNext /\ Only("janitor")
  \/ part = "flow" /\ FlowNext /\ Only("flow")
  \/ part = "reservation" /\ ReservationNext /\ Only("reservation")
  \/ part = "window" /\ WindowNext /\ Only("window")
  \/ part = "transaction" /\ Next /\ Only("transaction")
  \/ part = "foreign" /\ Fresh!Next /\ Only("foreign")
  \/ part = "epoch" /\ EpochNext /\ Only("epoch")
  \/ part = "endpoint" /\ EndpointNext /\ Only("endpoint")
  \/ part = "rings" /\ RingsNext /\ Only("rings")
  \/ part = "cleanup" /\ CleanupNext /\ Only("cleanup")

PartsSpec == PartsInit /\ [][PartsNext]_pvars

-----------------------------------------------------------------------------
\* Without overwrite, a file that another program put at a destination is left
\* alone, by the publication and by either rollback.
ForeignersKept == Fresh!ForeignKept

-----------------------------------------------------------------------------
\* Three runs of one process, one of another: siblings that share an ancestor,
\* the ancestor itself, and a path wanted by both processes.
TwoProcesses == [r \in {"r1", "r2", "r3", "r4"} |-> IF r = "r4" THEN "p2" ELSE "p1"]
Nested       == ("r1" :> {"/out/a"}) @@ ("r2" :> {"/out"}) @@ ("r3" :> {"/out/b"})
                  @@ ("r4" :> {"/out/b"})
PathOrder    == <<"/", "/out", "/out/a", "/out/b">>
ParentsOf    == ("/" :> {}) @@ ("/out" :> {"/"}) @@ ("/out/a" :> {"/", "/out"})
                  @@ ("/out/b" :> {"/", "/out"})

Fixed(w, t)  == [gop |-> FALSE, window |-> w, trim |-> t, minimum |-> 0]
Gop(low, high) == [gop |-> TRUE, window |-> high, trim |-> GopSplitTrim, minimum |-> low]
SomeBuffers  == {Fixed(2, 0), Fixed(3, 1), Fixed(5, 2), Gop(1, 1), Gop(2, 4), Gop(3, 3)}

\* The blocks delay the skip lines by eight, eight and four frames.
SixLines == [line \in 0..5 |-> IF line % 3 = 2 THEN 4 ELSE 8]

SomeStreams == {Whole(n) : n \in {1, 2, 5, 16, 18, 22}}
                 \cup {[length |-> 20, upto |-> 3], [length |-> 9, upto |-> 7]}

Bracketed == <<"pre", "mid", "post">>
Halves    == [s \in {"pre"} |-> "post"]
=============================================================================
