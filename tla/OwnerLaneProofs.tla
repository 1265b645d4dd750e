-------------------------- MODULE OwnerLaneProofs --------------------------
(***************************************************************************)
(* Theorems about the owner lanes, for every number of stages, lanes,      *)
(* windows, inputs and dispatches: the outputs of a windowed stage come in *)
(* order, once each and all (OutputsInOrder); a lane ends with nothing     *)
(* waiting and nobody inside it (QuietAtEnd); a dispatch is settled before *)
(* the generator that made it goes on (SettledBeforeStep); and no permit   *)
(* is lost or made (PermitsAccounted).                                     *)
(*                                                                         *)
(* Three inductive invariants carry them.  OutputsInv follows one windowed *)
(* stage from the dispatches of its window to what it has yielded.         *)
(* LaneInv says where the jobs of a stage are: at most one of each kind,   *)
(* in the queue of its lane or on its stack.  PermitsInv counts the        *)
(* permits that the callbacks on the stacks hold.                          *)
(***************************************************************************)
EXTENDS OwnerLane, FiniteSetTheorems, WellFoundedInduction, TLAPS

-----------------------------------------------------------------------------
(* The outputs of a windowed stage *)

\* Outputs that have been collected so far.
Gathered(i) == IF begun[i] = 0 THEN 0 ELSE (begun[i] - 1) * (Dispatches + 1) + collected[i]

OutputsTyped ==
  /\ DOMAIN caller = Stage
  /\ pos \in [Windowed -> {"feed", "buffer", "handoff", "begun", "fed", "drain", "abandon"}]
  /\ batch \in [Windowed -> Seq(Nat \X Nat)] /\ emitted \in [Windowed -> Seq(Nat \X Nat)]
  /\ begun \in [Windowed -> Nat] /\ handle \in [Windowed -> Nat]
  /\ DOMAIN done = Windowed /\ DOMAIN failure = Windowed
  /\ collected \in [Windowed -> Nat]
  /\ step \in [Windowed -> 0..(Dispatches + 1)]

WindowAt(i) ==
  /\ pos[i] \in {"feed", "buffer", "handoff", "fed"} => begun[i] < Windows
  /\ pos[i] = "begun" => begun[i] <= Windows /\ begun[i] # 0
  /\ pos[i] = "drain" => begun[i] = Windows
  /\ pos[i] \in {"handoff", "begun"} => handle[i] # 0
  /\ handle[i] # 0 => handle[i] = begun[i]
  /\ handle[i] = 0 /\ begun[i] # 0 /\ pos[i] # "abandon" => collected[i] = Dispatches + 1
  /\ collected[i] <= OutputsAfter(step[i])
  /\ done[i] => Complete(i)

OutputsSoFar(i) ==
  /\ Len(emitted[i]) + Len(batch[i]) = Gathered(i)
  /\ \A n \in DOMAIN emitted[i] : emitted[i][n] = Output(n)
  /\ \A n \in DOMAIN batch[i] : batch[i][n] = Output(Len(emitted[i]) + n)

OutputsEnd(i) ==
  caller[i] = "done" /\ ~cancelled => pos[i] = "drain" /\ handle[i] = 0 /\ batch[i] = <<>>

OutputsInv ==
  OutputsTyped /\ \A i \in Windowed : WindowAt(i) /\ OutputsSoFar(i) /\ OutputsEnd(i)

Kept(i) == WindowAt(i) /\ OutputsSoFar(i) /\ OutputsEnd(i)

\* All that happened to the stage is that its generator of dispatches went on.
Advanced(i) ==
  /\ pos'[i] = pos[i] /\ batch'[i] = batch[i] /\ emitted'[i] = emitted[i]
  /\ begun'[i] = begun[i] /\ handle'[i] = handle[i] /\ collected'[i] = collected[i]
  /\ step'[i] \in step[i]..(Dispatches + 1)
  /\ done'[i] => done[i] \/ step'[i] > Dispatches
  /\ caller'[i] = "done" /\ ~cancelled' => caller[i] = "done" /\ ~cancelled

\* Division by the number of outputs of a window.
LEMMA Divided ==
  ASSUME NEW d \in Nat \ {0}, NEW q \in Nat, NEW r \in 0..(d - 1)
  PROVE  (q * d + r) \div d = q /\ (q * d + r) % d = r
OBVIOUS

LEMMA Materialised ==
  ASSUME NEW s \in 0..(Dispatches + 1)
  PROVE  /\ OutputsAfter(s) \in 0..(Dispatches + 1)
         /\ s > Dispatches => OutputsAfter(s) = Dispatches + 1
         /\ \A r \in s..(Dispatches + 1) : OutputsAfter(s) <= OutputsAfter(r)
BY LaneConstants DEF OutputsAfter

LEMMA Resting ==
  ASSUME OutputsTyped, NEW i \in Windowed, Kept(i), Advanced(i)
  PROVE  Kept(i)'
<1>1. step[i] \in 0..(Dispatches + 1) /\ step'[i] \in 0..(Dispatches + 1) /\ Dispatches \in Nat
      /\ collected[i] \in Nat /\ step'[i] \in step[i]..(Dispatches + 1)
  BY LaneConstants DEF OutputsTyped, Advanced
<1>2. /\ OutputsAfter(step[i]) \in 0..(Dispatches + 1)
      /\ OutputsAfter(step'[i]) \in 0..(Dispatches + 1)
      /\ OutputsAfter(step[i]) <= OutputsAfter(step'[i])
  BY <1>1, Materialised
<1>3. WindowAt(i)'
  BY <1>1, <1>2 DEF Kept, Advanced, WindowAt, Complete
<1>4. OutputsSoFar(i)' /\ OutputsEnd(i)'
  BY DEF Kept, Advanced, OutputsSoFar, OutputsEnd, Gathered
<1> QED
  BY <1>3, <1>4 DEF Kept

\* A step of one stage, the others rest.
LEMMA Others ==
  ASSUME OutputsInv, OutputsTyped', NEW i \in Windowed, Kept(i)',
         \A j \in Windowed \ {i} : Advanced(j)
  PROVE  OutputsInv'
<1>1. ASSUME NEW j \in Windowed
      PROVE  Kept(j)'
  <2>1. OutputsTyped /\ Kept(j)
    BY DEF OutputsInv, Kept
  <2> QED
    BY <2>1, Resting
<1> QED
  BY <1>1 DEF OutputsInv, Kept

\* A step of no stage.
LEMMA Nobody ==
  ASSUME OutputsInv, OutputsTyped', \A j \in Windowed : Advanced(j)
  PROVE  OutputsInv'
<1>1. ASSUME NEW j \in Windowed
      PROVE  Kept(j)'
  <2>1. OutputsTyped /\ Kept(j)
    BY DEF OutputsInv, Kept
  <2> QED
    BY <2>1, Resting
<1> QED
  BY <1>1 DEF OutputsInv, Kept

\* What is collected continues what was yielded.
LEMMA FreshOutputs ==
  ASSUME OutputsTyped, NEW i \in Windowed, Kept(i), batch[i] = <<>>, handle[i] # 0
  PROVE  /\ Fresh(i) \in Seq(Nat \X Nat)
         /\ Len(Fresh(i)) = OutputsAfter(step[i]) - collected[i]
         /\ Len(emitted[i]) + Len(Fresh(i)) = (begun[i] - 1) * (Dispatches + 1)
                                                + OutputsAfter(step[i])
         /\ \A n \in DOMAIN Fresh(i) : Fresh(i)[n] = Output(Len(emitted[i]) + n)
<1>1. /\ step[i] \in 0..(Dispatches + 1) /\ collected[i] \in Nat /\ Dispatches \in Nat
      /\ begun[i] \in Nat /\ begun[i] # 0 /\ handle[i] = begun[i]
      /\ collected[i] <= OutputsAfter(step[i])
      /\ emitted[i] \in Seq(Nat \X Nat) /\ Len(emitted[i]) \in Nat
  BY LaneConstants DEF OutputsTyped, Kept, WindowAt
<1>2. OutputsAfter(step[i]) \in 0..(Dispatches + 1)
  BY <1>1, Materialised
<1>3. Len(emitted[i]) = (begun[i] - 1) * (Dispatches + 1) + collected[i]
  BY <1>1 DEF Kept, OutputsSoFar, Gathered
<1> DEFINE size == OutputsAfter(step[i]) - collected[i]
<1>4. size \in Nat /\ collected[i] + size <= Dispatches + 1
  BY <1>1, <1>2
<1>5. Fresh(i) = [n \in 1..size |-> <<begun[i], collected[i] + n>>]
  BY <1>1 DEF Fresh
<1>6. ASSUME NEW n \in 1..size
      PROVE  /\ <<begun[i], collected[i] + n>> \in Nat \X Nat
             /\ Output(Len(emitted[i]) + n) = <<begun[i], collected[i] + n>>
  <2> DEFINE d == Dispatches + 1
             q == begun[i] - 1
             r == collected[i] + n - 1
  <2>1. d \in Nat \ {0} /\ q \in Nat /\ r \in 0..(d - 1)
    BY <1>1, <1>4
  <2>2. Len(emitted[i]) + n - 1 = q * d + r
    <3>1. q * d \in Nat
      BY <2>1
    <3> QED
      BY <1>1, <1>3, <3>1
  <2>3. (q * d + r) \div d = q /\ (q * d + r) % d = r
    <3> HIDE DEF d, q, r
    <3> QED
      BY <2>1, Divided
  <2>4. Output(Len(emitted[i]) + n) = <<q + 1, r + 1>>
    <3>1. Output(Len(emitted[i]) + n)
            = <<((Len(emitted[i]) + n - 1) \div d) + 1, ((Len(emitted[i]) + n - 1) % d) + 1>>
      BY DEF Output
    <3> HIDE DEF d, q, r
    <3> QED
      BY <2>2, <2>3, <3>1
  <2> QED
    BY <1>1, <2>4
<1> HIDE DEF size
<1>7. Fresh(i) \in Seq(Nat \X Nat) /\ Len(Fresh(i)) = size /\ DOMAIN Fresh(i) = 1..size
  BY <1>4, <1>5, <1>6
<1>8. Len(emitted[i]) + size = (begun[i] - 1) * (Dispatches + 1) + OutputsAfter(step[i])
  <2>1. (begun[i] - 1) * (Dispatches + 1) \in Nat
    BY <1>1
  <2> QED
    BY <1>1, <1>2, <1>3, <2>1 DEF size
<1> QED
  BY <1>5, <1>6, <1>7, <1>8 DEF size

\* What collect() takes keeps the outputs in order.
LEMMA Collecting ==
  ASSUME OutputsInv, NEW i \in Windowed, batch[i] = <<>>, handle[i] # 0, Collect(i),
         begun' = begun, emitted' = emitted
  PROVE  /\ batch' \in [Windowed -> Seq(Nat \X Nat)] /\ collected' \in [Windowed -> Nat]
         /\ collected'[i] = OutputsAfter(step[i])
         /\ \A j \in Windowed \ {i} : batch'[j] = batch[j] /\ collected'[j] = collected[j]
         /\ OutputsSoFar(i)'
<1>1. /\ OutputsTyped /\ Kept(i)
      /\ step[i] \in 0..(Dispatches + 1) /\ Dispatches \in Nat /\ begun[i] \in Nat /\ begun[i] # 0
  BY LaneConstants DEF OutputsInv, OutputsTyped, Kept, WindowAt
<1>2. /\ Fresh(i) \in Seq(Nat \X Nat)
      /\ Len(emitted[i]) + Len(Fresh(i)) = (begun[i] - 1) * (Dispatches + 1) + OutputsAfter(step[i])
      /\ \A n \in DOMAIN Fresh(i) : Fresh(i)[n] = Output(Len(emitted[i]) + n)
  BY <1>1, FreshOutputs
<1>3. OutputsAfter(step[i]) \in Nat
  BY <1>1, Materialised
<1>4. batch \in [Windowed -> Seq(Nat \X Nat)] /\ collected \in [Windowed -> Nat]
  BY <1>1 DEF OutputsTyped
<1>5. /\ batch' = [batch EXCEPT ![i] = Fresh(i)]
      /\ collected' = [collected EXCEPT ![i] = OutputsAfter(step[i])]
  BY DEF Collect
<1>6. /\ batch' \in [Windowed -> Seq(Nat \X Nat)] /\ collected' \in [Windowed -> Nat]
      /\ batch'[i] = Fresh(i) /\ collected'[i] = OutputsAfter(step[i])
      /\ \A j \in Windowed \ {i} : batch'[j] = batch[j] /\ collected'[j] = collected[j]
  BY <1>2, <1>3, <1>4, <1>5
<1>7. \A n \in DOMAIN emitted[i] : emitted[i][n] = Output(n)
  BY <1>1 DEF Kept, OutputsSoFar
<1>8. Gathered(i)' = (begun[i] - 1) * (Dispatches + 1) + OutputsAfter(step[i])
  BY <1>1, <1>6 DEF Gathered
<1>9. OutputsSoFar(i)'
  BY <1>2, <1>6, <1>7, <1>8 DEF OutputsSoFar
<1> QED
  BY <1>6, <1>9

\* One output goes from the batch to what was yielded.
LEMMA Yielding ==
  ASSUME NEW S, NEW out \in Seq(S), NEW rest \in Seq(S), rest # <<>>,
         \A n \in DOMAIN out : out[n] = Output(n),
         \A n \in DOMAIN rest : rest[n] = Output(Len(out) + n)
  PROVE  /\ Append(out, Head(rest)) \in Seq(S) /\ Tail(rest) \in Seq(S)
         /\ Len(Append(out, Head(rest))) + Len(Tail(rest)) = Len(out) + Len(rest)
         /\ \A n \in DOMAIN Append(out, Head(rest)) : Append(out, Head(rest))[n] = Output(n)
         /\ \A n \in DOMAIN Tail(rest) :
              Tail(rest)[n] = Output(Len(Append(out, Head(rest))) + n)
<1>1. /\ Len(rest) \in Nat \ {0} /\ Head(rest) = rest[1] /\ Head(rest) = Output(Len(out) + 1)
      /\ Head(rest) \in S /\ Len(out) \in Nat
  OBVIOUS
<1>2. /\ Append(out, Head(rest)) \in Seq(S) /\ Len(Append(out, Head(rest))) = Len(out) + 1
      /\ \A n \in DOMAIN Append(out, Head(rest)) :
           Append(out, Head(rest))[n] = IF n = Len(out) + 1 THEN Head(rest) ELSE out[n]
  BY <1>1
<1>3. /\ Tail(rest) \in Seq(S) /\ Len(Tail(rest)) = Len(rest) - 1
      /\ \A n \in DOMAIN Tail(rest) : n + 1 \in DOMAIN rest /\ Tail(rest)[n] = rest[n + 1]
  BY <1>1
<1>4. \A n \in DOMAIN Append(out, Head(rest)) : Append(out, Head(rest))[n] = Output(n)
  BY <1>1, <1>2
<1>5. ASSUME NEW n \in DOMAIN Tail(rest)
      PROVE  Tail(rest)[n] = Output(Len(Append(out, Head(rest))) + n)
  <2>1. n \in Nat
    BY <1>3
  <2>2. Len(out) + (n + 1) = Len(Append(out, Head(rest))) + n
    BY <1>1, <1>2, <2>1
  <2>3. Tail(rest)[n] = Output(Len(out) + (n + 1))
    BY <1>3
  <2> QED
    BY <2>3, <2>2
<1> QED
  BY <1>1, <1>2, <1>3, <1>4, <1>5

LEMMA Product ==
  ASSUME NEW b \in Nat \ {0}, NEW d \in Nat
  PROVE  (b - 1) * d + d = b * d /\ b * d \in Nat
OBVIOUS

LEMMA YieldKeeps ==
  ASSUME OutputsInv, NEW l \in Lane, NEW i \in Windowed, Yield(l, i)
  PROVE  OutputsInv'
<1>1. /\ OutputsTyped /\ Kept(i) /\ i \in Stage /\ DOMAIN caller = Stage
      /\ batch \in [Windowed -> Seq(Nat \X Nat)] /\ emitted \in [Windowed -> Seq(Nat \X Nat)]
      /\ step \in [Windowed -> 0..(Dispatches + 1)] /\ Dispatches \in Nat
  BY LaneConstants DEF OutputsInv, OutputsTyped, Kept
<1>2. /\ batch[i] # <<>>
      /\ emitted' = [emitted EXCEPT ![i] = Append(@, Head(batch[i]))]
      /\ batch' = [batch EXCEPT ![i] = Tail(@)]
      /\ caller' = [caller EXCEPT ![i] = "idle"]
      /\ UNCHANGED <<pos, begun, handle, done, failure, collected, step, cancelled>>
  BY DEF Yield, wave, window, ends
<1>3. /\ \A n \in DOMAIN emitted[i] : emitted[i][n] = Output(n)
      /\ \A n \in DOMAIN batch[i] : batch[i][n] = Output(Len(emitted[i]) + n)
      /\ Len(emitted[i]) + Len(batch[i]) = Gathered(i)
  BY <1>1 DEF Kept, OutputsSoFar
<1>4. /\ emitted'[i] = Append(emitted[i], Head(batch[i])) /\ batch'[i] = Tail(batch[i])
      /\ caller'[i] = "idle"
      /\ \A j \in Windowed \ {i} : /\ emitted'[j] = emitted[j] /\ batch'[j] = batch[j]
                                   /\ caller'[j] = caller[j]
  BY <1>1, <1>2
<1>5. /\ Append(emitted[i], Head(batch[i])) \in Seq(Nat \X Nat) /\ Tail(batch[i]) \in Seq(Nat \X Nat)
      /\ Len(emitted'[i]) + Len(batch'[i]) = Len(emitted[i]) + Len(batch[i])
      /\ \A n \in DOMAIN emitted'[i] : emitted'[i][n] = Output(n)
      /\ \A n \in DOMAIN batch'[i] : batch'[i][n] = Output(Len(emitted'[i]) + n)
  <2>1. emitted[i] \in Seq(Nat \X Nat) /\ batch[i] \in Seq(Nat \X Nat)
    BY <1>1
  <2>2. batch[i] # <<>>
    BY <1>2
  <2> DEFINE S == Nat \X Nat
             out == emitted[i]
             rest == batch[i]
  <2>3. /\ out \in Seq(S) /\ rest \in Seq(S) /\ rest # <<>>
        /\ \A n \in DOMAIN out : out[n] = Output(n)
        /\ \A n \in DOMAIN rest : rest[n] = Output(Len(out) + n)
    BY <1>3, <2>1, <2>2
  <2> HIDE DEF S, out, rest
  <2>4. /\ Append(out, Head(rest)) \in Seq(S) /\ Tail(rest) \in Seq(S)
        /\ Len(Append(out, Head(rest))) + Len(Tail(rest)) = Len(out) + Len(rest)
        /\ \A n \in DOMAIN Append(out, Head(rest)) : Append(out, Head(rest))[n] = Output(n)
        /\ \A n \in DOMAIN Tail(rest) :
             Tail(rest)[n] = Output(Len(Append(out, Head(rest))) + n)
    BY <2>3, Yielding
  <2> QED
    BY <1>4, <2>4 DEF S, out, rest
<1>6. OutputsTyped'
  BY <1>1, <1>2, <1>5 DEF OutputsTyped
<1>7. OutputsSoFar(i)'
  BY <1>2, <1>3, <1>5 DEF OutputsSoFar, Gathered
<1>8. WindowAt(i)' /\ OutputsEnd(i)'
  BY <1>1, <1>2, <1>4 DEF Kept, WindowAt, OutputsEnd, Complete
<1>9. \A j \in Windowed \ {i} : Advanced(j)
  BY <1>1, <1>2, <1>4 DEF Advanced
<1> QED
  BY <1>6, <1>7, <1>8, <1>9, Others DEF Kept

\* A step of an iterator that yields nothing and begins no window.
LEMMA CollectKeeps ==
  ASSUME OutputsInv, NEW l \in Lane, NEW i \in Windowed,
         FeedPolls(l, i) \/ HandoffWaits(l, i) \/ Begun(l, i) \/ Drains(l, i)
  PROVE  OutputsInv'
<1>1. /\ OutputsTyped /\ Kept(i) /\ Dispatches \in Nat
      /\ pos \in [Windowed -> {"feed", "buffer", "handoff", "begun", "fed", "drain", "abandon"}]
      /\ handle \in [Windowed -> Nat] /\ DOMAIN done = Windowed /\ DOMAIN failure = Windowed
      /\ step \in [Windowed -> 0..(Dispatches + 1)]
      /\ batch \in [Windowed -> Seq(Nat \X Nat)] /\ collected \in [Windowed -> Nat]
  BY LaneConstants DEF OutputsInv, OutputsTyped, Kept
<1>2. /\ batch[i] = <<>> /\ emitted' = emitted /\ begun' = begun /\ caller' = caller /\ step' = step
      /\ cancelled' = cancelled
      /\ pos[i] \in {"feed", "handoff", "begun", "drain"}
  BY DEF FeedPolls, HandoffWaits, Begun, Drains, At, lanes, callers, window, ends
<1>3. pos[i] # "feed" => handle[i] # 0
  BY <1>1, <1>2 DEF Kept, WindowAt, Drains, FeedPolls, HandoffWaits, Begun, At
<1>4. \/ /\ handle[i] # 0 /\ Collect(i)
         /\ \/ UNCHANGED <<handle, done>>
            \/ /\ done[i] /\ handle' = [handle EXCEPT ![i] = 0]
               /\ done' = [done EXCEPT ![i] = FALSE]
      \/ UNCHANGED <<batch, handle, done, collected>>
  BY <1>2, <1>3 DEF FeedPolls, HandoffWaits, Begun, Drains, At, Finish
<1>5. /\ DOMAIN failure' = Windowed
      /\ pos' \in [Windowed -> {"feed", "buffer", "handoff", "begun", "fed", "drain", "abandon"}]
      /\ \A j \in Windowed \ {i} : pos'[j] = pos[j]
  BY <1>1 DEF FeedPolls, HandoffWaits, Begun, Drains, Finish, Goto
<1>6. /\ pos[i] = "feed" => pos'[i] = "buffer"
      /\ pos[i] = "handoff" => pos'[i] = "handoff" /\ handle' = handle
      /\ pos[i] = "begun" => pos'[i] = IF begun[i] = Windows THEN "drain" ELSE "fed"
      /\ pos[i] = "drain" => pos'[i] = "drain"
  BY <1>1 DEF FeedPolls, HandoffWaits, Begun, Drains, Goto, At
<1>7. OutputsEnd(i)'
  BY <1>1, <1>2, <1>3, <1>6 DEF Kept, OutputsEnd
<1>8. CASE UNCHANGED <<batch, handle, done, collected>>
  <2>1. begun[i] \in Nat /\ Windows \in Nat
    BY <1>1, LaneConstants DEF OutputsTyped
  <2>2. WindowAt(i)'
    BY <1>1, <1>2, <1>3, <1>6, <1>8, <2>1 DEF Kept, WindowAt, Complete
  <2>3. OutputsSoFar(i)'
    BY <1>1, <1>2, <1>8 DEF Kept, OutputsSoFar, Gathered
  <2>4. OutputsTyped'
    BY <1>1, <1>2, <1>5, <1>8 DEF OutputsTyped
  <2>5. \A j \in Windowed \ {i} : Advanced(j)
    BY <1>1, <1>2, <1>5, <1>8 DEF Advanced
  <2> QED
    BY <1>7, <2>2, <2>3, <2>4, <2>5, Others DEF Kept
<1>9. CASE /\ handle[i] # 0 /\ Collect(i)
           /\ \/ UNCHANGED <<handle, done>>
              \/ /\ done[i] /\ handle' = [handle EXCEPT ![i] = 0]
                 /\ done' = [done EXCEPT ![i] = FALSE]
  <2>1. /\ batch' \in [Windowed -> Seq(Nat \X Nat)] /\ collected' \in [Windowed -> Nat]
        /\ collected'[i] = OutputsAfter(step[i])
        /\ \A j \in Windowed \ {i} : batch'[j] = batch[j] /\ collected'[j] = collected[j]
        /\ OutputsSoFar(i)'
    BY <1>2, <1>9, Collecting
  <2>2. /\ handle' \in [Windowed -> Nat] /\ DOMAIN done' = Windowed
        /\ \A j \in Windowed \ {i} : handle'[j] = handle[j] /\ done'[j] = done[j]
        /\ \/ handle'[i] = handle[i] /\ done'[i] = done[i]
           \/ handle'[i] = 0 /\ ~done'[i] /\ done[i]
    <3>1. CASE UNCHANGED <<handle, done>>
      BY <1>1, <3>1
    <3>2. CASE /\ done[i] /\ handle' = [handle EXCEPT ![i] = 0]
               /\ done' = [done EXCEPT ![i] = FALSE]
      <4>1. DOMAIN done' = Windowed /\ done'[i] = FALSE /\ done[i]
            /\ \A j \in Windowed \ {i} : done'[j] = done[j]
        BY <1>1, <3>2, Zenon
      <4>2. handle' \in [Windowed -> Nat] /\ handle'[i] = 0
            /\ \A j \in Windowed \ {i} : handle'[j] = handle[j]
        BY <1>1, <3>2
      <4> QED
        BY <4>1, <4>2, Zenon
    <3> QED
      BY <1>9, <3>1, <3>2
  <2>3. /\ OutputsAfter(step[i]) \in 0..(Dispatches + 1)
        /\ done[i] => OutputsAfter(step[i]) = Dispatches + 1
    BY <1>1, Materialised DEF Kept, WindowAt, Complete
  <2>4. begun[i] \in Nat /\ Windows \in Nat /\ handle[i] = begun[i]
    BY <1>1, <1>9, LaneConstants DEF OutputsTyped, Kept, WindowAt
  <2>5. WindowAt(i)'
    <3>1. done'[i] => Complete(i)'
      BY <1>1, <1>2, <2>2 DEF Kept, WindowAt, Complete
    <3>2. /\ pos'[i] \in {"feed", "buffer", "handoff", "fed"} => begun'[i] < Windows
          /\ pos'[i] = "begun" => begun'[i] <= Windows /\ begun'[i] # 0
          /\ pos'[i] = "drain" => begun'[i] = Windows
      BY <1>1, <1>2, <1>6, <2>4 DEF Kept, WindowAt
    <3>3. pos'[i] \in {"handoff", "begun"} => handle'[i] # 0
      BY <1>2, <1>6, <1>9
    <3>4. handle'[i] # 0 => handle'[i] = begun'[i]
      BY <1>2, <2>2, <2>4
    <3>5. handle'[i] = 0 /\ begun'[i] # 0 /\ pos'[i] # "abandon" => collected'[i] = Dispatches + 1
      BY <1>2, <1>9, <2>1, <2>2, <2>3
    <3>6. collected'[i] <= OutputsAfter(step[i])'
      BY <1>2, <2>1, <2>3
    <3> QED
      BY <3>1, <3>2, <3>3, <3>4, <3>5, <3>6 DEF WindowAt
  <2>6. OutputsTyped'
    BY <1>1, <1>2, <1>5, <2>1, <2>2 DEF OutputsTyped
  <2>7. \A j \in Windowed \ {i} : Advanced(j)
    BY <1>1, <1>2, <1>5, <2>1, <2>2 DEF Advanced
  <2> QED
    BY <1>7, <2>1, <2>5, <2>6, <2>7, Others DEF Kept
<1> QED
  BY <1>4, <1>8, <1>9

\* A window that begins, after the outputs of the one before it.
LEMMA BeginKeeps ==
  ASSUME OutputsInv, NEW l \in Lane, NEW i \in Windowed,
         SubmitFirst(l, i) \/ HandoffFinishes(l, i)
  PROVE  OutputsInv'
<1>1. /\ OutputsTyped /\ Kept(i) /\ Dispatches \in Nat /\ Windows \in Nat
      /\ pos \in [Windowed -> {"feed", "buffer", "handoff", "begun", "fed", "drain", "abandon"}]
      /\ handle \in [Windowed -> Nat] /\ begun \in [Windowed -> Nat]
      /\ DOMAIN done = Windowed /\ DOMAIN failure = Windowed
      /\ step \in [Windowed -> 0..(Dispatches + 1)]
      /\ batch \in [Windowed -> Seq(Nat \X Nat)] /\ collected \in [Windowed -> Nat]
  BY LaneConstants DEF OutputsInv, OutputsTyped, Kept
<1>2. /\ batch[i] = <<>> /\ emitted' = emitted /\ caller' = caller /\ cancelled' = cancelled
      /\ BeginWindow(i) /\ pos' = [pos EXCEPT ![i] = "begun"] /\ pos[i] \in {"buffer", "handoff"}
  BY DEF SubmitFirst, HandoffFinishes, At, Goto, callers, ends
<1>3. /\ begun' = [begun EXCEPT ![i] = begun[i] + 1]
      /\ handle' = [handle EXCEPT ![i] = begun[i] + 1]
      /\ done' = [done EXCEPT ![i] = FALSE]
      /\ failure' = [failure EXCEPT ![i] = FALSE]
      /\ collected' = [collected EXCEPT ![i] = 0]
      /\ step' = [step EXCEPT ![i] = 0]
  BY <1>2 DEF BeginWindow
<1>4. /\ begun' \in [Windowed -> Nat] /\ handle' \in [Windowed -> Nat]
      /\ collected' \in [Windowed -> Nat] /\ step' \in [Windowed -> 0..(Dispatches + 1)]
      /\ pos' \in [Windowed -> {"feed", "buffer", "handoff", "begun", "fed", "drain", "abandon"}]
      /\ begun'[i] = begun[i] + 1 /\ handle'[i] = begun[i] + 1 /\ collected'[i] = 0 /\ step'[i] = 0
      /\ pos'[i] = "begun"
      /\ \A j \in Windowed \ {i} :
           /\ begun'[j] = begun[j] /\ handle'[j] = handle[j] /\ collected'[j] = collected[j]
           /\ step'[j] = step[j] /\ pos'[j] = pos[j]
  BY <1>1, <1>2, <1>3
<1>5. /\ DOMAIN done' = Windowed /\ DOMAIN failure' = Windowed /\ done'[i] = FALSE
      /\ \A j \in Windowed \ {i} : done'[j] = done[j]
  BY <1>1, <1>3, Zenon
<1>6. begun[i] \in Nat /\ begun[i] < Windows
  BY <1>1, <1>2 DEF Kept, WindowAt
<1>7. OutputsAfter(0) = 0
  BY DEF OutputsAfter
<1>8. WindowAt(i)'
  BY <1>1, <1>4, <1>5, <1>6, <1>7 DEF WindowAt
<1>9. OutputsEnd(i)'
  BY <1>1, <1>2 DEF Kept, OutputsEnd
<1>10. /\ Len(emitted[i]) \in Nat
       /\ \A n \in DOMAIN emitted[i] : emitted[i][n] = Output(n)
       /\ Len(emitted[i]) = Gathered(i)
  BY <1>1, <1>2 DEF Kept, OutputsSoFar, OutputsTyped
<1>11. Gathered(i)' = begun[i] * (Dispatches + 1)
  <2>1. begun'[i] # 0 /\ begun'[i] - 1 = begun[i] /\ collected'[i] = 0
    BY <1>4, <1>6
  <2>2. begun[i] * (Dispatches + 1) \in Nat
    <3>1. begun[i] \in Nat /\ Dispatches + 1 \in Nat
      BY <1>1, <1>6
    <3>2. \A b, d \in Nat : b * d \in Nat
      OBVIOUS
    <3> QED
      BY ONLY <3>1, <3>2
  <2> QED
    BY <2>1, <2>2 DEF Gathered
<1>12. CASE SubmitFirst(l, i)
  <2>1. batch' = batch /\ handle[i] = 0
    BY <1>12 DEF SubmitFirst
  <2>2. Gathered(i) = begun[i] * (Dispatches + 1)
    <3>1. CASE begun[i] = 0
      BY <1>1, <3>1 DEF Gathered
    <3>2. CASE begun[i] # 0
      <4>1. collected[i] = Dispatches + 1
        BY <1>1, <1>2, <2>1, <3>2 DEF Kept, WindowAt
      <4>2. begun[i] \in Nat \ {0} /\ Dispatches + 1 \in Nat
        BY <1>1, <1>6, <3>2
      <4>3. (begun[i] - 1) * (Dispatches + 1) + (Dispatches + 1) = begun[i] * (Dispatches + 1)
        BY ONLY <4>2, Product
      <4> QED
        BY <3>2, <4>1, <4>3 DEF Gathered
    <3> QED
      BY <3>1, <3>2
  <2>3. OutputsSoFar(i)'
    BY <1>2, <1>10, <1>11, <2>1, <2>2 DEF OutputsSoFar
  <2>4. OutputsTyped'
    BY <1>1, <1>2, <1>4, <1>5, <2>1 DEF OutputsTyped
  <2>5. \A j \in Windowed \ {i} : Advanced(j)
    BY <1>1, <1>2, <1>4, <1>5, <2>1 DEF Advanced
  <2> QED
    BY <1>8, <1>9, <2>3, <2>4, <2>5, Others DEF Kept
<1>13. CASE HandoffFinishes(l, i)
  <2>1. batch' = [batch EXCEPT ![i] = Fresh(i)] /\ done[i] /\ pos[i] = "handoff"
    BY <1>13 DEF HandoffFinishes, At
  <2>2. handle[i] # 0 /\ step[i] > Dispatches
    BY <1>1, <2>1 DEF Kept, WindowAt, Complete
  <2>3. begun[i] # 0
    BY <1>1, <2>2 DEF Kept, WindowAt
  <2>4. /\ Fresh(i) \in Seq(Nat \X Nat)
        /\ Len(emitted[i]) + Len(Fresh(i)) = (begun[i] - 1) * (Dispatches + 1) + OutputsAfter(step[i])
        /\ \A n \in DOMAIN Fresh(i) : Fresh(i)[n] = Output(Len(emitted[i]) + n)
    BY <1>1, <1>2, <2>2, FreshOutputs
  <2>5. OutputsAfter(step[i]) = Dispatches + 1
    BY <1>1, <2>2, Materialised
  <2>6. (begun[i] - 1) * (Dispatches + 1) + (Dispatches + 1) = begun[i] * (Dispatches + 1)
    BY <1>1, <1>6, <2>3, Product
  <2>7. /\ batch' \in [Windowed -> Seq(Nat \X Nat)] /\ batch'[i] = Fresh(i)
        /\ \A j \in Windowed \ {i} : batch'[j] = batch[j]
    BY <1>1, <2>1, <2>4
  <2>8. OutputsSoFar(i)'
    BY <1>2, <1>10, <1>11, <2>4, <2>5, <2>6, <2>7 DEF OutputsSoFar
  <2>9. OutputsTyped'
    BY <1>1, <1>2, <1>4, <1>5, <2>7 DEF OutputsTyped
  <2>10. \A j \in Windowed \ {i} : Advanced(j)
    BY <1>1, <1>2, <1>4, <1>5, <2>7 DEF Advanced
  <2> QED
    BY <1>8, <1>9, <2>8, <2>9, <2>10, Others DEF Kept
<1> QED
  BY <1>12, <1>13

\* The other steps of an iterator only say where it stands.
LEMMA MoveKeeps ==
  ASSUME OutputsInv, NEW l \in Lane, NEW i \in Windowed,
         FeedBuffers(l, i) \/ SubmitNext(l, i) \/ FeedEnds(l, i) \/ FlushEnds(l, i) \/ Raises(l, i)
  PROVE  OutputsInv'
<1>1. /\ OutputsTyped /\ Kept(i) /\ i \in Stage /\ DOMAIN caller = Stage
      /\ pos \in [Windowed -> {"feed", "buffer", "handoff", "begun", "fed", "drain", "abandon"}]
      /\ step \in [Windowed -> 0..(Dispatches + 1)] /\ Dispatches \in Nat
  BY LaneConstants DEF OutputsInv, OutputsTyped, Kept
<1>2. UNCHANGED <<batch, emitted, wave, window>> /\ batch[i] = <<>>
  BY DEF FeedBuffers, SubmitNext, FeedEnds, FlushEnds, Raises, At, iter
<1>3. /\ DOMAIN caller' = Stage
      /\ \A j \in Stage \ {i} : caller'[j] = caller[j]
      /\ ~cancelled' => ~cancelled
  BY <1>1 DEF FeedBuffers, SubmitNext, FeedEnds, FlushEnds, Raises, ends
<1>4. /\ pos' \in [Windowed -> {"feed", "buffer", "handoff", "begun", "fed", "drain", "abandon"}]
      /\ \A j \in Windowed \ {i} : pos'[j] = pos[j]
  BY <1>1 DEF FeedBuffers, SubmitNext, FeedEnds, FlushEnds, Raises, Goto, iter
<1>5. WindowAt(i)'
  <2>1. \/ pos'[i] = pos[i]
        \/ pos[i] = "buffer" /\ pos'[i] = "feed"
        \/ pos[i] = "fed" /\ pos'[i] = "feed"
        \/ pos[i] = "buffer" /\ pos'[i] = "handoff" /\ handle[i] # 0
    BY <1>1 DEF FeedBuffers, SubmitNext, FeedEnds, FlushEnds, Raises, Goto, iter, At
  <2> QED
    BY <1>1, <1>2, <2>1 DEF Kept, WindowAt, Complete, wave, window
<1>6. OutputsSoFar(i)'
  BY <1>1, <1>2 DEF Kept, OutputsSoFar, Gathered, wave
<1>7. OutputsEnd(i)'
  <2>1. \/ caller'[i] = "idle"
        \/ caller'[i] = caller[i] /\ pos[i] = "buffer" /\ cancelled' = cancelled
        \/ pos'[i] = "drain" /\ handle[i] = 0
        \/ cancelled'
    BY <1>1 DEF FeedBuffers, SubmitNext, FeedEnds, FlushEnds, Raises, At, iter, ends
  <2> QED
    BY <1>1, <1>2, <2>1 DEF Kept, OutputsEnd, wave
<1>8. OutputsTyped'
  BY <1>1, <1>2, <1>3, <1>4 DEF OutputsTyped, wave, window
<1>9. \A j \in Windowed \ {i} : Advanced(j)
  <2> TAKE j \in Windowed \ {i}
  <2>1. j \in Stage
    BY LaneConstants
  <2> QED
    BY <1>1, <1>2, <1>3, <1>4, <2>1 DEF Advanced, wave, window
<1> QED
  BY <1>5, <1>6, <1>7, <1>8, <1>9, Others DEF Kept

\* A progress callback, or the completion thread, goes on with the window.
LEMMA ProgressKeeps ==
  ASSUME OutputsInv, NEW l \in Lane, Progress(l)
  PROVE  OutputsInv'
<1>1. PICK i \in Windowed :
        /\ \/ step' = step /\ Tells(i, Top(l).job.window, FALSE, FALSE)
           \/ step' = step /\ Tells(i, Top(l).job.window, TRUE, FALSE)
           \/ /\ step' = step \/ (~Complete(i) /\ step' = [step EXCEPT ![i] = @ + 1])
              /\ Tells(i, Top(l).job.window, FALSE, step'[i] > Dispatches)
        /\ UNCHANGED <<callers, iter, waits, cancelled, main>>
  BY DEF Progress, window, native, Dispatch
<1>2. /\ OutputsTyped /\ DOMAIN done = Windowed /\ DOMAIN failure = Windowed
      /\ step \in [Windowed -> 0..(Dispatches + 1)] /\ Dispatches \in Nat
  BY LaneConstants DEF OutputsInv, OutputsTyped
<1>3. step' \in [Windowed -> 0..(Dispatches + 1)] /\ \A j \in Windowed : step'[j] >= step[j]
  <2>1. step' = step \/ (~Complete(i) /\ step' = [step EXCEPT ![i] = @ + 1])
    BY <1>1
  <2> QED
    BY <1>2, <2>1 DEF Complete
<1>4. /\ UNCHANGED <<begun, handle, collected>>
      /\ DOMAIN failure' = Windowed
      /\ \/ done' = [done EXCEPT ![i] = IF handle[i] = Top(l).job.window THEN FALSE ELSE @]
         \/ done' = [done EXCEPT ![i] =
                       IF handle[i] = Top(l).job.window THEN step'[i] > Dispatches ELSE @]
  BY <1>1, <1>2 DEF Tells
<1>5. /\ DOMAIN done' = Windowed /\ DOMAIN failure' = Windowed
      /\ \A j \in Windowed : done'[j] => done[j] \/ step'[j] > Dispatches
  <2>1. DOMAIN done' = Windowed /\ \A j \in Windowed \ {i} : done'[j] = done[j]
    BY <1>2, <1>4
  <2>2. \/ done'[i] = done[i] \/ done'[i] = FALSE \/ done'[i] = (step'[i] > Dispatches)
    BY <1>2, <1>4
  <2> QED
    BY <1>4, <2>1, <2>2
<1>6. UNCHANGED <<caller, pos, batch, emitted, begun, handle, collected, cancelled>>
  BY <1>1, <1>4 DEF callers, iter, Tells
<1>7. OutputsTyped'
  BY <1>2, <1>3, <1>5, <1>6 DEF OutputsTyped
<1>8. \A j \in Windowed : Advanced(j)
  BY <1>2, <1>3, <1>5, <1>6 DEF Advanced
<1> QED
  BY <1>7, <1>8, Nobody

LEMMA WaitKeeps ==
  ASSUME OutputsInv, NEW i \in Windowed, WaitStarts(i) \/ WaitEnds(i)
  PROVE  OutputsInv'
<1>1. /\ wave' = wave \/ Tells(i, waiter[i][2], TRUE, FALSE)
      /\ UNCHANGED <<callers, iter, step, cancelled>>
  BY DEF WaitStarts, WaitEnds, window
<1>2. /\ OutputsTyped /\ DOMAIN done = Windowed /\ DOMAIN failure = Windowed
      /\ step \in [Windowed -> 0..(Dispatches + 1)] /\ Dispatches \in Nat
  BY LaneConstants DEF OutputsInv, OutputsTyped
<1>3. /\ DOMAIN done' = Windowed /\ DOMAIN failure' = Windowed
      /\ \A j \in Windowed : done'[j] => done[j]
      /\ UNCHANGED <<begun, handle, collected>>
  <2>1. CASE wave' = wave
    BY <1>2, <2>1 DEF wave
  <2>2. CASE Tells(i, waiter[i][2], TRUE, FALSE)
    BY <1>2, <2>2 DEF Tells
  <2> QED
    BY <1>1, <2>1, <2>2
<1>4. OutputsTyped'
  BY <1>1, <1>2, <1>3 DEF OutputsTyped, callers, iter
<1>5. \A j \in Windowed : Advanced(j)
  BY <1>1, <1>2, <1>3 DEF Advanced, callers, iter
<1> QED
  BY <1>4, <1>5, Nobody

LEMMA AbandonKeeps ==
  ASSUME OutputsInv, NEW l \in Lane, Abandon(l)
  PROVE  OutputsInv'
<1>1. PICK i \in Windowed :
        /\ handle[i] # 0
        /\ handle' = [handle EXCEPT ![i] = 0]
        /\ done' = [done EXCEPT ![i] = FALSE] /\ failure' = [failure EXCEPT ![i] = FALSE]
        /\ pos' = [pos EXCEPT ![i] = "abandon"]
        /\ UNCHANGED <<callers, batch, emitted, begun, collected, window, ends>>
  BY DEF Abandon, Goto
<1>2. /\ OutputsTyped /\ Kept(i) /\ DOMAIN done = Windowed /\ DOMAIN failure = Windowed
      /\ pos \in [Windowed -> {"feed", "buffer", "handoff", "begun", "fed", "drain", "abandon"}]
      /\ handle \in [Windowed -> Nat] /\ step \in [Windowed -> 0..(Dispatches + 1)]
      /\ Dispatches \in Nat
  BY LaneConstants DEF OutputsInv, OutputsTyped, Kept
<1>3. /\ handle' \in [Windowed -> Nat] /\ handle'[i] = 0 /\ pos'[i] = "abandon"
      /\ pos' \in [Windowed -> {"feed", "buffer", "handoff", "begun", "fed", "drain", "abandon"}]
      /\ \A j \in Windowed \ {i} : handle'[j] = handle[j] /\ pos'[j] = pos[j]
  BY <1>1, <1>2
<1>4. /\ DOMAIN done' = Windowed /\ DOMAIN failure' = Windowed
      /\ done'[i] = FALSE
      /\ \A j \in Windowed \ {i} : done'[j] = done[j]
  BY <1>1, <1>2, Zenon
<1>5. WindowAt(i)'
  BY <1>1, <1>2, <1>3, <1>4 DEF Kept, WindowAt, window
<1>6. OutputsSoFar(i)'
  BY <1>1, <1>2 DEF Kept, OutputsSoFar, Gathered
<1>7. OutputsEnd(i)'
  BY <1>1, <1>2 DEF Kept, OutputsEnd, callers, ends
<1>8. OutputsTyped'
  BY <1>1, <1>2, <1>3, <1>4 DEF OutputsTyped, callers, window
<1>9. \A j \in Windowed \ {i} : Advanced(j)
  BY <1>1, <1>2, <1>3, <1>4 DEF Advanced, callers, window, ends
<1> QED
  BY <1>5, <1>6, <1>7, <1>8, <1>9, Others DEF Kept

LEMMA AdvanceKeeps ==
  ASSUME OutputsInv, NEW l \in Lane, AbandonAdvances(l)
  PROVE  OutputsInv'
<1>1. PICK i \in Windowed :
        /\ ~Complete(i)
        /\ step' = step \/ step' = [step EXCEPT ![i] = @ + 1]
        /\ UNCHANGED <<callers, iter, wave, ends>>
  BY DEF AbandonAdvances, Dispatch
<1>2. OutputsTyped /\ step \in [Windowed -> 0..(Dispatches + 1)] /\ Dispatches \in Nat
  BY LaneConstants DEF OutputsInv, OutputsTyped
<1>3. step' \in [Windowed -> 0..(Dispatches + 1)] /\ \A j \in Windowed : step'[j] >= step[j]
  BY <1>1, <1>2 DEF Complete
<1>4. OutputsTyped'
  BY <1>1, <1>2, <1>3 DEF OutputsTyped, callers, iter, wave
<1>5. \A j \in Windowed : Advanced(j)
  BY <1>1, <1>2, <1>3 DEF Advanced, callers, iter, wave, ends
<1> QED
  BY <1>4, <1>5, Nobody

\* A caller that is not a windowed stage, or only starts a call, or gives up.
LEMMA CallerKeeps ==
  ASSUME OutputsInv, NEW i \in Stage, NEW l \in Lane,
         PlainCall(l) \/ Calling(i) \/ GivesUp(i)
  PROVE  OutputsInv'
<1>1. OutputsTyped /\ DOMAIN caller = Stage /\ Dispatches \in Nat
      /\ step \in [Windowed -> 0..(Dispatches + 1)] /\ Windowed \subseteq Stage
  BY LaneConstants DEF OutputsInv, OutputsTyped
<1>2. UNCHANGED <<iter, wave, window, cancelled>>
  BY DEF PlainCall, Calling, GivesUp, ends
<1>3. /\ DOMAIN caller' = Stage
      /\ \A j \in Windowed : caller'[j] = "done" /\ ~cancelled' => caller[j] = "done"
  <2>1. CASE PlainCall(l)
    <3>1. PICK m \in Stage \ Windowed :
            caller' = [caller EXCEPT ![m] = IF count[m] + 1 = Calls THEN "done" ELSE "idle"]
      BY <2>1 DEF PlainCall
    <3> QED
      BY <1>1, <3>1
  <2>2. CASE Calling(i)
    BY <1>1, <2>2 DEF Calling
  <2>3. CASE GivesUp(i)
    BY <1>1, <2>3 DEF GivesUp, ends
  <2> QED
    BY <2>1, <2>2, <2>3
<1>4. OutputsTyped'
  BY <1>1, <1>2, <1>3 DEF OutputsTyped, iter, wave, window
<1>5. \A j \in Windowed : Advanced(j)
  BY <1>1, <1>2, <1>3 DEF Advanced, iter, wave, window
<1> QED
  BY <1>4, <1>5, Nobody

\* Every other step leaves what the stages have done alone.
LEMMA StillKeeps ==
  ASSUME OutputsInv, UNCHANGED <<caller, iter, wave, window>>, cancelled => cancelled'
  PROVE  OutputsInv'
<1>1. OutputsTyped /\ Dispatches \in Nat /\ step \in [Windowed -> 0..(Dispatches + 1)]
  BY LaneConstants DEF OutputsInv, OutputsTyped
<1>2. OutputsTyped'
  BY <1>1 DEF OutputsTyped, iter, wave, window
<1>3. \A j \in Windowed : Advanced(j)
  BY <1>1 DEF Advanced, iter, wave, window
<1> QED
  BY <1>2, <1>3, Nobody

LEMMA InitOutputs ==
  ASSUME Init
  PROVE  OutputsInv
<1>1. OutputsTyped
  BY LaneConstants DEF Init, OutputsTyped
<1>2. ASSUME NEW i \in Windowed
      PROVE  Kept(i)
  <2>1. /\ pos[i] = "feed" /\ batch[i] = <<>> /\ emitted[i] = <<>> /\ begun[i] = 0
        /\ handle[i] = 0 /\ done[i] = FALSE /\ collected[i] = 0 /\ step[i] = 0
        /\ i \in Stage /\ caller[i] = "idle"
    BY LaneConstants DEF Init
  <2> QED
    BY <2>1, LaneConstants
    DEF Kept, WindowAt, OutputsSoFar, OutputsEnd, Gathered, OutputsAfter
<1> QED
  BY <1>1, <1>2 DEF OutputsInv, Kept

LEMMA OutputsStep ==
  ASSUME OutputsInv, [Next]_vars
  PROVE  OutputsInv'
<1> USE DEF lanes, callers, native, ends
<1>1. ASSUME NEW l \in Lane, LaneStep(l) \/ Ripen(l) \/ Polls(l)
      PROVE  OutputsInv'
  <2>1. CASE Take(l) \/ LaneEnds(l) \/ AcquirePermit(l) \/ WaitOver(l) \/ Ripen(l) \/ CloseEnds(l)
    BY <2>1, StillKeeps DEF Take, LaneEnds, AcquirePermit, WaitOver, Ripen, CloseEnds
  <2>2. CASE Polls(l)
    BY <2>2, StillKeeps DEF Polls, vars
  <2>3. CASE PlainCall(l)
    <3>1. PICK i \in Stage : TRUE
      BY <2>3 DEF PlainCall
    <3> QED
      BY <2>3, <3>1, CallerKeeps
  <2>4. CASE Iterates(l)
    <3>1. PICK i \in Windowed :
            \/ Yield(l, i) \/ FeedPolls(l, i) \/ FeedBuffers(l, i) \/ SubmitFirst(l, i)
            \/ SubmitNext(l, i) \/ HandoffWaits(l, i) \/ HandoffFinishes(l, i) \/ Begun(l, i)
            \/ FeedEnds(l, i) \/ Drains(l, i) \/ FlushEnds(l, i) \/ Raises(l, i)
      BY <2>4 DEF Iterates
    <3> QED
      BY <3>1, YieldKeeps, CollectKeeps, BeginKeeps, MoveKeeps
  <2>5. CASE Progress(l) \/ Abandon(l) \/ AbandonAdvances(l)
    BY <2>5, ProgressKeeps, AbandonKeeps, AdvanceKeeps
  <2> QED
    BY <1>1, <2>1, <2>2, <2>3, <2>4, <2>5 DEF LaneStep
<1>2. ASSUME NEW i \in Stage, StageStep(i)
      PROVE  OutputsInv'
  <2>1. PICK l \in Lane : TRUE
    BY LaneConstants
  <2> QED
    BY <1>2, <2>1, CallerKeeps DEF StageStep
<1>3. ASSUME NEW i \in Windowed, NativeStep(i) \/ WaiterStep(i)
      PROVE  OutputsInv'
  <2>1. CASE NativeStep(i)
    BY <2>1, StillKeeps DEF NativeStep, WorkerFinishes
  <2>2. CASE WaiterStep(i)
    BY <2>2, WaitKeeps DEF WaiterStep
  <2> QED
    BY <1>3, <2>1, <2>2
<1>4. CASE MainStep \/ Cancel
  <2>1. CASE Cancel
    BY <2>1, StillKeeps DEF Cancel
  <2>2. CASE MainStep
    <3>1. CASE MainJoins \/ MainCloses \/ Shutdown
      <4>1. UNCHANGED <<caller, iter, wave, window>> /\ cancelled' = cancelled
        BY <3>1 DEF MainJoins, MainCloses, Shutdown
      <4> QED
        BY <4>1, StillKeeps
    <3>2. ASSUME NEW l \in Lane, StopLane(l)
          PROVE  OutputsInv'
      BY <3>2, StillKeeps DEF StopLane
    <3> QED
      BY <2>2, <3>1, <3>2 DEF MainStep
  <2> QED
    BY <1>4, <2>1, <2>2
<1>5. CASE Ended \/ UNCHANGED vars
  BY <1>5, StillKeeps DEF Ended, vars
<1> QED
  BY <1>1, <1>2, <1>3, <1>4, <1>5 DEF Next

\* A windowed stage yields every output of every window once and in order,
\* however its progress is cut into callbacks, waits and nested turns of its
\* lane, and all of them when it ends without a failure: for every number of
\* stages, lanes, permits, windows, inputs and dispatches.
THEOREM OutputsAreInOrder == Spec => []OutputsInOrder
<1>1. OutputsInv => OutputsInOrder
  <2> SUFFICES ASSUME OutputsInv, NEW i \in Windowed
               PROVE  /\ \A n \in DOMAIN emitted[i] : emitted[i][n] = Output(n)
                      /\ caller[i] = "done" /\ ~cancelled
                           => Len(emitted[i]) = Windows * (Dispatches + 1)
    BY DEF OutputsInOrder
  <2>1. /\ WindowAt(i) /\ OutputsSoFar(i) /\ OutputsEnd(i)
        /\ Windows \in Nat \ {0} /\ Dispatches \in Nat /\ Len(emitted[i]) \in Nat
    BY LaneConstants DEF OutputsInv, OutputsTyped
  <2>2. ASSUME caller[i] = "done", ~cancelled
        PROVE  Len(emitted[i]) = Windows * (Dispatches + 1)
    <3>1. pos[i] = "drain" /\ handle[i] = 0 /\ batch[i] = <<>>
      BY <2>1, <2>2 DEF OutputsEnd
    <3>2. begun[i] = Windows /\ collected[i] = Dispatches + 1
      BY <2>1, <3>1 DEF WindowAt
    <3>3. Len(emitted[i]) = (Windows - 1) * (Dispatches + 1) + (Dispatches + 1)
      BY <2>1, <3>1, <3>2 DEF OutputsSoFar, Gathered
    <3>4. Windows \in Nat \ {0} /\ Dispatches + 1 \in Nat
      BY <2>1
    <3>5. (Windows - 1) * (Dispatches + 1) + (Dispatches + 1) = Windows * (Dispatches + 1)
      BY ONLY <3>4, Product
    <3> QED
      BY <3>3, <3>5
  <2> QED
    BY <2>1, <2>2 DEF OutputsSoFar
<1> QED
  BY <1>1, InitOutputs, OutputsStep, PTL DEF Spec

\* A nonempty set of naturals has a least element.
LEMMA Least ==
  ASSUME NEW T, T \subseteq Nat, T # {}
  PROVE  \E x \in T : \A y \in T : x <= y
<1> DEFINE R == {ss \in Nat \X Nat : ss[1] < ss[2]}
<1>1. IsWellFoundedOn(R, Nat)
  BY NatLessThanWellFounded DEF OpToRel
<1>2. PICK x \in T : \A y \in T : ~(<<y, x>> \in R)
  <2> HIDE DEF R
  <2> QED
    BY <1>1, WFMin
<1>3. \A y \in T : ~(y < x)
  BY <1>2
<1> QED
  BY <1>3

-----------------------------------------------------------------------------
(* Jobs on a lane *)

Kind  == {"call", "progress", "close", "stop"}
Job   == [kind : Kind, stage : Nat, window : Nat]
Item  == [job : Job, ripe : BOOLEAN]
Frame == [job : Job, got : Nat, at : {"run", "permits", "wait"}]

\* A sequence of items or callbacks has a job of this kind for the stage, and
\* it has no two jobs of one kind for one stage.
Holds(q, kind, i) == \E n \in DOMAIN q : q[n].job.kind = kind /\ q[n].job.stage = i
Single(q) ==
  \A m, n \in DOMAIN q :
    q[m].job.kind = q[n].job.kind /\ q[m].job.stage = q[n].job.stage => m = n

\* A job is for a stage of its lane; the job that stops the lane is for none.
JobAt(l, job) ==
  IF job.kind = "stop" THEN job.stage = 0
  ELSE /\ job.stage \in Stage /\ LaneOf[job.stage] = l
       /\ job.kind = "progress" => job.stage \in Windowed /\ job.window # 0

\* A stage has at most one call, one progress callback and one close, waiting
\* in the queue q of its lane or under way on its stack s; a callback is
\* suspended only in a call; the stop job is the last to become due.
Placed(l, q, s) ==
  /\ Single(q) /\ Single(s)
  /\ \A kind, i : ~(Holds(q, kind, i) /\ Holds(s, kind, i))
  /\ \A n \in DOMAIN q : JobAt(l, q[n].job)
  /\ \A n \in DOMAIN s : /\ JobAt(l, s[n].job) /\ s[n].job.kind # "stop"
                         /\ s[n].at = "wait" => s[n].job.kind = "call"
  /\ \A n \in DOMAIN q :
       q[n].job.kind = "stop" /\ q[n].ripe => \A m \in DOMAIN q : q[m].ripe

\* Appending a job that the sequence has not.
LEMMA Appending ==
  ASSUME NEW S, NEW q \in Seq(S), NEW e \in S, Single(q), ~Holds(q, e.job.kind, e.job.stage)
  PROVE  /\ Append(q, e) \in Seq(S) /\ Single(Append(q, e))
         /\ \A kind, i : Holds(Append(q, e), kind, i)
                           <=> Holds(q, kind, i) \/ (kind = e.job.kind /\ i = e.job.stage)
         /\ \A n \in DOMAIN Append(q, e) :
              Append(q, e)[n] = e \/ \E m \in DOMAIN q : Append(q, e)[n] = q[m]
<1> DEFINE a == Append(q, e)
<1>1. /\ a \in Seq(S) /\ Len(q) \in Nat /\ Len(a) = Len(q) + 1
      /\ \A j \in 1..Len(q) : a[j] = q[j]
      /\ a[Len(q) + 1] = e
  OBVIOUS
<1> HIDE DEF a
<1>2. DOMAIN a = 1..(Len(q) + 1) /\ DOMAIN q = 1..Len(q)
  BY <1>1
<1>3. Single(a)
  BY <1>1, <1>2 DEF Single, Holds
<1>4. \A kind, i : Holds(a, kind, i) <=> Holds(q, kind, i) \/ (kind = e.job.kind /\ i = e.job.stage)
  BY <1>1, <1>2 DEF Holds
<1>5. \A n \in DOMAIN a : a[n] = e \/ \E m \in DOMAIN q : a[n] = q[m]
  BY <1>1, <1>2
<1> QED
  BY <1>1, <1>3, <1>4, <1>5 DEF a

\* What is left of a sequence when an element is removed.
LEMMA Removal ==
  ASSUME NEW S, NEW s \in Seq(S), NEW i \in 1..Len(s)
  PROVE  /\ RemoveAt(s, i) \in Seq(S) /\ Len(RemoveAt(s, i)) = Len(s) - 1
         /\ \A j \in 1..(Len(s) - 1) : RemoveAt(s, i)[j] = IF j < i THEN s[j] ELSE s[j + 1]
<1> DEFINE a == SubSeq(s, 1, i - 1)
           b == SubSeq(s, i + 1, Len(s))
<1>1. a \in Seq(S) /\ Len(a) = i - 1 /\ \A j \in 1..(i - 1) : a[j] = s[j]
  OBVIOUS
<1>2. b \in Seq(S) /\ Len(b) = Len(s) - i /\ \A j \in 1..(Len(s) - i) : b[j] = s[j + i]
  OBVIOUS
<1>3. RemoveAt(s, i) = a \o b
  BY DEF RemoveAt
<1> HIDE DEF a, b
<1>4. a \o b \in Seq(S) /\ Len(a \o b) = Len(s) - 1
  <2>1. a \in Seq(S) /\ b \in Seq(S) /\ Len(a) = i - 1 /\ Len(b) = Len(s) - i
    BY <1>1, <1>2
  <2>2. a \o b \in Seq(S)
    BY ONLY <2>1
  <2>3. Len(a \o b) = Len(a) + Len(b)
    BY ONLY <2>1
  <2> QED
    BY <2>1, <2>2, <2>3
<1>5. ASSUME NEW j \in 1..(Len(s) - 1), j < i
      PROVE  (a \o b)[j] = s[j]
  BY <1>1, <1>2, <1>5
<1>6. ASSUME NEW j \in 1..(Len(s) - 1), ~(j < i)
      PROVE  (a \o b)[j] = s[j + 1]
  <2>1. (a \o b)[j] = b[j - (i - 1)] /\ j - (i - 1) \in 1..(Len(s) - i)
    BY <1>1, <1>2, <1>6
  <2> QED
    BY <1>2, <2>1
<1> QED
  BY <1>3, <1>4, <1>5, <1>6

\* Removing a job from a sequence that has it once.
LEMMA Removing ==
  ASSUME NEW S, NEW q \in Seq(S), NEW n \in DOMAIN q, Single(q)
  PROVE  /\ RemoveAt(q, n) \in Seq(S) /\ Single(RemoveAt(q, n))
         /\ \A kind, i : Holds(RemoveAt(q, n), kind, i)
              <=> Holds(q, kind, i) /\ ~(kind = q[n].job.kind /\ i = q[n].job.stage)
         /\ \A m \in DOMAIN RemoveAt(q, n) : \E o \in DOMAIN q : RemoveAt(q, n)[m] = q[o]
<1> DEFINE r == RemoveAt(q, n)
<1>1. n \in 1..Len(q) /\ DOMAIN q = 1..Len(q) /\ Len(q) \in Nat
  OBVIOUS
<1>2. /\ r \in Seq(S) /\ Len(r) = Len(q) - 1
      /\ \A j \in 1..(Len(q) - 1) : r[j] = IF j < n THEN q[j] ELSE q[j + 1]
  BY <1>1, Removal
<1> HIDE DEF r
<1>3. DOMAIN r = 1..(Len(q) - 1)
  BY <1>1, <1>2
<1>4. Single(r)
  <2> SUFFICES ASSUME NEW i \in DOMAIN r, NEW j \in DOMAIN r,
                      r[i].job.kind = r[j].job.kind, r[i].job.stage = r[j].job.stage
               PROVE  i = j
    BY DEF Single
  <2> DEFINE from(m) == IF m < n THEN m ELSE m + 1
  <2>1. /\ from(i) \in DOMAIN q /\ r[i] = q[from(i)]
        /\ from(j) \in DOMAIN q /\ r[j] = q[from(j)]
    BY <1>1, <1>2, <1>3
  <2>2. from(i) = from(j)
    <3> HIDE DEF from
    <3> QED
      BY <2>1 DEF Single
  <2> QED
    BY <1>1, <1>3, <2>2
<1>5. ASSUME NEW m \in DOMAIN q, m # n
      PROVE  \E j \in DOMAIN r : r[j] = q[m]
  <2>1. CASE m < n
    <3>1. m \in DOMAIN r /\ r[m] = q[m]
      BY <1>1, <1>2, <1>3, <1>5, <2>1
    <3> QED
      BY <3>1
  <2>2. CASE m > n
    <3>1. m - 1 \in DOMAIN r /\ r[m - 1] = q[m]
      BY <1>1, <1>2, <1>3, <1>5, <2>2
    <3> QED
      BY <3>1
  <2> QED
    BY <1>1, <1>5, <2>1, <2>2
<1>6. ASSUME NEW j \in DOMAIN r
      PROVE  \E m \in DOMAIN q \ {n} : r[j] = q[m]
  <2>1. CASE j < n
    <3>1. j \in DOMAIN q \ {n} /\ r[j] = q[j]
      BY <1>1, <1>2, <1>3, <1>6, <2>1
    <3> QED
      BY <3>1
  <2>2. CASE ~(j < n)
    <3>1. j + 1 \in DOMAIN q \ {n} /\ r[j] = q[j + 1]
      BY <1>1, <1>2, <1>3, <1>6, <2>2
    <3> QED
      BY <3>1
  <2> QED
    BY <2>1, <2>2
<1>7. \A m \in DOMAIN q :
        q[m].job.kind = q[n].job.kind /\ q[m].job.stage = q[n].job.stage => m = n
  BY DEF Single
<1>8. \A kind, i : Holds(r, kind, i)
        <=> Holds(q, kind, i) /\ ~(kind = q[n].job.kind /\ i = q[n].job.stage)
  BY <1>5, <1>6, <1>7 DEF Holds
<1> QED
  BY <1>2, <1>4, <1>6, <1>8 DEF r

\* Removing the last job.
LEMMA Dropping ==
  ASSUME NEW S, NEW q \in Seq(S), q # <<>>, Single(q)
  PROVE  /\ Front(q) \in Seq(S) /\ Single(Front(q)) /\ Last(q) \in S
         /\ Holds(q, Last(q).job.kind, Last(q).job.stage)
         /\ \A kind, i : Holds(Front(q), kind, i)
              <=> Holds(q, kind, i) /\ ~(kind = Last(q).job.kind /\ i = Last(q).job.stage)
         /\ \A m \in DOMAIN Front(q) : m \in DOMAIN q /\ Front(q)[m] = q[m]
<1> DEFINE r == Front(q)
           n == Len(q)
<1>1. n \in Nat \ {0} /\ n \in DOMAIN q /\ DOMAIN q = 1..n /\ Last(q) = q[n] /\ q[n] \in S
  BY DEF Last
<1>2. r \in Seq(S) /\ DOMAIN r = 1..(n - 1) /\ \A j \in 1..(n - 1) : r[j] = q[j]
  BY <1>1 DEF Front
<1> HIDE DEF r, n
<1>3. Single(r)
  BY <1>1, <1>2 DEF Single
<1>4. \A kind, i : Holds(r, kind, i)
        <=> Holds(q, kind, i) /\ ~(kind = q[n].job.kind /\ i = q[n].job.stage)
  <2>1. \A j \in DOMAIN q : j \in DOMAIN r \/ j = n
    BY <1>1, <1>2
  <2>2. \A j \in DOMAIN r : j \in DOMAIN q /\ j # n /\ r[j] = q[j]
    BY <1>1, <1>2
  <2>3. \A j \in DOMAIN q :
          q[j].job.kind = q[n].job.kind /\ q[j].job.stage = q[n].job.stage => j = n
    BY <1>1 DEF Single
  <2> QED
    BY <2>1, <2>2, <2>3 DEF Holds
<1>5. Holds(q, q[n].job.kind, q[n].job.stage)
  BY <1>1 DEF Holds
<1> QED
  BY <1>1, <1>2, <1>3, <1>4, <1>5 DEF r

\* Changing an element, but not its job.
LEMMA Changing ==
  ASSUME NEW S, NEW q \in Seq(S), Single(q), NEW n \in DOMAIN q, NEW e \in S, e.job = q[n].job
  PROVE  /\ [q EXCEPT ![n] = e] \in Seq(S) /\ Single([q EXCEPT ![n] = e])
         /\ DOMAIN [q EXCEPT ![n] = e] = DOMAIN q
         /\ \A m \in DOMAIN q : [q EXCEPT ![n] = e][m] = IF m = n THEN e ELSE q[m]
         /\ \A kind, i : Holds([q EXCEPT ![n] = e], kind, i) <=> Holds(q, kind, i)
<1> DEFINE r == [q EXCEPT ![n] = e]
<1>1. /\ r \in Seq(S) /\ DOMAIN r = DOMAIN q
      /\ \A m \in DOMAIN q : r[m] = IF m = n THEN e ELSE q[m]
  OBVIOUS
<1> HIDE DEF r
<1>2. \A m \in DOMAIN q : r[m].job = q[m].job
  BY <1>1
<1>3. Single(r) /\ \A kind, i : Holds(r, kind, i) <=> Holds(q, kind, i)
  BY <1>1, <1>2 DEF Single, Holds
<1> QED
  BY <1>1, <1>3 DEF r

\* A job is submitted to a lane.
LEMMA Queued ==
  ASSUME NEW l, NEW q \in Seq(Item), NEW s \in Seq(Frame), Placed(l, q, s),
         NEW e \in Item, JobAt(l, e.job),
         ~Holds(q, e.job.kind, e.job.stage), ~Holds(s, e.job.kind, e.job.stage),
         ~Holds(q, "stop", 0),
         e.job.kind = "stop" /\ e.ripe => \A n \in DOMAIN q : q[n].ripe
  PROVE  /\ Append(q, e) \in Seq(Item) /\ Placed(l, Append(q, e), s)
         /\ \A kind, i : Holds(Append(q, e), kind, i)
                           <=> Holds(q, kind, i) \/ (kind = e.job.kind /\ i = e.job.stage)
<1>1. Single(q) /\ Single(s)
  BY DEF Placed
<1>2. /\ Append(q, e) \in Seq(Item) /\ Single(Append(q, e))
      /\ \A kind, i : Holds(Append(q, e), kind, i)
                        <=> Holds(q, kind, i) \/ (kind = e.job.kind /\ i = e.job.stage)
      /\ \A n \in DOMAIN Append(q, e) :
           Append(q, e)[n] = e \/ \E m \in DOMAIN q : Append(q, e)[n] = q[m]
  BY <1>1, Appending
<1> DEFINE r == Append(q, e)
<1> HIDE DEF r
<1>3. \A kind, i : ~(Holds(r, kind, i) /\ Holds(s, kind, i))
  BY <1>2 DEF Placed, r
<1>4. \A n \in DOMAIN r : JobAt(l, r[n].job)
  BY <1>2 DEF Placed, r
<1>5. \A n \in DOMAIN q : q[n].job.kind # "stop"
  BY DEF Placed, Holds, JobAt
<1>6. \A n \in DOMAIN r : r[n].job.kind = "stop" /\ r[n].ripe => \A m \in DOMAIN r : r[m].ripe
  BY <1>2, <1>5 DEF r
<1>7. Placed(l, r, s)
  BY <1>1, <1>2, <1>3, <1>4, <1>6 DEF Placed, r
<1> QED
  BY <1>2, <1>7 DEF r

\* A job is taken from the queue.
LEMMA Dequeued ==
  ASSUME NEW l, NEW q \in Seq(Item), NEW s \in Seq(Frame), Placed(l, q, s), NEW n \in DOMAIN q
  PROVE  /\ RemoveAt(q, n) \in Seq(Item) /\ Placed(l, RemoveAt(q, n), s)
         /\ \A kind, i : Holds(RemoveAt(q, n), kind, i)
              <=> Holds(q, kind, i) /\ ~(kind = q[n].job.kind /\ i = q[n].job.stage)
<1> DEFINE r == RemoveAt(q, n)
<1>1. /\ r \in Seq(Item) /\ Single(r)
      /\ \A kind, i : Holds(r, kind, i)
           <=> Holds(q, kind, i) /\ ~(kind = q[n].job.kind /\ i = q[n].job.stage)
      /\ \A m \in DOMAIN r : \E o \in DOMAIN q : r[m] = q[o]
  BY Removing DEF Placed
<1> HIDE DEF r
<1>2. \A m \in DOMAIN r : JobAt(l, r[m].job)
  BY <1>1 DEF Placed
<1>3. \A m \in DOMAIN r : r[m].job.kind = "stop" /\ r[m].ripe => \A o \in DOMAIN r : r[o].ripe
  BY <1>1 DEF Placed
<1>4. \A kind, i : ~(Holds(r, kind, i) /\ Holds(s, kind, i))
  BY <1>1 DEF Placed
<1>5. Placed(l, r, s)
  BY <1>1, <1>2, <1>3, <1>4 DEF Placed
<1> QED
  BY <1>1, <1>5 DEF r

\* A callback starts on top of the others.
LEMMA Started ==
  ASSUME NEW l, NEW q \in Seq(Item), NEW s \in Seq(Frame), Placed(l, q, s),
         NEW f \in Frame, JobAt(l, f.job), f.job.kind # "stop", f.at # "wait",
         ~Holds(q, f.job.kind, f.job.stage), ~Holds(s, f.job.kind, f.job.stage)
  PROVE  /\ Append(s, f) \in Seq(Frame) /\ Placed(l, q, Append(s, f))
         /\ \A kind, i : Holds(Append(s, f), kind, i)
                           <=> Holds(s, kind, i) \/ (kind = f.job.kind /\ i = f.job.stage)
<1>1. Single(q) /\ Single(s)
  BY DEF Placed
<1> DEFINE r == Append(s, f)
<1>2. /\ r \in Seq(Frame) /\ Single(r)
      /\ \A kind, i : Holds(r, kind, i)
                        <=> Holds(s, kind, i) \/ (kind = f.job.kind /\ i = f.job.stage)
      /\ \A n \in DOMAIN r : r[n] = f \/ \E m \in DOMAIN s : r[n] = s[m]
  BY <1>1, Appending
<1> HIDE DEF r
<1>3. \A kind, i : ~(Holds(q, kind, i) /\ Holds(r, kind, i))
  BY <1>2 DEF Placed
<1>4. \A n \in DOMAIN r : /\ JobAt(l, r[n].job) /\ r[n].job.kind # "stop"
                          /\ r[n].at = "wait" => r[n].job.kind = "call"
  BY <1>2 DEF Placed
<1>5. Placed(l, q, r)
  BY <1>1, <1>2, <1>3, <1>4 DEF Placed
<1> QED
  BY <1>2, <1>5 DEF r

\* The running callback ends.
LEMMA Left ==
  ASSUME NEW l, NEW q \in Seq(Item), NEW s \in Seq(Frame), Placed(l, q, s), s # <<>>
  PROVE  /\ Front(s) \in Seq(Frame) /\ Placed(l, q, Front(s))
         /\ Last(s) \in Frame /\ JobAt(l, Last(s).job) /\ Last(s).job.kind # "stop"
         /\ Holds(s, Last(s).job.kind, Last(s).job.stage)
         /\ \A kind, i : Holds(Front(s), kind, i)
              <=> Holds(s, kind, i) /\ ~(kind = Last(s).job.kind /\ i = Last(s).job.stage)
<1> DEFINE r == Front(s)
<1>1. /\ r \in Seq(Frame) /\ Single(r) /\ Last(s) \in Frame
      /\ Holds(s, Last(s).job.kind, Last(s).job.stage)
      /\ \A kind, i : Holds(r, kind, i)
           <=> Holds(s, kind, i) /\ ~(kind = Last(s).job.kind /\ i = Last(s).job.stage)
      /\ \A m \in DOMAIN r : m \in DOMAIN s /\ r[m] = s[m]
  BY Dropping DEF Placed
<1> HIDE DEF r
<1>2. \A n \in DOMAIN r : /\ JobAt(l, r[n].job) /\ r[n].job.kind # "stop"
                          /\ r[n].at = "wait" => r[n].job.kind = "call"
  BY <1>1 DEF Placed
<1>3. \A kind, i : ~(Holds(q, kind, i) /\ Holds(r, kind, i))
  BY <1>1 DEF Placed
<1>4. Placed(l, q, r)
  BY <1>1, <1>2, <1>3 DEF Placed
<1>5. JobAt(l, Last(s).job) /\ Last(s).job.kind # "stop"
  <2>1. Len(s) \in DOMAIN s
    OBVIOUS
  <2> QED
    BY <2>1 DEF Placed, Last
<1> QED
  BY <1>1, <1>4, <1>5 DEF r

\* The running callback goes on.
LEMMA Went ==
  ASSUME NEW l, NEW q \in Seq(Item), NEW s \in Seq(Frame), Placed(l, q, s), s # <<>>,
         NEW f \in Frame, f.job = Last(s).job, f.at = "wait" => f.job.kind = "call"
  PROVE  /\ [s EXCEPT ![Len(s)] = f] \in Seq(Frame) /\ Placed(l, q, [s EXCEPT ![Len(s)] = f])
         /\ \A kind, i : Holds([s EXCEPT ![Len(s)] = f], kind, i) <=> Holds(s, kind, i)
<1> DEFINE r == [s EXCEPT ![Len(s)] = f]
<1>1. Len(s) \in DOMAIN s /\ f.job = s[Len(s)].job
  BY DEF Last
<1>2. /\ r \in Seq(Frame) /\ Single(r) /\ DOMAIN r = DOMAIN s
      /\ \A m \in DOMAIN s : r[m] = IF m = Len(s) THEN f ELSE s[m]
      /\ \A kind, i : Holds(r, kind, i) <=> Holds(s, kind, i)
  BY <1>1, Changing DEF Placed
<1> HIDE DEF r
<1>3. \A n \in DOMAIN r : /\ JobAt(l, r[n].job) /\ r[n].job.kind # "stop"
                          /\ r[n].at = "wait" => r[n].job.kind = "call"
  BY <1>1, <1>2 DEF Placed
<1>4. \A kind, i : ~(Holds(q, kind, i) /\ Holds(r, kind, i))
  BY <1>2 DEF Placed
<1>5. Placed(l, q, r)
  BY <1>2, <1>3, <1>4 DEF Placed
<1> QED
  BY <1>2, <1>5 DEF r

\* An item becomes due; the stop item is the last to.
LEMMA Due ==
  ASSUME NEW l, NEW q \in Seq(Item), NEW s \in Seq(Frame), Placed(l, q, s), NEW n \in DOMAIN q,
         q[n].job.kind = "stop" => \A m \in DOMAIN q \ {n} : q[m].ripe
  PROVE  /\ [q EXCEPT ![n].ripe = TRUE] \in Seq(Item) /\ Placed(l, [q EXCEPT ![n].ripe = TRUE], s)
         /\ \A kind, i : Holds([q EXCEPT ![n].ripe = TRUE], kind, i) <=> Holds(q, kind, i)
<1> DEFINE e == [q[n] EXCEPT !.ripe = TRUE]
           r == [q EXCEPT ![n] = e]
<1>1. q[n] \in Item
  OBVIOUS
<1>2. e \in Item /\ e.job = q[n].job /\ e.ripe = TRUE
  BY <1>1 DEF Item
<1>3. [q EXCEPT ![n].ripe = TRUE] = r
  OBVIOUS
<1> HIDE DEF e
<1>4. /\ r \in Seq(Item) /\ Single(r) /\ DOMAIN r = DOMAIN q
      /\ \A m \in DOMAIN q : r[m] = IF m = n THEN e ELSE q[m]
      /\ \A kind, i : Holds(r, kind, i) <=> Holds(q, kind, i)
  BY <1>2, Changing DEF Placed
<1> HIDE DEF r
<1>5. \A m \in DOMAIN r : JobAt(l, r[m].job)
  BY <1>2, <1>4 DEF Placed
<1>6. \A kind, i : ~(Holds(r, kind, i) /\ Holds(s, kind, i))
  BY <1>4 DEF Placed
<1>7. ASSUME NEW m \in DOMAIN r, r[m].job.kind = "stop", r[m].ripe, NEW o \in DOMAIN r
      PROVE  r[o].ripe
  <2>1. CASE m = n
    BY <1>2, <1>4, <1>7, <2>1
  <2>2. CASE m # n
    BY <1>2, <1>4, <1>7, <2>2 DEF Placed
  <2> QED
    BY <2>1, <2>2
<1>8. Placed(l, r, s)
  BY <1>4, <1>5, <1>6, <1>7 DEF Placed
<1> QED
  BY <1>3, <1>4, <1>8

-----------------------------------------------------------------------------
(* Jobs on all lanes *)

LanesInv ==
  /\ items \in [Lane -> Seq(Item)] /\ stack \in [Lane -> Seq(Frame)]
  /\ \A l \in Lane : Placed(l, items[l], stack[l])

\* A lane has a job, waiting or under way.
Has(l, kind, i) == Holds(items[l], kind, i) \/ Holds(stack[l], kind, i)

\* What a step does to the jobs: nothing, one leaves its lane, one is new.
Same == \A m \in Lane : \A kind, i : Has(m, kind, i)' <=> Has(m, kind, i)
Gone(l, k, n) ==
  \A m \in Lane : \A kind, i :
    Has(m, kind, i)' <=> Has(m, kind, i) /\ ~(m = l /\ kind = k /\ i = n)
Come(l, k, n) ==
  \A m \in Lane : \A kind, i :
    Has(m, kind, i)' <=> Has(m, kind, i) \/ (m = l /\ kind = k /\ i = n)

LEMMA LaneMoves ==
  ASSUME LanesInv, NEW l \in Lane, NEW q \in Seq(Item), NEW s \in Seq(Frame), Placed(l, q, s),
         items' = [items EXCEPT ![l] = q], stack' = [stack EXCEPT ![l] = s]
  PROVE  /\ LanesInv'
         /\ \A m \in Lane : \A kind, i :
              Has(m, kind, i)' <=> IF m = l THEN Holds(q, kind, i) \/ Holds(s, kind, i)
                                   ELSE Has(m, kind, i)
<1>1. /\ items' \in [Lane -> Seq(Item)] /\ items'[l] = q
      /\ \A m \in Lane \ {l} : items'[m] = items[m]
  BY DEF LanesInv
<1>2. /\ stack' \in [Lane -> Seq(Frame)] /\ stack'[l] = s
      /\ \A m \in Lane \ {l} : stack'[m] = stack[m]
  BY DEF LanesInv
<1>3. \A m \in Lane : Placed(m, items'[m], stack'[m])
  BY <1>1, <1>2 DEF LanesInv
<1>4. LanesInv'
  BY <1>1, <1>2, <1>3 DEF LanesInv
<1>5. \A m \in Lane : \A kind, i :
        Has(m, kind, i)' <=> IF m = l THEN Holds(q, kind, i) \/ Holds(s, kind, i)
                             ELSE Has(m, kind, i)
  BY <1>1, <1>2 DEF Has
<1> QED
  BY <1>4, <1>5

LEMMA LaneParts ==
  ASSUME LanesInv, NEW l \in Lane
  PROVE  /\ items[l] \in Seq(Item) /\ stack[l] \in Seq(Frame) /\ Placed(l, items[l], stack[l])
         /\ items = [items EXCEPT ![l] = items[l]] /\ stack = [stack EXCEPT ![l] = stack[l]]
BY DEF LanesInv

LEMMA Atop ==
  ASSUME LanesInv, NEW l \in Lane, stack[l] # <<>>
  PROVE  /\ Top(l) \in Frame /\ JobAt(l, Top(l).job) /\ Top(l).job.kind # "stop"
         /\ Has(l, Top(l).job.kind, Top(l).job.stage)
BY LaneParts, Left DEF Top, Has

LEMMA Submits ==
  ASSUME LanesInv, NEW l \in Lane, NEW job \in Job, NEW ripe \in BOOLEAN, JobAt(l, job),
         ~Has(l, job.kind, job.stage), ~Has(l, "stop", 0),
         job.kind = "stop" /\ ripe => \A n \in DOMAIN items[l] : items[l][n].ripe,
         items' = Submitted(l, job, ripe), stack' = stack
  PROVE  LanesInv' /\ Come(l, job.kind, job.stage)
<1> DEFINE e == [job |-> job, ripe |-> ripe]
           q == Append(items[l], e)
<1>1. e \in Item /\ e.job = job /\ e.ripe = ripe
  BY DEF Item
<1>2. /\ items[l] \in Seq(Item) /\ stack[l] \in Seq(Frame) /\ Placed(l, items[l], stack[l])
      /\ stack = [stack EXCEPT ![l] = stack[l]]
  BY LaneParts
<1>3. items' = [items EXCEPT ![l] = q]
  BY DEF Submitted
<1> HIDE DEF e
<1>4. /\ ~Holds(items[l], e.job.kind, e.job.stage) /\ ~Holds(stack[l], e.job.kind, e.job.stage)
      /\ ~Holds(items[l], "stop", 0) /\ JobAt(l, e.job)
      /\ e.job.kind = "stop" /\ e.ripe => \A n \in DOMAIN items[l] : items[l][n].ripe
  BY <1>1 DEF Has
<1>5. /\ q \in Seq(Item) /\ Placed(l, q, stack[l])
      /\ \A kind, i : Holds(q, kind, i)
                        <=> Holds(items[l], kind, i) \/ (kind = job.kind /\ i = job.stage)
  <2>1. /\ Append(items[l], e) \in Seq(Item) /\ Placed(l, Append(items[l], e), stack[l])
        /\ \A kind, i : Holds(Append(items[l], e), kind, i)
                          <=> Holds(items[l], kind, i) \/ (kind = e.job.kind /\ i = e.job.stage)
    BY <1>1, <1>2, <1>4, Queued
  <2> QED
    BY <1>1, <2>1
<1> HIDE DEF q
<1>6. stack' = [stack EXCEPT ![l] = stack[l]]
  BY <1>2
<1>7. /\ LanesInv'
      /\ \A m \in Lane : \A kind, i :
           Has(m, kind, i)' <=> IF m = l THEN Holds(q, kind, i) \/ Holds(stack[l], kind, i)
                                ELSE Has(m, kind, i)
  BY <1>2, <1>3, <1>5, <1>6, LaneMoves
<1>8. \A kind, i : Has(l, kind, i) <=> Holds(items[l], kind, i) \/ Holds(stack[l], kind, i)
  BY DEF Has
<1> QED
  BY <1>5, <1>7, <1>8 DEF Come

LEMMA Leaves ==
  ASSUME LanesInv, NEW l \in Lane, stack[l] # <<>>,
         stack' = [stack EXCEPT ![l] = Front(@)], items' = items
  PROVE  LanesInv' /\ Gone(l, Top(l).job.kind, Top(l).job.stage)
<1>1. /\ items[l] \in Seq(Item) /\ stack[l] \in Seq(Frame) /\ Placed(l, items[l], stack[l])
      /\ items = [items EXCEPT ![l] = items[l]]
  BY LaneParts
<1> DEFINE s == Front(stack[l])
<1>2. /\ s \in Seq(Frame) /\ Placed(l, items[l], s)
      /\ Holds(stack[l], Top(l).job.kind, Top(l).job.stage)
      /\ \A kind, i : Holds(s, kind, i)
           <=> Holds(stack[l], kind, i) /\ ~(kind = Top(l).job.kind /\ i = Top(l).job.stage)
  BY <1>1, Left DEF Top
<1>3. stack' = [stack EXCEPT ![l] = s] /\ items' = [items EXCEPT ![l] = items[l]]
  BY <1>1
<1> HIDE DEF s
<1>4. ~Holds(items[l], Top(l).job.kind, Top(l).job.stage)
  BY <1>1, <1>2 DEF Placed
<1>5. /\ LanesInv'
      /\ \A m \in Lane : \A kind, i :
           Has(m, kind, i)' <=> IF m = l THEN Holds(items[l], kind, i) \/ Holds(s, kind, i)
                                ELSE Has(m, kind, i)
  BY <1>1, <1>2, <1>3, LaneMoves
<1>6. \A kind, i : Has(l, kind, i) <=> Holds(items[l], kind, i) \/ Holds(stack[l], kind, i)
  BY DEF Has
<1> QED
  BY <1>2, <1>4, <1>5, <1>6 DEF Gone

\* A callback that submits itself again.
LEMMA Again ==
  ASSUME LanesInv, NEW l \in Lane, stack[l] # <<>>, Top(l).job.kind = "progress",
         ~Has(l, "stop", 0),
         NEW job \in Job, job.kind = "progress", job.stage = Top(l).job.stage, job.window # 0,
         NEW ripe \in BOOLEAN,
         stack' = [stack EXCEPT ![l] = Front(@)], items' = Submitted(l, job, ripe)
  PROVE  LanesInv' /\ Same
<1>1. /\ items[l] \in Seq(Item) /\ stack[l] \in Seq(Frame) /\ Placed(l, items[l], stack[l])
  BY LaneParts
<1> DEFINE s == Front(stack[l])
           e == [job |-> job, ripe |-> ripe]
           q == Append(items[l], e)
<1>2. /\ s \in Seq(Frame) /\ Placed(l, items[l], s) /\ JobAt(l, Top(l).job)
      /\ Holds(stack[l], Top(l).job.kind, Top(l).job.stage)
      /\ \A kind, i : Holds(s, kind, i)
           <=> Holds(stack[l], kind, i) /\ ~(kind = Top(l).job.kind /\ i = Top(l).job.stage)
  BY <1>1, Left DEF Top
<1>3. stack' = [stack EXCEPT ![l] = s] /\ items' = [items EXCEPT ![l] = q]
  BY <1>1 DEF Submitted
<1>4. e \in Item /\ e.job = job /\ JobAt(l, job)
  BY <1>2 DEF Item, JobAt
<1> HIDE DEF s, e
<1>5. ~Holds(items[l], job.kind, job.stage) /\ ~Holds(s, job.kind, job.stage)
  BY <1>1, <1>2 DEF Placed
<1>6. ~Holds(items[l], "stop", 0)
  BY DEF Has
<1>7. /\ q \in Seq(Item) /\ Placed(l, q, s)
      /\ \A kind, i : Holds(q, kind, i)
                        <=> Holds(items[l], kind, i) \/ (kind = job.kind /\ i = job.stage)
  <2>1. /\ ~Holds(items[l], e.job.kind, e.job.stage) /\ ~Holds(s, e.job.kind, e.job.stage)
        /\ JobAt(l, e.job) /\ e.job.kind # "stop" /\ e \in Item
        /\ e.job.kind = "stop" /\ e.ripe => \A n \in DOMAIN items[l] : items[l][n].ripe
        /\ items[l] \in Seq(Item) /\ s \in Seq(Frame) /\ Placed(l, items[l], s)
        /\ ~Holds(items[l], "stop", 0)
    BY <1>1, <1>2, <1>4, <1>5, <1>6
  <2>2. /\ Append(items[l], e) \in Seq(Item) /\ Placed(l, Append(items[l], e), s)
        /\ \A kind, i : Holds(Append(items[l], e), kind, i)
                          <=> Holds(items[l], kind, i) \/ (kind = e.job.kind /\ i = e.job.stage)
    BY ONLY <2>1, Queued
  <2> QED
    BY <1>4, <2>2
<1> HIDE DEF q
<1>8. /\ LanesInv'
      /\ \A m \in Lane : \A kind, i :
           Has(m, kind, i)' <=> IF m = l THEN Holds(q, kind, i) \/ Holds(s, kind, i)
                                ELSE Has(m, kind, i)
  BY <1>2, <1>3, <1>7, LaneMoves
<1>9. \A kind, i : Has(l, kind, i) <=> Holds(items[l], kind, i) \/ Holds(stack[l], kind, i)
  BY DEF Has
<1> QED
  BY <1>2, <1>7, <1>8, <1>9 DEF Same

LEMMA GoesOn ==
  ASSUME LanesInv, NEW l \in Lane, stack[l] # <<>>,
         NEW f \in Frame, f.job = Top(l).job, f.at = "wait" => f.job.kind = "call",
         stack' = [stack EXCEPT ![l][Len(stack[l])] = f], items' = items
  PROVE  LanesInv' /\ Same
<1>1. /\ items[l] \in Seq(Item) /\ stack[l] \in Seq(Frame) /\ Placed(l, items[l], stack[l])
      /\ items = [items EXCEPT ![l] = items[l]]
  BY LaneParts
<1> DEFINE s == [stack[l] EXCEPT ![Len(stack[l])] = f]
<1>2. /\ s \in Seq(Frame) /\ Placed(l, items[l], s)
      /\ \A kind, i : Holds(s, kind, i) <=> Holds(stack[l], kind, i)
  BY <1>1, Went DEF Top
<1>3. stack' = [stack EXCEPT ![l] = s] /\ items' = [items EXCEPT ![l] = items[l]]
  BY <1>1
<1> HIDE DEF s
<1>4. /\ LanesInv'
      /\ \A m \in Lane : \A kind, i :
           Has(m, kind, i)' <=> IF m = l THEN Holds(items[l], kind, i) \/ Holds(s, kind, i)
                                ELSE Has(m, kind, i)
  BY ONLY LanesInv, <1>1, <1>2, <1>3, LaneMoves
<1>5. \A kind, i : Has(l, kind, i) <=> Holds(items[l], kind, i) \/ Holds(stack[l], kind, i)
  BY DEF Has
<1> QED
  BY ONLY <1>2, <1>4, <1>5 DEF Same

\* A lane runs an item that is due, and the stop item only when it is the last.
LEMMA Choosing ==
  ASSUME LanesInv, NEW l \in Lane, Ripe(l) # {}
  PROVE  /\ Chosen(l) \in Ripe(l) /\ Chosen(l) \in DOMAIN items[l]
         /\ \A o \in Ripe(l) : items[l][Chosen(l)].job.stage >= items[l][o].job.stage
<1> DEFINE R == Ripe(l)
           stageOf(n) == items[l][n].job.stage
           P(n) == \A o \in R : stageOf(n) > stageOf(o) \/ (stageOf(n) = stageOf(o) /\ n <= o)
<1>1. /\ items[l] \in Seq(Item) /\ R \subseteq DOMAIN items[l] /\ R \subseteq Nat
      /\ \A n \in R : items[l][n].job \in Job /\ JobAt(l, items[l][n].job)
  <2>1. items[l] \in Seq(Item) /\ Placed(l, items[l], stack[l])
    BY LaneParts
  <2>2. R \subseteq DOMAIN items[l] /\ DOMAIN items[l] \subseteq Nat
    BY <2>1 DEF Ripe
  <2>3. ASSUME NEW n \in DOMAIN items[l]
        PROVE  items[l][n].job \in Job /\ JobAt(l, items[l][n].job)
    <3>1. items[l][n] \in Item
      BY <2>1
    <3> QED
      BY <2>1, <3>1 DEF Placed, Item
  <2> HIDE DEF R
  <2> QED
    BY <2>1, <2>2, <2>3
<1>2. N \in Nat /\ \A n \in R : stageOf(n) \in 0..N
  BY <1>1, LaneConstants DEF JobAt, Stage, Job
<1> HIDE DEF R
<1>3. \E n \in R : P(n)
  <2> DEFINE distance == {N - stageOf(n) : n \in R}
  <2>1. distance \subseteq Nat /\ distance # {}
    BY <1>2 DEF R
  <2>2. \E x \in distance : \A y \in distance : x <= y
    <3> HIDE DEF distance
    <3> QED
      BY <2>1, Least
  <2>3. PICK m \in R : \A o \in R : N - stageOf(m) <= N - stageOf(o)
    BY <2>2
  <2>4. \A o \in R : stageOf(m) >= stageOf(o)
    <3> HIDE DEF stageOf
    <3> QED
      BY <1>2, <2>3
  <2> DEFINE T == {n \in R : stageOf(n) = stageOf(m)}
  <2>5. T \subseteq Nat /\ T # {}
    BY <1>1
  <2>6. \E x \in T : \A y \in T : x <= y
    <3> HIDE DEF T
    <3> QED
      BY <2>5, Least
  <2>7. PICK n \in T : \A y \in T : n <= y
    BY <2>6
  <2>8. n \in R /\ stageOf(n) = stageOf(m)
    BY <2>7
  <2>9. ASSUME NEW o \in R
        PROVE  stageOf(n) > stageOf(o) \/ (stageOf(n) = stageOf(o) /\ n <= o)
    <3>1. stageOf(n) >= stageOf(o)
      BY <2>4, <2>8
    <3>2. CASE stageOf(o) = stageOf(m)
      BY <2>7, <2>8, <2>9, <3>2
    <3>3. CASE stageOf(o) # stageOf(m)
      <4>1. stageOf(n) \in Nat /\ stageOf(o) \in Nat /\ stageOf(n) # stageOf(o)
        BY <1>2, <2>8, <2>9, <3>3
      <4> HIDE DEF stageOf
      <4> QED
        BY <3>1, <4>1
    <3> QED
      BY <3>2, <3>3
  <2> QED
    BY <2>8, <2>9
<1>4. Chosen(l) = CHOOSE n \in R : P(n)
  BY DEF Chosen, R
<1>5. Chosen(l) \in R /\ P(Chosen(l))
  <2> HIDE DEF P
  <2> QED
    BY <1>3, <1>4
<1>6. \A o \in R : stageOf(Chosen(l)) >= stageOf(o)
  <2>1. \A o \in R : /\ stageOf(Chosen(l)) \in Nat /\ stageOf(o) \in Nat
                     /\ stageOf(Chosen(l)) > stageOf(o) \/ stageOf(Chosen(l)) = stageOf(o)
    BY <1>2, <1>5
  <2> HIDE DEF stageOf
  <2> QED
    BY <2>1
<1> QED
  BY <1>1, <1>5, <1>6 DEF R

LEMMA Takes ==
  ASSUME LanesInv, NEW l \in Lane, Take(l)
  PROVE  LanesInv' /\ Same
<1> DEFINE n == Chosen(l)
           job == items[l][n].job
           f == [job |-> job, got |-> 0, at |-> IF Claim(job) = <<>> THEN "run" ELSE "permits"]
           q == RemoveAt(items[l], n)
           s == Append(stack[l], f)
<1>1. /\ Ripe(l) # {} /\ job.kind # "stop"
      /\ stack' = [stack EXCEPT ![l] = s] /\ items' = [items EXCEPT ![l] = q]
  BY DEF Take
<1>2. n \in DOMAIN items[l]
  BY <1>1, Choosing
<1>3. /\ items[l] \in Seq(Item) /\ stack[l] \in Seq(Frame) /\ Placed(l, items[l], stack[l])
  BY LaneParts
<1> HIDE DEF n
<1>4. items[l][n] \in Item /\ JobAt(l, job)
  BY <1>2, <1>3 DEF Placed
<1>5. f \in Frame /\ f.job = job /\ f.at # "wait"
  BY <1>4 DEF Frame, Item
<1>6. /\ q \in Seq(Item) /\ Placed(l, q, stack[l])
      /\ \A kind, i : Holds(q, kind, i)
           <=> Holds(items[l], kind, i) /\ ~(kind = job.kind /\ i = job.stage)
  BY <1>2, <1>3, Dequeued
<1>7. Holds(items[l], job.kind, job.stage)
  BY <1>2 DEF Holds
<1>8. ~Holds(q, job.kind, job.stage) /\ ~Holds(stack[l], job.kind, job.stage)
  BY <1>3, <1>6, <1>7 DEF Placed
<1> HIDE DEF f, job
<1>9. /\ s \in Seq(Frame) /\ Placed(l, q, s)
      /\ \A kind, i : Holds(s, kind, i)
                        <=> Holds(stack[l], kind, i) \/ (kind = job.kind /\ i = job.stage)
  <2>1. /\ JobAt(l, f.job) /\ f.job.kind # "stop"
        /\ ~Holds(q, f.job.kind, f.job.stage) /\ ~Holds(stack[l], f.job.kind, f.job.stage)
    BY <1>1, <1>4, <1>5, <1>8
  <2> HIDE DEF q
  <2>2. /\ Append(stack[l], f) \in Seq(Frame) /\ Placed(l, q, Append(stack[l], f))
        /\ \A kind, i : Holds(Append(stack[l], f), kind, i)
                          <=> Holds(stack[l], kind, i) \/ (kind = f.job.kind /\ i = f.job.stage)
    BY ONLY <1>3, <1>5, <1>6, <2>1, Started, Z3T(60)
  <2> QED
    BY <1>5, <2>2
<1> HIDE DEF q, s
<1>10. /\ LanesInv'
       /\ \A m \in Lane : \A kind, i :
            Has(m, kind, i)' <=> IF m = l THEN Holds(q, kind, i) \/ Holds(s, kind, i)
                                 ELSE Has(m, kind, i)
  BY <1>1, <1>6, <1>9, LaneMoves
<1>11. \A kind, i : Has(l, kind, i) <=> Holds(items[l], kind, i) \/ Holds(stack[l], kind, i)
  BY DEF Has
<1> QED
  BY <1>6, <1>7, <1>9, <1>10, <1>11 DEF Same

\* The stop item is the last that a lane takes.
LEMMA Stops ==
  ASSUME LanesInv, NEW l \in Lane, LaneEnds(l)
  PROVE  LanesInv' /\ Gone(l, "stop", 0) /\ items'[l] = <<>> /\ Has(l, "stop", 0)
<1> DEFINE n == Chosen(l)
           job == items[l][n].job
           q == RemoveAt(items[l], n)
<1>1. /\ Ripe(l) # {} /\ job.kind = "stop" /\ items' = [items EXCEPT ![l] = q] /\ stack' = stack
  BY DEF LaneEnds
<1>2. /\ n \in Ripe(l) /\ n \in DOMAIN items[l]
      /\ \A o \in Ripe(l) : items[l][n].job.stage >= items[l][o].job.stage
  BY <1>1, Choosing
<1>3. /\ items[l] \in Seq(Item) /\ stack[l] \in Seq(Frame) /\ Placed(l, items[l], stack[l])
      /\ stack = [stack EXCEPT ![l] = stack[l]]
  BY LaneParts
<1> HIDE DEF n
<1>4. job.stage = 0 /\ items[l][n].ripe
  BY <1>1, <1>2, <1>3 DEF Placed, JobAt, Ripe
<1>5. \A o \in DOMAIN items[l] : o \in Ripe(l)
  BY <1>1, <1>2, <1>3, <1>4 DEF Placed, Ripe
<1>6. ASSUME NEW o \in DOMAIN items[l]
      PROVE  o = n
  <2>1. items[l][o].job.stage \in Nat /\ JobAt(l, items[l][o].job)
    <3>1. items[l][o] \in Item
      BY <1>3
    <3> QED
      BY <1>3, <3>1 DEF Item, Job, Placed
  <2>2. items[l][o].job.stage = 0
    BY <1>2, <1>4, <1>5, <2>1
  <2>3. items[l][o].job.kind = "stop"
    BY <2>1, <2>2 DEF JobAt, Stage
  <2> QED
    BY <1>1, <1>2, <1>3, <1>4, <2>2, <2>3 DEF Placed, Single
<1>7. /\ q \in Seq(Item) /\ Len(q) = Len(items[l]) - 1 /\ Placed(l, q, stack[l])
      /\ \A kind, i : Holds(q, kind, i) <=> Holds(items[l], kind, i) /\ ~(kind = "stop" /\ i = 0)
  <2>1. n \in 1..Len(items[l])
    BY <1>2, <1>3
  <2>2. q \in Seq(Item) /\ Len(q) = Len(items[l]) - 1
    BY <1>3, <2>1, Removal
  <2>3. /\ Placed(l, q, stack[l])
        /\ \A kind, i : Holds(q, kind, i) <=> Holds(items[l], kind, i) /\ ~(kind = job.kind /\ i = job.stage)
    BY <1>2, <1>3, Dequeued
  <2> QED
    BY <1>1, <1>4, <2>2, <2>3
<1>8. Len(items[l]) = 1
  <2>1. Len(items[l]) \in Nat /\ DOMAIN items[l] = 1..Len(items[l])
    BY <1>3
  <2>2. Len(items[l]) \in DOMAIN items[l] /\ 1 \in DOMAIN items[l]
    BY <1>2, <2>1
  <2> QED
    BY <1>6, <2>2
<1>9. q = <<>>
  BY <1>7, <1>8
<1>10. Holds(items[l], "stop", 0)
  BY <1>1, <1>2, <1>4 DEF Holds
<1>11. ~Holds(stack[l], "stop", 0)
  BY <1>3, <1>10 DEF Placed
<1> HIDE DEF q
<1>12. stack' = [stack EXCEPT ![l] = stack[l]]
  BY <1>1, <1>3
<1>13. /\ LanesInv'
       /\ \A m \in Lane : \A kind, i :
            Has(m, kind, i)' <=> IF m = l THEN Holds(q, kind, i) \/ Holds(stack[l], kind, i)
                                 ELSE Has(m, kind, i)
  BY <1>1, <1>3, <1>7, <1>12, LaneMoves
<1>14. \A kind, i : Has(l, kind, i) <=> Holds(items[l], kind, i) \/ Holds(stack[l], kind, i)
  BY DEF Has
<1>15. items'[l] = q
  BY <1>1 DEF LanesInv
<1> QED
  BY <1>7, <1>9, <1>10, <1>11, <1>13, <1>14, <1>15 DEF Gone

LEMMA Ripens ==
  ASSUME LanesInv, NEW l \in Lane, Ripen(l)
  PROVE  LanesInv' /\ Same
<1>1. PICK n \in DOMAIN items[l] :
        /\ items[l][n].job.kind = "stop" => Ripe(l) \cup {n} = DOMAIN items[l]
        /\ items' = [items EXCEPT ![l][n].ripe = TRUE]
  BY DEF Ripen
<1>2. /\ items[l] \in Seq(Item) /\ stack[l] \in Seq(Frame) /\ Placed(l, items[l], stack[l])
      /\ stack = [stack EXCEPT ![l] = stack[l]]
  BY LaneParts
<1> DEFINE q == [items[l] EXCEPT ![n].ripe = TRUE]
<1>3. items[l][n].job.kind = "stop" => \A m \in DOMAIN items[l] \ {n} : items[l][m].ripe
  BY <1>1 DEF Ripe
<1>4. /\ q \in Seq(Item) /\ Placed(l, q, stack[l])
      /\ \A kind, i : Holds(q, kind, i) <=> Holds(items[l], kind, i)
  BY <1>2, <1>3, Due
<1>5. items' = [items EXCEPT ![l] = q]
  BY <1>1
<1>6. stack' = [stack EXCEPT ![l] = stack[l]]
  BY <1>2 DEF Ripen
<1> HIDE DEF q
<1>7. /\ LanesInv'
      /\ \A m \in Lane : \A kind, i :
           Has(m, kind, i)' <=> IF m = l THEN Holds(q, kind, i) \/ Holds(stack[l], kind, i)
                                ELSE Has(m, kind, i)
  BY <1>2, <1>4, <1>5, <1>6, LaneMoves
<1>8. \A kind, i : Has(l, kind, i) <=> Holds(items[l], kind, i) \/ Holds(stack[l], kind, i)
  BY DEF Has
<1> QED
  BY <1>4, <1>7, <1>8 DEF Same

-----------------------------------------------------------------------------
(* Who waits for a job, and which job a window has *)

\* A callback, or a wait on the completion thread, goes on with the window.
Linked(i) == Has(LaneOf[i], "progress", i) \/ waiter[i] # Idle

\* The closing thread is past the stage.
Closed(i) == \/ main[1] \in {"close", "closing"} /\ i > main[2]
             \/ main[1] \in {"shutdown", "stop"}

\* A call is waited for by its stage, a close and a stop by the closing thread;
\* the stages are done before the first of these, and a lane that has stopped
\* has nothing left.
CallersInv ==
  /\ DOMAIN caller = Stage
  /\ \A l \in Lane : \A i : /\ Has(l, "call", i) => caller[i] = "calling"
                            /\ Has(l, "close", i) => main = <<"closing", i>>
  /\ \A l \in Lane : Has(l, "stop", 0) => main[1] = "stop"
  /\ \/ main \in {<<"join", 0>>, <<"shutdown", 0>>, <<"stop", 0>>}
     \/ \E i \in Stage : main \in {<<"close", i>>, <<"closing", i>>}
  /\ main[1] # "join" => \A i \in Stage : caller[i] = "done"
  /\ stopped \subseteq Lane /\ (stopped # {} => main[1] = "stop")
  /\ \A l \in stopped : items[l] = <<>> /\ stack[l] = <<>>

WavesTyped ==
  /\ pos \in [Windowed -> {"feed", "buffer", "handoff", "begun", "fed", "drain", "abandon"}]
  /\ begun \in [Windowed -> Nat] /\ handle \in [Windowed -> Nat]
  /\ DOMAIN done = Windowed /\ DOMAIN failure = Windowed
  /\ step \in [Windowed -> 0..(Dispatches + 1)]
  /\ DOMAIN broken = Windowed /\ DOMAIN future = Windowed
  /\ jobs \in [Windowed -> Nat]
  /\ waiter \in [Windowed -> {Idle} \cup ({"queued", "joining"} \X (Nat \ {0}))]

\* The window in flight has one link, until it is complete or has failed, and
\* whoever goes on with it has nobody else's dispatch to wait for.  A stage
\* that is closed has no window and no dispatch.
WaveAt(i) ==
  /\ ~(Has(LaneOf[i], "progress", i) /\ waiter[i] # Idle)
  /\ Linked(i) => pos[i] = "abandon" \/ (handle[i] # 0 /\ ~done[i] /\ ~failure[i])
  /\ pos[i] = "abandon" => handle[i] = 0
  /\ pos[i] # "abandon" /\ jobs[i] > 0 => future[i] \/ waiter[i][1] = "joining"
  /\ Closed(i) => /\ handle[i] = 0 /\ jobs[i] = 0
                  /\ pos[i] = "abandon" => Complete(i) \/ broken[i]
  /\ main[1] = "stop" => waiter[i] = Idle

LaneInv == LanesInv /\ CallersInv /\ WavesTyped /\ \A i \in Windowed : WaveAt(i)

\* Nothing happens to the window of a stage.
Rests(i) ==
  /\ Has(LaneOf[i], "progress", i)' => Has(LaneOf[i], "progress", i)
  /\ waiter'[i] = waiter[i] /\ handle'[i] = handle[i] /\ done'[i] = done[i]
  /\ failure'[i] = failure[i] /\ jobs'[i] = jobs[i] /\ future'[i] = future[i]
  /\ step'[i] = step[i] /\ broken'[i] = broken[i]
  /\ pos'[i] = "abandon" <=> pos[i] = "abandon"

\* No lane gets a job but progress callbacks.
Fewer ==
  \A m \in Lane : \A kind, i : kind # "progress" /\ Has(m, kind, i)' => Has(m, kind, i)

LEMMA HasAt ==
  ASSUME LanesInv, NEW l \in Lane, NEW kind, NEW i, Has(l, kind, i)
  PROVE  IF kind = "stop" THEN i = 0
         ELSE i \in Stage /\ LaneOf[i] = l /\ (kind = "progress" => i \in Windowed)
<1>1. Placed(l, items[l], stack[l])
  BY LaneParts
<1>2. CASE Holds(items[l], kind, i)
  BY <1>1, <1>2 DEF Placed, Holds, JobAt
<1>3. CASE Holds(stack[l], kind, i)
  BY <1>1, <1>3 DEF Placed, Holds, JobAt
<1> QED
  BY <1>2, <1>3 DEF Has

LEMMA WaveRests ==
  ASSUME NEW i \in Windowed, WaveAt(i), Rests(i), main' = main
  PROVE  WaveAt(i)'
<1>1. Linked(i)' => Linked(i)
  BY DEF Linked, Rests
<1>2. Closed(i)' <=> Closed(i)
  BY DEF Closed
<1>3. (Complete(i) \/ broken[i])' <=> (Complete(i) \/ broken[i])
  BY DEF Complete, Rests
<1>4. ~(Has(LaneOf[i], "progress", i)' /\ waiter'[i] # Idle)
  BY DEF WaveAt, Rests
<1>5. Linked(i)' => pos'[i] = "abandon" \/ (handle'[i] # 0 /\ ~done'[i] /\ ~failure'[i])
  BY <1>1 DEF WaveAt, Rests
<1>6. /\ pos'[i] = "abandon" => handle'[i] = 0
      /\ pos'[i] # "abandon" /\ jobs'[i] > 0 => future'[i] \/ waiter'[i][1] = "joining"
      /\ main'[1] = "stop" => waiter'[i] = Idle
  BY DEF WaveAt, Rests
<1>7. Closed(i)' => /\ handle'[i] = 0 /\ jobs'[i] = 0
                    /\ pos'[i] = "abandon" => (Complete(i) \/ broken[i])'
  BY <1>2, <1>3 DEF WaveAt, Rests
<1> QED
  BY <1>4, <1>5, <1>6, <1>7 DEF WaveAt

LEMMA CallersRest ==
  ASSUME CallersInv, Fewer, UNCHANGED <<caller, main, stopped>>,
         \A m \in stopped : items'[m] = items[m] /\ stack'[m] = stack[m]
  PROVE  CallersInv'
<1>1. \A m \in Lane : \A i : /\ Has(m, "call", i)' => caller'[i] = "calling"
                             /\ Has(m, "close", i)' => main' = <<"closing", i>>
  BY DEF CallersInv, Fewer
<1>2. \A m \in Lane : Has(m, "stop", 0)' => main'[1] = "stop"
  BY DEF CallersInv, Fewer
<1>3. \A m \in stopped' : items'[m] = <<>> /\ stack'[m] = <<>>
  BY DEF CallersInv
<1>4. /\ DOMAIN caller' = Stage
      /\ \/ main' \in {<<"join", 0>>, <<"shutdown", 0>>, <<"stop", 0>>}
         \/ \E i \in Stage : main' \in {<<"close", i>>, <<"closing", i>>}
      /\ main'[1] # "join" => \A i \in Stage : caller'[i] = "done"
      /\ stopped' \subseteq Lane /\ (stopped' # {} => main'[1] = "stop")
  BY DEF CallersInv
<1> QED
  BY <1>1, <1>2, <1>3, <1>4 DEF CallersInv

\* A step that concerns the window of one stage, or of none.
LEMMA OneWave ==
  ASSUME LaneInv, LanesInv', CallersInv', WavesTyped', main' = main,
         NEW i, i \in Windowed => WaveAt(i)', \A j \in Windowed \ {i} : Rests(j)
  PROVE  LaneInv'
<1>1. ASSUME NEW j \in Windowed
      PROVE  WaveAt(j)'
  <2>1. CASE j = i
    BY <2>1
  <2>2. CASE j # i
    BY <2>2, WaveRests DEF LaneInv
  <2> QED
    BY <2>1, <2>2
<1> QED
  BY <1>1 DEF LaneInv

\* While a call is under way the graph has not been joined.
LEMMA InCall ==
  ASSUME LaneInv, NEW l \in Lane, NEW i, Called(l, i)
  PROVE  /\ i \in Stage /\ LaneOf[i] = l /\ Has(l, "call", i) /\ caller[i] = "calling"
         /\ main = <<"join", 0>> /\ stopped = {} /\ ~Closed(i) /\ stack[l] # <<>>
         /\ \A m \in Lane : ~Has(m, "stop", 0)
<1>1. /\ stack[l] # <<>> /\ Top(l).job.kind = "call" /\ Top(l).job.stage = i
  BY DEF Called, Running
<1>2. Has(l, "call", i) /\ LanesInv /\ CallersInv
  BY <1>1, Atop DEF LaneInv
<1>3. i \in Stage /\ LaneOf[i] = l
  BY <1>2, HasAt
<1>4. caller[i] = "calling"
  BY <1>2 DEF CallersInv
<1>5. main[1] = "join"
  BY <1>2, <1>3, <1>4 DEF CallersInv
<1>6. main = <<"join", 0>> /\ stopped = {}
  BY <1>2, <1>5 DEF CallersInv
<1>7. ~Closed(i) /\ \A m \in Lane : ~Has(m, "stop", 0)
  BY <1>2, <1>5 DEF Closed, CallersInv
<1> QED
  BY <1>1, <1>2, <1>3, <1>4, <1>6, <1>7

\* A lane takes, resumes or suspends a callback.
LEMMA InnerKeeps ==
  ASSUME LaneInv, LanesInv', Same, NEW l \in Lane \ stopped,
         \A m \in Lane \ {l} : items'[m] = items[m] /\ stack'[m] = stack[m],
         UNCHANGED <<stopped, callers, iter, wave, window, native, ends>>
  PROVE  LaneInv'
<1>1. Fewer /\ \A j \in Windowed : Rests(j)
  BY LaneConstants DEF Same, Fewer, Rests, iter, wave, window, native, ends
<1>2. UNCHANGED <<caller, main, stopped>>
  BY DEF callers, ends
<1>3. \A m \in stopped : items'[m] = items[m] /\ stack'[m] = stack[m]
  BY DEF LaneInv, CallersInv
<1>4. CallersInv'
  BY <1>1, <1>2, <1>3, CallersRest DEF LaneInv
<1>5. WavesTyped'
  BY DEF LaneInv, WavesTyped, iter, wave, window, native, ends
<1>6. \A j \in Windowed : WaveAt(j)'
  BY <1>1, <1>2, WaveRests DEF LaneInv
<1> QED
  BY <1>4, <1>5, <1>6 DEF LaneInv

LEMMA LaneTurns ==
  ASSUME LaneInv, NEW l \in Lane, Take(l) \/ AcquirePermit(l) \/ WaitOver(l) \/ Ripen(l)
  PROVE  LaneInv'
<1>1. LanesInv /\ items \in [Lane -> Seq(Item)] /\ stack \in [Lane -> Seq(Frame)]
  BY DEF LaneInv, LanesInv
<1>2. UNCHANGED <<stopped, callers, iter, wave, window, native, ends>>
  BY DEF Take, AcquirePermit, WaitOver, Ripen
<1>3. \A m \in Lane \ {l} : items'[m] = items[m] /\ stack'[m] = stack[m]
  BY <1>1 DEF Take, AcquirePermit, WaitOver, Ripen
<1>4. l \notin stopped
  <2>1. CASE Take(l)
    BY <2>1 DEF Take, Serving
  <2>2. CASE AcquirePermit(l) \/ WaitOver(l) \/ Ripen(l)
    <3>1. AcquirePermit(l) \/ WaitOver(l) => stack[l] # <<>>
      BY DEF AcquirePermit, WaitOver
    <3>2. Ripen(l) => items[l] # <<>>
      BY <1>1 DEF Ripen
    <3> QED
      BY <2>2, <3>1, <3>2 DEF LaneInv, CallersInv
  <2> QED
    BY <2>1, <2>2
<1>5. LanesInv' /\ Same
  <2>1. CASE Take(l)
    BY <1>1, <2>1, Takes
  <2>2. CASE Ripen(l)
    BY <1>1, <2>2, Ripens
  <2>3. CASE AcquirePermit(l)
    <3> DEFINE top == Top(l)
               f == [top EXCEPT !.got = @ + 1,
                                !.at = IF top.got + 1 = Len(Claim(top.job)) THEN "run" ELSE "permits"]
    <3>1. stack[l] # <<>> /\ stack' = [stack EXCEPT ![l][Len(stack[l])] = f] /\ items' = items
      BY <2>3 DEF AcquirePermit
    <3>2. top \in Frame
      BY <1>1, <3>1, Atop
    <3>3. f \in Frame /\ f.job = top.job /\ f.at # "wait"
      <4> DEFINE at == IF top.got + 1 = Len(Claim(top.job)) THEN "run" ELSE "permits"
      <4>1. /\ f = [top EXCEPT !.got = top.got + 1, !.at = at] /\ at \in {"run", "permits"}
            /\ top.got + 1 \in Nat
        BY <3>2 DEF Frame
      <4> HIDE DEF f, at, top
      <4> QED
        BY <3>2, <4>1 DEF Frame
    <3> HIDE DEF f
    <3> QED
      BY <1>1, <3>1, <3>3, GoesOn
  <2>4. CASE WaitOver(l)
    <3> DEFINE f == [Top(l) EXCEPT !.at = "run"]
    <3>1. stack[l] # <<>> /\ items' = items /\ stack' = [stack EXCEPT ![l][Len(stack[l])].at = "run"]
      BY <2>4 DEF WaitOver
    <3>2. stack' = [stack EXCEPT ![l][Len(stack[l])] = f]
      BY <3>1 DEF Top, Last
    <3>3. Top(l) \in Frame
      BY <1>1, <3>1, Atop
    <3>4. f \in Frame /\ f.job = Top(l).job /\ f.at # "wait"
      BY <3>3 DEF Frame
    <3> HIDE DEF f
    <3> QED
      BY <1>1, <3>1, <3>2, <3>4, GoesOn
  <2> QED
    BY <2>1, <2>2, <2>3, <2>4
<1> QED
  BY <1>2, <1>3, <1>4, <1>5, InnerKeeps

LEMMA LaneStops ==
  ASSUME LaneInv, NEW l \in Lane, LaneEnds(l)
  PROVE  LaneInv'
<1>1. /\ LanesInv' /\ Gone(l, "stop", 0) /\ items'[l] = <<>> /\ Has(l, "stop", 0)
  BY Stops DEF LaneInv
<1>2. main[1] = "stop"
  BY <1>1 DEF LaneInv, CallersInv
<1>3. /\ UNCHANGED <<stack, permits, callers, iter, wave, window, native, ends>>
      /\ stopped' = stopped \cup {l} /\ items' = [items EXCEPT ![l] = RemoveAt(@, Chosen(l))]
  BY DEF LaneEnds
<1>4. stack[l] = <<>>
  <2> SUFFICES ASSUME stack[l] # <<>>
               PROVE  FALSE
    OBVIOUS
  <2>1. LanesInv /\ Top(l).at = "wait"
    BY DEF LaneEnds, Serving, LaneInv
  <2>2. Top(l).job.kind = "call"
    <3>1. Placed(l, stack[l], stack[l]) \/ Placed(l, items[l], stack[l])
      BY <2>1, LaneParts
    <3>2. stack[l] \in Seq(Frame) /\ Len(stack[l]) \in DOMAIN stack[l]
      BY <2>1, LaneParts
    <3> QED
      BY <2>1, <3>1, <3>2 DEF Placed, Top, Last
  <2>3. Has(l, "call", Top(l).job.stage)
    BY <2>1, <2>2, Atop
  <2>4. Top(l).job.stage \in Stage
    BY <2>1, <2>3, HasAt
  <2> QED
    BY <1>2, <2>3, <2>4 DEF LaneInv, CallersInv
<1>5. \A m \in stopped' : items'[m] = <<>> /\ stack'[m] = <<>>
  <2>1. items \in [Lane -> Seq(Item)] /\ stopped \subseteq Lane
    BY DEF LaneInv, LanesInv, CallersInv
  <2>2. \A m \in stopped \ {l} : items'[m] = items[m]
    BY <1>3, <2>1
  <2> QED
    BY <1>1, <1>3, <1>4, <2>2 DEF LaneInv, CallersInv
<1>6. Fewer /\ \A j \in Windowed : Rests(j)
  BY <1>1, <1>3, LaneConstants DEF Gone, Fewer, Rests, iter, wave, window, native, ends
<1>7. CallersInv'
  BY <1>2, <1>3, <1>5, <1>6 DEF LaneInv, CallersInv, Fewer, callers, ends
<1>8. WavesTyped'
  BY <1>3 DEF LaneInv, WavesTyped, iter, wave, window, native, ends
<1>9. \A j \in Windowed : WaveAt(j)'
  BY <1>3, <1>6, WaveRests DEF LaneInv, ends
<1> QED
  BY <1>1, <1>7, <1>8, <1>9 DEF LaneInv

\* A call returns to its stage.
LEMMA Returns ==
  ASSUME LaneInv, NEW l \in Lane, NEW i, Called(l, i), Leave(l), items' = items,
         NEW x \in {"idle", "done"}, caller' = [caller EXCEPT ![i] = x],
         UNCHANGED <<stopped, wave, window, native, waiter, main>>,
         pos' \in [Windowed -> {"feed", "buffer", "handoff", "begun", "fed", "drain", "abandon"}],
         \A j \in Windowed : pos'[j] = "abandon" <=> pos[j] = "abandon"
  PROVE  LaneInv'
<1>1. /\ i \in Stage /\ LaneOf[i] = l /\ stack[l] # <<>>
      /\ main = <<"join", 0>> /\ stopped = {} /\ LanesInv
      /\ Top(l).job.kind = "call" /\ Top(l).job.stage = i
  BY InCall DEF Called, Running, LaneInv
<1>2. LanesInv' /\ Gone(l, "call", i)
  BY <1>1, Leaves DEF Leave
<1>3. ASSUME NEW m \in Lane, NEW j, Has(m, "call", j)'
      PROVE  caller'[j] = "calling"
  <2>1. Has(m, "call", j) /\ ~(m = l /\ j = i)
    BY <1>2, <1>3 DEF Gone
  <2>2. j \in Stage /\ LaneOf[j] = m
    BY <1>1, <2>1, HasAt
  <2>3. j # i /\ caller[j] = "calling"
    BY <1>1, <2>1, <2>2 DEF LaneInv, CallersInv
  <2> QED
    BY <2>2, <2>3 DEF LaneInv, CallersInv
<1>4. \A m \in Lane : \A j : Has(m, "close", j)' => main' = <<"closing", j>>
  BY <1>2 DEF Gone, LaneInv, CallersInv
<1>5. \A m \in Lane : Has(m, "stop", 0)' => main'[1] = "stop"
  BY <1>2 DEF Gone, LaneInv, CallersInv
<1>6. CallersInv'
  BY <1>1, <1>3, <1>4, <1>5 DEF LaneInv, CallersInv
<1>7. WavesTyped'
  BY DEF LaneInv, WavesTyped, wave, window, native
<1>8. \A j \in Windowed : Rests(j)
  BY <1>2, LaneConstants DEF Gone, Rests, wave, window, native
<1>9. \A j \in Windowed : WaveAt(j)'
  BY <1>8, WaveRests DEF LaneInv
<1> QED
  BY <1>2, <1>6, <1>7, <1>9 DEF LaneInv

\* An iterator goes on within its call: it finishes its window, or not.
LEMMA Iterating ==
  ASSUME LaneInv, NEW l \in Lane, NEW i \in Windowed, Called(l, i), items' = items,
         Suspend(l) \/ stack' = stack,
         UNCHANGED <<stopped, caller, begun, window, native, waiter, main>>,
         pos' \in [Windowed -> {"feed", "buffer", "handoff", "begun", "fed", "drain", "abandon"}],
         \A j \in Windowed : pos'[j] = "abandon" <=> pos[j] = "abandon",
         \/ UNCHANGED <<handle, done, failure>>
         \/ /\ done[i] /\ pos[i] # "abandon"
            /\ handle' = [handle EXCEPT ![i] = 0] /\ done' = [done EXCEPT ![i] = FALSE]
            /\ failure' = [failure EXCEPT ![i] = FALSE]
  PROVE  LaneInv'
<1>1. /\ LanesInv /\ stack[l] # <<>> /\ stopped = {} /\ main = <<"join", 0>>
      /\ Top(l).job.kind = "call"
  BY InCall DEF Called, Running, LaneInv
<1>2. LanesInv' /\ Same
  <2>1. CASE stack' = stack
    BY <1>1, <2>1 DEF LanesInv, Same, Has
  <2>2. CASE Suspend(l)
    <3> DEFINE f == [Top(l) EXCEPT !.at = "wait"]
    <3>1. stack' = [stack EXCEPT ![l][Len(stack[l])] = f]
      BY <2>2 DEF Suspend, Top, Last
    <3>2. Top(l) \in Frame
      BY <1>1, Atop
    <3>3. f \in Frame /\ f.job = Top(l).job /\ f.job.kind = "call"
      BY <1>1, <3>2 DEF Frame
    <3> HIDE DEF f
    <3> QED
      BY <1>1, <3>1, <3>3, GoesOn
  <2> QED
    BY <2>1, <2>2
<1>3. Fewer
  BY <1>2 DEF Same, Fewer
<1>4. CallersInv'
  BY <1>1, <1>3, CallersRest DEF LaneInv
<1>5. CASE UNCHANGED <<handle, done, failure>>
  <2>1. WavesTyped'
    BY <1>5 DEF LaneInv, WavesTyped, window, native
  <2>2. \A j \in Windowed : Rests(j)
    BY <1>2, <1>5, LaneConstants DEF Same, Rests, window, native
  <2>3. \A j \in Windowed : WaveAt(j)'
    BY <2>2, WaveRests DEF LaneInv
  <2> QED
    BY <1>2, <1>4, <2>1, <2>3 DEF LaneInv
<1>6. CASE /\ done[i] /\ pos[i] # "abandon"
           /\ handle' = [handle EXCEPT ![i] = 0] /\ done' = [done EXCEPT ![i] = FALSE]
           /\ failure' = [failure EXCEPT ![i] = FALSE]
  <2>1. /\ handle \in [Windowed -> Nat] /\ DOMAIN done = Windowed /\ DOMAIN failure = Windowed
        /\ WaveAt(i)
    BY DEF LaneInv, WavesTyped
  <2>2. /\ handle' \in [Windowed -> Nat] /\ handle'[i] = 0
        /\ \A j \in Windowed \ {i} : handle'[j] = handle[j]
    BY <1>6, <2>1
  <2>3. /\ DOMAIN done' = Windowed /\ DOMAIN failure' = Windowed
        /\ \A j \in Windowed \ {i} : done'[j] = done[j] /\ failure'[j] = failure[j]
    BY <1>6, <2>1
  <2>4. WavesTyped'
    BY <2>2, <2>3 DEF LaneInv, WavesTyped, window, native
  <2>5. \A j \in Windowed \ {i} : Rests(j)
    BY <1>2, <2>2, <2>3, LaneConstants DEF Same, Rests, window, native
  <2>6. ~Linked(i)
    BY <1>6, <2>1 DEF WaveAt
  <2>7. ~Has(LaneOf[i], "progress", i)' /\ waiter'[i] = Idle
    BY <1>2, <2>6, LaneConstants DEF Linked, Same
  <2>8. ~Linked(i)' /\ pos'[i] # "abandon" /\ ~Closed(i)'
    BY <1>1, <1>6, <2>7 DEF Linked, Closed
  <2>9. pos'[i] # "abandon" /\ jobs'[i] > 0 => future'[i] \/ waiter'[i][1] = "joining"
    BY <1>6, <2>1 DEF WaveAt, native
  <2>10. WaveAt(i)'
    BY <2>2, <2>7, <2>8, <2>9 DEF WaveAt
  <2> QED
    BY <1>2, <1>4, <2>4, <2>5, <2>10, OneWave
<1> QED
  BY <1>5, <1>6

\* A window begins when the one before it has no link.
LEMMA Beginning ==
  ASSUME LaneInv, NEW l \in Lane, NEW i \in Windowed, Called(l, i), BeginWindow(i),
         pos[i] # "abandon", handle[i] = 0 \/ done[i],
         pos' = [pos EXCEPT ![i] = "begun"],
         UNCHANGED <<stack, stopped, caller, native, waiter, main>>
  PROVE  LaneInv'
<1>1. /\ LanesInv /\ i \in Stage /\ LaneOf[i] = l /\ stopped = {} /\ main = <<"join", 0>>
      /\ ~Has(l, "stop", 0) /\ WaveAt(i) /\ WavesTyped
  BY InCall DEF LaneInv
<1>2. ~Linked(i)
  BY <1>1 DEF WaveAt
<1>3. begun[i] \in Nat /\ begun[i] + 1 \in Nat \ {0}
  BY <1>1 DEF WavesTyped
<1> DEFINE job == JobOf("progress", i, begun[i] + 1)
<1>4. PICK ripe \in BOOLEAN : items' = Submitted(l, job, ripe)
  BY <1>1 DEF BeginWindow
<1>5. /\ job \in Job /\ job.kind = "progress" /\ job.stage = i /\ JobAt(l, job)
  BY <1>1, <1>3, LaneConstants DEF Job, Kind, JobOf, JobAt, Stage
<1>6. ~Has(l, "progress", i) /\ waiter[i] = Idle
  BY <1>1, <1>2 DEF Linked
<1> HIDE DEF job
<1>7. LanesInv' /\ Come(l, "progress", i)
  BY <1>1, <1>4, <1>5, <1>6, Submits
<1>8. CallersInv'
  <2>1. Fewer
    BY <1>7 DEF Come, Fewer
  <2> QED
    BY <1>1, <2>1, CallersRest DEF LaneInv
<1>9. /\ begun' = [begun EXCEPT ![i] = begun[i] + 1]
      /\ handle' = [handle EXCEPT ![i] = begun[i] + 1]
      /\ done' = [done EXCEPT ![i] = FALSE]
      /\ failure' = [failure EXCEPT ![i] = FALSE]
      /\ step' = [step EXCEPT ![i] = 0]
      /\ broken' = [broken EXCEPT ![i] = FALSE]
  BY DEF BeginWindow
<1>10. /\ pos \in [Windowed -> {"feed", "buffer", "handoff", "begun", "fed", "drain", "abandon"}]
       /\ begun \in [Windowed -> Nat] /\ handle \in [Windowed -> Nat]
       /\ DOMAIN done = Windowed /\ DOMAIN failure = Windowed /\ DOMAIN broken = Windowed
       /\ step \in [Windowed -> 0..(Dispatches + 1)] /\ Dispatches \in Nat
  BY <1>1, LaneConstants DEF WavesTyped
<1>11. /\ begun' \in [Windowed -> Nat] /\ handle' \in [Windowed -> Nat]
       /\ step' \in [Windowed -> 0..(Dispatches + 1)]
       /\ pos' \in [Windowed -> {"feed", "buffer", "handoff", "begun", "fed", "drain", "abandon"}]
       /\ handle'[i] # 0 /\ pos'[i] = "begun"
       /\ \A j \in Windowed \ {i} :
            handle'[j] = handle[j] /\ step'[j] = step[j] /\ pos'[j] = pos[j]
  BY <1>3, <1>9, <1>10
<1>12. /\ DOMAIN done' = Windowed /\ DOMAIN failure' = Windowed /\ DOMAIN broken' = Windowed
       /\ done'[i] = FALSE /\ failure'[i] = FALSE
       /\ \A j \in Windowed \ {i} :
            done'[j] = done[j] /\ failure'[j] = failure[j] /\ broken'[j] = broken[j]
  BY <1>9, <1>10, Zenon
<1>13. WavesTyped'
  BY <1>1, <1>11, <1>12 DEF WavesTyped, native
<1>14. \A j \in Windowed \ {i} : Rests(j)
  BY <1>7, <1>11, <1>12, LaneConstants DEF Come, Rests, native
<1>15. ~Closed(i)'
  BY <1>1 DEF Closed
<1>16. jobs'[i] > 0 => future'[i] \/ waiter'[i][1] = "joining"
  BY <1>1 DEF WaveAt, native
<1>17. WaveAt(i)'
  BY <1>1, <1>6, <1>11, <1>12, <1>15, <1>16 DEF WaveAt
<1> QED
  BY <1>7, <1>8, <1>13, <1>14, <1>17, OneWave

LEMMA IteratesKeeps ==
  ASSUME LaneInv, NEW l \in Lane, Iterates(l)
  PROVE  LaneInv'
<1>1. PICK i \in Windowed :
        \/ Yield(l, i) \/ FeedPolls(l, i) \/ FeedBuffers(l, i) \/ SubmitFirst(l, i)
        \/ SubmitNext(l, i) \/ HandoffWaits(l, i) \/ HandoffFinishes(l, i) \/ Begun(l, i)
        \/ FeedEnds(l, i) \/ Drains(l, i) \/ FlushEnds(l, i) \/ Raises(l, i)
  BY DEF Iterates
<1>2. pos \in [Windowed -> {"feed", "buffer", "handoff", "begun", "fed", "drain", "abandon"}]
  BY DEF LaneInv, WavesTyped
<1>3. CASE Yield(l, i) \/ FlushEnds(l, i) \/ Raises(l, i)
  <2>1. /\ Called(l, i) /\ Leave(l) /\ items' = items /\ pos' = pos
        /\ UNCHANGED <<stopped, wave, window, native, waiter, main>>
        /\ \E x \in {"idle", "done"} : caller' = [caller EXCEPT ![i] = x]
    BY <1>3 DEF Yield, FlushEnds, Raises, At, iter, ends
  <2> QED
    BY <1>2, <2>1, Returns
<1>4. CASE FeedBuffers(l, i) \/ FeedEnds(l, i)
  <2>1. /\ Called(l, i) /\ Leave(l) /\ items' = items /\ pos[i] # "abandon"
        /\ pos' = [pos EXCEPT ![i] = "feed"]
        /\ UNCHANGED <<stopped, wave, window, native, waiter, main>>
        /\ \E x \in {"idle", "done"} : caller' = [caller EXCEPT ![i] = x]
    BY <1>4 DEF FeedBuffers, FeedEnds, At, Goto, ends
  <2>2. /\ pos' \in [Windowed -> {"feed", "buffer", "handoff", "begun", "fed", "drain", "abandon"}]
        /\ \A j \in Windowed : pos'[j] = "abandon" <=> pos[j] = "abandon"
    BY <1>2, <2>1
  <2> QED
    BY <2>1, <2>2, Returns
<1>5. CASE SubmitFirst(l, i) \/ HandoffFinishes(l, i)
  <2>1. /\ Called(l, i) /\ BeginWindow(i) /\ pos[i] # "abandon" /\ (handle[i] = 0 \/ done[i])
        /\ pos' = [pos EXCEPT ![i] = "begun"]
        /\ UNCHANGED <<stack, stopped, caller, native, waiter, main>>
    BY <1>5 DEF SubmitFirst, HandoffFinishes, At, Goto, callers, ends
  <2> QED
    BY <2>1, Beginning
<1>6. CASE FeedPolls(l, i) \/ SubmitNext(l, i) \/ HandoffWaits(l, i) \/ Begun(l, i) \/ Drains(l, i)
  <2>1. /\ Called(l, i) /\ pos[i] # "abandon" /\ items' = items /\ (Suspend(l) \/ stack' = stack)
        /\ UNCHANGED <<stopped, caller, begun, window, native, waiter, main>>
    BY <1>6
    DEF FeedPolls, SubmitNext, HandoffWaits, Begun, Drains, At, lanes, callers, wave, ends
  <2>2. \/ UNCHANGED <<handle, done, failure>>
        \/ /\ done[i]
           /\ handle' = [handle EXCEPT ![i] = 0] /\ done' = [done EXCEPT ![i] = FALSE]
           /\ failure' = [failure EXCEPT ![i] = FALSE]
    BY <1>6 DEF FeedPolls, SubmitNext, HandoffWaits, Begun, Drains, Finish, wave
  <2>3. \/ pos' = pos
        \/ \E p \in {"buffer", "handoff", "drain", "fed"} : pos' = [pos EXCEPT ![i] = p]
    BY <1>6 DEF FeedPolls, SubmitNext, HandoffWaits, Begun, Drains, Goto
  <2>4. /\ pos' \in [Windowed -> {"feed", "buffer", "handoff", "begun", "fed", "drain", "abandon"}]
        /\ \A j \in Windowed : pos'[j] = "abandon" <=> pos[j] = "abandon"
    BY <1>2, <2>1, <2>3
  <2> QED
    BY <2>1, <2>2, <2>4, Iterating
<1> QED
  BY <1>1, <1>3, <1>4, <1>5, <1>6

\* What a finished future tells, for the window of which stage.
LEMMA Telling ==
  ASSUME WavesTyped, NEW i \in Windowed, NEW k, NEW failed, NEW complete,
         Tells(i, k, failed, complete)
  PROVE  /\ UNCHANGED <<begun, handle>>
         /\ DOMAIN done' = Windowed /\ DOMAIN failure' = Windowed
         /\ handle[i] = k => done'[i] = complete /\ failure'[i] = failed
         /\ handle[i] # k => done'[i] = done[i] /\ failure'[i] = failure[i]
         /\ \A j \in Windowed \ {i} : done'[j] = done[j] /\ failure'[j] = failure[j]
<1>1. /\ DOMAIN done = Windowed /\ DOMAIN failure = Windowed /\ UNCHANGED <<begun, handle>>
      /\ done' = [done EXCEPT ![i] = IF handle[i] = k THEN complete ELSE @]
      /\ failure' = [failure EXCEPT ![i] = IF handle[i] = k THEN failed ELSE @]
  BY DEF WavesTyped, Tells
<1> QED
  BY <1>1, Zenon

\* How the link of a window passes on when a progress callback ends.
LEMMA Continuing ==
  ASSUME LaneInv, NEW l \in Lane, NEW i \in Windowed,
         Running(l, "progress"), Top(l).job.stage = i, Leave(l), NEW k, k = Top(l).job.window,
         Continues(i, k) \/ UNCHANGED <<items, waiter>>
  PROVE  /\ LanesInv' /\ Fewer
         /\ waiter' \in [Windowed -> {Idle} \cup ({"queued", "joining"} \X (Nat \ {0}))]
         /\ \A j \in Windowed \ {i} :
              /\ Has(LaneOf[j], "progress", j)' => Has(LaneOf[j], "progress", j)
              /\ waiter'[j] = waiter[j]
         /\ ~(Has(LaneOf[i], "progress", i)' /\ waiter'[i] # Idle)
         /\ Linked(i)' => handle[i] = k /\ k # 0 /\ ~UNCHANGED <<items, waiter>>
         /\ \A m \in Lane \ {l} : items'[m] = items[m] /\ stack'[m] = stack[m]
<1>1. /\ LanesInv /\ WavesTyped /\ WaveAt(i) /\ stack[l] # <<>> /\ Top(l).job.kind = "progress"
      /\ stack' = [stack EXCEPT ![l] = Front(@)]
  BY DEF LaneInv, Running, Leave
<1>2. Has(l, "progress", i) /\ JobAt(l, Top(l).job) /\ Top(l) \in Frame
  BY <1>1, Atop
<1>3. LaneOf[i] = l /\ k \in Nat \ {0}
  BY <1>1, <1>2 DEF JobAt, Frame, Job
<1>4. /\ waiter \in [Windowed -> {Idle} \cup ({"queued", "joining"} \X (Nat \ {0}))]
      /\ waiter[i] = Idle
  BY <1>1, <1>2, <1>3 DEF WaveAt, WavesTyped
<1>5. /\ items \in [Lane -> Seq(Item)] /\ stack \in [Lane -> Seq(Frame)]
  BY <1>1 DEF LanesInv
<1>6. \A m \in Lane \ {l} : stack'[m] = stack[m]
  BY <1>1, <1>5
<1>7. CASE items' = items
  <2>1. LanesInv' /\ Gone(l, "progress", i)
    BY <1>1, <1>7, Leaves
  <2>2. ~Has(LaneOf[i], "progress", i)'
    BY <1>3, <2>1 DEF Gone
  <2>3. \A j \in Windowed \ {i} : Has(LaneOf[j], "progress", j)' => Has(LaneOf[j], "progress", j)
    BY <2>1, LaneConstants DEF Gone
  <2>4. \/ waiter' = waiter
        \/ handle[i] = k /\ waiter' = [waiter EXCEPT ![i] = <<"queued", k>>]
    BY DEF Continues
  <2>5. /\ waiter' \in [Windowed -> {Idle} \cup ({"queued", "joining"} \X (Nat \ {0}))]
        /\ \A j \in Windowed \ {i} : waiter'[j] = waiter[j]
        /\ waiter'[i] # Idle => handle[i] = k /\ waiter' # waiter
    BY <1>3, <1>4, <2>4
  <2>6. Fewer
    BY <2>1 DEF Gone, Fewer
  <2> QED
    BY <1>3, <1>6, <1>7, <2>1, <2>2, <2>3, <2>5, <2>6 DEF Linked
<1>8. CASE items' # items
  <2>1. /\ handle[i] = k /\ waiter' = waiter
        /\ items' = Submitted(l, JobOf("progress", i, k), FALSE)
    BY <1>3, <1>8 DEF Continues
  <2> DEFINE job == JobOf("progress", i, k)
  <2>2. job \in Job /\ job.kind = "progress" /\ job.stage = Top(l).job.stage /\ job.window # 0
    BY <1>3, LaneConstants DEF Job, Kind, JobOf, Stage
  <2> HIDE DEF job
  <2>3. ~Has(l, "stop", 0)
    <3>1. ~Closed(i)
      BY <1>1, <1>3, <2>1 DEF WaveAt
    <3> QED
      BY <3>1 DEF LaneInv, CallersInv, Closed
  <2>4. LanesInv' /\ Same
    <3>1. items' = Submitted(l, job, FALSE)
      BY <2>1 DEF job
    <3> QED
      BY <1>1, <2>2, <2>3, <3>1, Again
  <2>5. Fewer /\ \A j \in Windowed : Has(LaneOf[j], "progress", j)' => Has(LaneOf[j], "progress", j)
    BY <2>4, LaneConstants DEF Same, Fewer
  <2>6. \A m \in Lane \ {l} : items'[m] = items[m]
    BY <1>5, <2>1 DEF Submitted
  <2> QED
    BY <1>3, <1>4, <1>6, <1>8, <2>1, <2>4, <2>5, <2>6 DEF Linked
<1> QED
  BY <1>7, <1>8

\* Before a progress callback goes on, nobody else does: no one joins the
\* dispatch, and if it would not block there is none.
LEMMA Alone ==
  ASSUME LaneInv, NEW l \in Lane, NEW i \in Windowed,
         Running(l, "progress"), Top(l).job.stage = i
  PROVE  /\ waiter[i] = Idle /\ Linked(i)
         /\ pos[i] # "abandon" /\ ~WouldBlock(i) => jobs[i] = 0
<1>1. LanesInv /\ WavesTyped /\ WaveAt(i) /\ stack[l] # <<>> /\ Top(l).job.kind = "progress"
  BY DEF LaneInv, Running
<1>2. Has(l, "progress", i)
  BY <1>1, Atop
<1>3. LaneOf[i] = l
  BY <1>1, <1>2, HasAt
<1>4. waiter[i] = Idle /\ Linked(i)
  BY <1>1, <1>2, <1>3 DEF WaveAt, Linked
<1>5. jobs[i] \in Nat
  BY <1>1 DEF WavesTyped
<1> QED
  BY <1>1, <1>4, <1>5 DEF WaveAt, WouldBlock, Idle

LEMMA ProgressKeepsLanes ==
  ASSUME LaneInv, NEW l \in Lane, Progress(l)
  PROVE  LaneInv'
<1>1. PICK i \in Windowed :
        /\ Running(l, "progress") /\ Top(l).job.stage = i
        /\ Leave(l)
        /\ LET k == Top(l).job.window
           IN  \/ /\ WouldBlock(i)
                  /\ Tells(i, k, FALSE, FALSE) /\ Continues(i, k)
                  /\ UNCHANGED <<window, native>>
               \/ /\ ~WouldBlock(i) /\ (broken[i] \/ (future[i] /\ bad[i]))
                  /\ Breaks(i) /\ Tells(i, k, TRUE, FALSE)
                  /\ UNCHANGED <<step, jobs, bad, items, waiter>>
               \/ /\ ~WouldBlock(i) /\ ~broken[i] /\ ~(future[i] /\ bad[i])
                  /\ IF Complete(i) THEN UNCHANGED <<step, native>> ELSE Dispatch(i)
                  /\ Tells(i, k, FALSE, step'[i] > Dispatches)
                  /\ IF step'[i] > Dispatches THEN UNCHANGED <<items, waiter>> ELSE Continues(i, k)
                  /\ UNCHANGED broken
        /\ UNCHANGED <<stopped, callers, iter, waits, cancelled, main>>
  BY DEF Progress
<1> DEFINE k == Top(l).job.window
<1>2. /\ WavesTyped /\ WaveAt(i) /\ LanesInv /\ CallersInv
  BY DEF LaneInv
<1>3. /\ waiter[i] = Idle /\ Linked(i)
      /\ pos[i] # "abandon" /\ ~WouldBlock(i) => jobs[i] = 0
  BY <1>1, Alone
<1>4. /\ pos[i] = "abandon" => handle[i] = 0
      /\ Closed(i) => pos[i] = "abandon" /\ jobs[i] = 0 /\ (Complete(i) \/ broken[i])
  BY <1>2, <1>3 DEF WaveAt
<1>5. Continues(i, k) \/ UNCHANGED <<items, waiter>>
  BY <1>1
<1>6. /\ LanesInv' /\ Fewer
      /\ waiter' \in [Windowed -> {Idle} \cup ({"queued", "joining"} \X (Nat \ {0}))]
      /\ \A j \in Windowed \ {i} :
           /\ Has(LaneOf[j], "progress", j)' => Has(LaneOf[j], "progress", j)
           /\ waiter'[j] = waiter[j]
      /\ ~(Has(LaneOf[i], "progress", i)' /\ waiter'[i] # Idle)
      /\ Linked(i)' => handle[i] = k /\ k # 0 /\ ~UNCHANGED <<items, waiter>>
      /\ \A m \in Lane \ {l} : items'[m] = items[m] /\ stack'[m] = stack[m]
  BY <1>1, <1>5, Continuing
<1>7. PICK failed, complete :
        /\ Tells(i, k, failed, complete)
        /\ (failed = FALSE /\ complete = FALSE) \/ UNCHANGED <<items, waiter>>
  <2>1. CASE Tells(i, k, FALSE, FALSE)
    BY <2>1
  <2>2. CASE Tells(i, k, TRUE, FALSE) /\ UNCHANGED <<items, waiter>>
    BY <2>2
  <2>3. CASE Tells(i, k, FALSE, step'[i] > Dispatches) /\ UNCHANGED <<items, waiter>>
    BY <2>3
  <2>4. CASE Tells(i, k, FALSE, step'[i] > Dispatches) /\ ~(step'[i] > Dispatches)
    <3>1. (step'[i] > Dispatches) = FALSE
      BY <2>4
    <3> QED
      BY <2>4, <3>1
  <2> QED
    BY <1>1, <2>1, <2>2, <2>3, <2>4
<1>8. /\ UNCHANGED <<begun, handle>>
      /\ DOMAIN done' = Windowed /\ DOMAIN failure' = Windowed
      /\ handle[i] = k => done'[i] = complete /\ failure'[i] = failed
      /\ \A j \in Windowed \ {i} : done'[j] = done[j] /\ failure'[j] = failure[j]
  BY <1>2, <1>7, Telling
<1>9. Linked(i)' => handle'[i] # 0 /\ ~done'[i] /\ ~failure'[i]
  BY <1>6, <1>7, <1>8
<1>10. /\ step \in [Windowed -> 0..(Dispatches + 1)] /\ jobs \in [Windowed -> Nat]
       /\ DOMAIN broken = Windowed /\ DOMAIN future = Windowed /\ Dispatches \in Nat
  BY <1>2, LaneConstants DEF WavesTyped
<1>11. /\ step' \in [Windowed -> 0..(Dispatches + 1)] /\ jobs' \in [Windowed -> Nat]
       /\ DOMAIN broken' = Windowed /\ DOMAIN future' = Windowed
       /\ \A j \in Windowed \ {i} :
            /\ step'[j] = step[j] /\ jobs'[j] = jobs[j]
            /\ broken'[j] = broken[j] /\ future'[j] = future[j]
       /\ pos[i] # "abandon" /\ jobs'[i] > 0 => future'[i]
       /\ Closed(i) => jobs'[i] = 0 /\ (step'[i] > Dispatches \/ broken'[i])
  <2>1. CASE UNCHANGED <<window, native>> /\ WouldBlock(i)
    BY <1>4, <1>10, <2>1 DEF window, native, WouldBlock, Complete
  <2>2. CASE ~WouldBlock(i) /\ Breaks(i) /\ UNCHANGED <<step, jobs>>
    <3>1. /\ broken' = [broken EXCEPT ![i] = TRUE] /\ future' = [future EXCEPT ![i] = FALSE]
      BY <2>2 DEF Breaks
    <3>2. DOMAIN broken' = Windowed /\ DOMAIN future' = Windowed /\ broken'[i] = TRUE
          /\ \A j \in Windowed \ {i} : broken'[j] = broken[j] /\ future'[j] = future[j]
      BY <1>10, <3>1
    <3>3. pos[i] # "abandon" => jobs'[i] = 0
      BY <1>3, <2>2
    <3>4. Closed(i) => jobs'[i] = 0
      BY <1>4, <2>2
    <3>5. /\ step' \in [Windowed -> 0..(Dispatches + 1)] /\ jobs' \in [Windowed -> Nat]
          /\ \A j \in Windowed \ {i} : step'[j] = step[j] /\ jobs'[j] = jobs[j]
      BY <1>10, <2>2
    <3> QED
      BY <3>2, <3>3, <3>4, <3>5
  <2>3. CASE /\ ~WouldBlock(i) /\ UNCHANGED <<broken, step, native>>
    BY <1>3, <1>4, <1>10, <2>3 DEF native, Complete
  <2>4. CASE ~WouldBlock(i) /\ ~broken[i] /\ ~Complete(i) /\ Dispatch(i) /\ UNCHANGED broken
    <3>1. ~Closed(i)
      BY <1>4, <2>4
    <3>2. /\ step' = [step EXCEPT ![i] = step[i] + 1] /\ step[i] + 1 \in 0..(Dispatches + 1)
          /\ future' = [future EXCEPT ![i] = step[i] < Dispatches]
          /\ jobs' = [jobs EXCEPT ![i] = IF step[i] < Dispatches THEN jobs[i] + 1 ELSE jobs[i]]
      BY <1>10, <2>4 DEF Dispatch, Complete
    <3>3. /\ step' \in [Windowed -> 0..(Dispatches + 1)] /\ jobs' \in [Windowed -> Nat]
          /\ jobs'[i] = IF step[i] < Dispatches THEN jobs[i] + 1 ELSE jobs[i]
          /\ \A j \in Windowed \ {i} : step'[j] = step[j] /\ jobs'[j] = jobs[j]
      BY <1>10, <3>2
    <3>4. /\ DOMAIN future' = Windowed /\ future'[i] = (step[i] < Dispatches)
          /\ \A j \in Windowed \ {i} : future'[j] = future[j]
      BY <1>10, <3>2
    <3>5. pos[i] # "abandon" /\ jobs'[i] > 0 => step[i] < Dispatches
      BY <1>3, <2>4, <3>3
    <3>6. pos[i] # "abandon" /\ jobs'[i] > 0 => future'[i]
      BY <3>4, <3>5
    <3>7. DOMAIN broken' = Windowed /\ \A j \in Windowed \ {i} : broken'[j] = broken[j]
      BY <1>10, <2>4
    <3> QED
      BY <3>1, <3>3, <3>4, <3>6, <3>7
  <2> QED
    BY <1>1, <2>1, <2>2, <2>3, <2>4
<1>12. UNCHANGED <<caller, stopped, main, pos>>
  BY <1>1 DEF callers, iter
<1>13. \A m \in stopped : items'[m] = items[m] /\ stack'[m] = stack[m]
  <2>1. l \notin stopped /\ stopped \subseteq Lane
    BY <1>1, <1>2 DEF CallersInv, Running
  <2> QED
    BY <1>6, <2>1
<1>14. CallersInv'
  BY <1>2, <1>6, <1>12, <1>13, CallersRest
<1>15. WavesTyped'
  BY <1>2, <1>6, <1>8, <1>11, <1>12 DEF WavesTyped
<1>16. \A j \in Windowed \ {i} : Rests(j)
  BY <1>6, <1>8, <1>11, <1>12 DEF Rests
<1>17. WaveAt(i)'
  <2>1. Closed(i)' <=> Closed(i)
    BY <1>12 DEF Closed
  <2>2. main'[1] = "stop" => waiter'[i] = Idle
    <3>1. main'[1] = "stop" => Closed(i)
      BY <1>12 DEF Closed
    <3>2. waiter'[i] # Idle => Linked(i)'
      BY DEF Linked
    <3>3. Closed(i) => handle[i] = 0
      BY <1>2 DEF WaveAt
    <3> QED
      BY <1>8, <1>9, <3>1, <3>2, <3>3
  <2>3. Closed(i)' => handle'[i] = 0
    BY <1>2, <1>8, <2>1 DEF WaveAt
  <2> QED
    BY <1>4, <1>6, <1>8, <1>9, <1>11, <1>12, <2>1, <2>2, <2>3 DEF WaveAt, Complete
<1> QED
  BY <1>6, <1>12, <1>14, <1>15, <1>16, <1>17, OneWave

\* The completion thread is done with its wait: it submits the next progress
\* callback, or does not.
LEMMA NextLink ==
  ASSUME LaneInv, NEW i \in Windowed, waiter[i] # Idle, NEW k, k = waiter[i][2],
         waiter' = [waiter EXCEPT ![i] = Idle], stack' = stack,
         NextProgress(i, k) \/ items' = items
  PROVE  /\ LanesInv' /\ Fewer
         /\ waiter' \in [Windowed -> {Idle} \cup ({"queued", "joining"} \X (Nat \ {0}))]
         /\ waiter'[i] = Idle
         /\ \A j \in Windowed \ {i} :
              /\ Has(LaneOf[j], "progress", j)' => Has(LaneOf[j], "progress", j)
              /\ waiter'[j] = waiter[j]
         /\ Linked(i)' => items' # items
<1>1. /\ LanesInv /\ WavesTyped /\ WaveAt(i) /\ CallersInv
  BY DEF LaneInv
<1>2. waiter \in [Windowed -> {Idle} \cup ({"queued", "joining"} \X (Nat \ {0}))]
  BY <1>1 DEF WavesTyped
<1>3. k \in Nat \ {0} /\ ~Has(LaneOf[i], "progress", i) /\ main[1] # "stop"
  BY <1>1, <1>2 DEF WaveAt
<1>4. /\ waiter' \in [Windowed -> {Idle} \cup ({"queued", "joining"} \X (Nat \ {0}))]
      /\ waiter'[i] = Idle /\ \A j \in Windowed \ {i} : waiter'[j] = waiter[j]
  BY <1>2
<1>5. CASE items' = items
  <2>1. LanesInv' /\ Same
    BY <1>1, <1>5 DEF LanesInv, Same, Has
  <2> QED
    BY <1>3, <1>4, <2>1, LaneConstants DEF Same, Fewer, Linked
<1>6. CASE items' # items
  <2> DEFINE job == JobOf("progress", i, k)
  <2>1. PICK ripe \in BOOLEAN : items' = Submitted(LaneOf[i], job, ripe)
    BY <1>6 DEF NextProgress
  <2>2. /\ job \in Job /\ job.kind = "progress" /\ job.stage = i /\ JobAt(LaneOf[i], job)
        /\ LaneOf[i] \in Lane
    BY <1>3, LaneConstants DEF Job, Kind, JobOf, JobAt, Stage
  <2> HIDE DEF job
  <2>3. ~Has(LaneOf[i], "stop", 0)
    BY <1>1, <1>3, <2>2 DEF CallersInv
  <2>4. LanesInv' /\ Come(LaneOf[i], "progress", i)
    BY <1>1, <1>3, <2>1, <2>2, <2>3, Submits
  <2>5. /\ Fewer
        /\ \A j \in Windowed \ {i} :
             Has(LaneOf[j], "progress", j)' => Has(LaneOf[j], "progress", j)
    BY <2>4, LaneConstants DEF Come, Fewer
  <2> QED
    BY <1>4, <1>6, <2>4, <2>5
<1> QED
  BY <1>5, <1>6

LEMMA WaitKeepsLanes ==
  ASSUME LaneInv, NEW i \in Windowed, WaitStarts(i) \/ WaitEnds(i)
  PROVE  LaneInv'
<1> DEFINE k == waiter[i][2]
<1>1. /\ LanesInv /\ WavesTyped /\ WaveAt(i) /\ CallersInv
      /\ waiter \in [Windowed -> {Idle} \cup ({"queued", "joining"} \X (Nat \ {0}))]
      /\ DOMAIN future = Windowed /\ DOMAIN broken = Windowed /\ jobs \in [Windowed -> Nat]
  BY DEF LaneInv, WavesTyped
<1>2. /\ waiter[i] # Idle /\ k \in Nat \ {0}
      /\ WaitStarts(i) => waiter[i] = <<"queued", k>>
      /\ WaitEnds(i) => waiter[i] = <<"joining", k>> /\ jobs[i] = 0
  <2>1. /\ waiter[i][1] \in {"queued", "joining"}
        /\ WaitStarts(i) => waiter[i][1] = "queued"
        /\ WaitEnds(i) => waiter[i][1] = "joining" /\ jobs[i] = 0
    BY DEF WaitStarts, WaitEnds
  <2>2. Idle[1] = "idle"
    BY DEF Idle
  <2>3. waiter[i] # Idle
    BY <2>1, <2>2
  <2>4. waiter[i] \in {"queued", "joining"} \X (Nat \ {0})
    BY <1>1, <2>3
  <2>5. k \in Nat \ {0} /\ waiter[i] = <<waiter[i][1], k>>
    BY <2>4
  <2> QED
    BY <2>1, <2>3, <2>5
<1>3. /\ main[1] # "stop" /\ ~Has(LaneOf[i], "progress", i) /\ Linked(i)
      /\ stopped = {}
  BY <1>1, <1>2 DEF WaveAt, Linked, CallersInv
<1>4. UNCHANGED <<stack, stopped, caller, pos, step, jobs, main>>
  BY DEF WaitStarts, WaitEnds, callers, iter, window, native
<1>5. /\ UNCHANGED <<begun, handle>> /\ DOMAIN done' = Windowed /\ DOMAIN failure' = Windowed
      /\ \A j \in Windowed \ {i} : done'[j] = done[j] /\ failure'[j] = failure[j]
  <2>1. wave' = wave \/ Tells(i, k, TRUE, FALSE)
    BY DEF WaitStarts, WaitEnds
  <2> QED
    BY <1>1, <2>1, Telling DEF wave, WavesTyped
<1>6. /\ DOMAIN future' = Windowed /\ DOMAIN broken' = Windowed
      /\ \A j \in Windowed \ {i} : future'[j] = future[j] /\ broken'[j] = broken[j]
      /\ broken[i] => broken'[i]
  <2>1. /\ broken' = broken \/ broken' = [broken EXCEPT ![i] = TRUE]
        /\ future' = future \/ future' = [future EXCEPT ![i] = FALSE]
    BY DEF WaitStarts, WaitEnds, window, native
  <2> QED
    BY <1>1, <2>1, Zenon
<1>7. CASE WaitStarts(i) /\ ~broken[i] /\ future[i]
  <2>1. /\ waiter' = [waiter EXCEPT ![i] = <<"joining", k>>] /\ items' = items /\ wave' = wave
    BY <1>7 DEF WaitStarts
  <2>2. /\ waiter' \in [Windowed -> {Idle} \cup ({"queued", "joining"} \X (Nat \ {0}))]
        /\ waiter'[i] = <<"joining", k>> /\ \A j \in Windowed \ {i} : waiter'[j] = waiter[j]
    BY <1>1, <1>2, <2>1
  <2>3. LanesInv' /\ Same
    BY <1>1, <1>4, <2>1 DEF LanesInv, Same, Has
  <2>4. Fewer
    BY <2>3 DEF Same, Fewer
  <2>5. CallersInv'
    BY <1>1, <1>3, <1>4, <2>4, CallersRest
  <2>6. WavesTyped'
    BY <1>1, <1>4, <1>5, <1>6, <2>2 DEF WavesTyped
  <2>7. \A j \in Windowed \ {i} : Rests(j)
    BY <1>4, <1>5, <1>6, <2>2, <2>3, LaneConstants DEF Rests, Same
  <2>8. WaveAt(i)'
    <3>1. ~Has(LaneOf[i], "progress", i)'
      BY <1>3, <2>3, LaneConstants DEF Same
    <3>2. Closed(i)' <=> Closed(i)
      BY <1>4 DEF Closed
    <3>3. done' = done /\ failure' = failure
      BY <2>1 DEF wave
    <3>4. Closed(i)' => /\ handle'[i] = 0 /\ jobs'[i] = 0
                        /\ pos'[i] = "abandon" => (Complete(i) \/ broken[i])'
      BY <1>1, <1>4, <1>5, <1>6, <3>2 DEF WaveAt, Complete
    <3> QED
      BY <1>1, <1>3, <1>4, <1>5, <2>2, <3>1, <3>3, <3>4 DEF WaveAt
  <2> QED
    BY <1>4, <2>3, <2>5, <2>6, <2>7, <2>8, OneWave
<1>8. CASE ~(WaitStarts(i) /\ ~broken[i] /\ future[i])
  <2>1. /\ waiter' = [waiter EXCEPT ![i] = Idle]
        /\ \/ Tells(i, k, TRUE, FALSE) /\ items' = items
           \/ NextProgress(i, k) /\ wave' = wave
        /\ WaitStarts(i) => future' = future
    BY <1>8 DEF WaitStarts, WaitEnds, native
  <2>2. /\ LanesInv' /\ Fewer
        /\ waiter' \in [Windowed -> {Idle} \cup ({"queued", "joining"} \X (Nat \ {0}))]
        /\ waiter'[i] = Idle
        /\ \A j \in Windowed \ {i} :
             /\ Has(LaneOf[j], "progress", j)' => Has(LaneOf[j], "progress", j)
             /\ waiter'[j] = waiter[j]
        /\ Linked(i)' => items' # items
    BY <1>2, <1>4, <2>1, NextLink
  <2>3. Linked(i)' => done' = done /\ failure' = failure
    BY <2>1, <2>2 DEF wave
  <2>4. CallersInv'
    BY <1>1, <1>3, <1>4, <2>2, CallersRest
  <2>5. WavesTyped'
    BY <1>1, <1>4, <1>5, <1>6, <2>2 DEF WavesTyped
  <2>6. \A j \in Windowed \ {i} : Rests(j)
    BY <1>4, <1>5, <1>6, <2>2, LaneConstants DEF Rests
  <2>7. WaveAt(i)'
    <3>1. pos'[i] # "abandon" /\ jobs'[i] > 0 => future'[i]
      BY <1>1, <1>2, <1>4, <2>1 DEF WaveAt
    <3>2. Closed(i)' <=> Closed(i)
      BY <1>4 DEF Closed
    <3>3. Closed(i)' => /\ handle'[i] = 0 /\ jobs'[i] = 0
                        /\ pos'[i] = "abandon" => (Complete(i) \/ broken[i])'
      BY <1>1, <1>4, <1>5, <1>6, <3>2 DEF WaveAt, Complete
    <3>4. Linked(i)' => pos'[i] = "abandon" \/ (handle'[i] # 0 /\ ~done'[i] /\ ~failure'[i])
      BY <1>1, <1>3, <1>4, <1>5, <2>3 DEF WaveAt
    <3> QED
      BY <1>1, <1>4, <1>5, <2>2, <3>1, <3>3, <3>4 DEF WaveAt
  <2> QED
    BY <1>4, <2>2, <2>4, <2>5, <2>6, <2>7, OneWave
<1> QED
  BY <1>7, <1>8

\* The steps that leave the lanes alone.
LEMMA LanesStill ==
  ASSUME LaneInv, UNCHANGED <<items, stack>>
  PROVE  LanesInv' /\ Same /\ Fewer
<1>1. LanesInv' /\ Same
  BY DEF LaneInv, LanesInv, Same, Has
<1> QED
  BY <1>1 DEF Same, Fewer

LEMMA WorkerKeeps ==
  ASSUME LaneInv, NEW i \in Windowed, WorkerFinishes(i)
  PROVE  LaneInv'
<1>1. /\ WavesTyped /\ WaveAt(i) /\ CallersInv /\ jobs \in [Windowed -> Nat]
  BY DEF LaneInv, WavesTyped
<1>2. /\ jobs[i] > 0 /\ jobs' = [jobs EXCEPT ![i] = @ - 1]
      /\ UNCHANGED <<lanes, callers, iter, wave, window, future, ends>>
  BY DEF WorkerFinishes
<1>3. LanesInv' /\ Same /\ Fewer
  BY <1>2, LanesStill DEF lanes
<1>4. /\ jobs' \in [Windowed -> Nat] /\ jobs'[i] = jobs[i] - 1
      /\ \A j \in Windowed \ {i} : jobs'[j] = jobs[j]
  BY <1>1, <1>2
<1>5. CallersInv'
  BY <1>1, <1>2, <1>3, CallersRest DEF lanes, callers, ends
<1>6. WavesTyped'
  BY <1>1, <1>2, <1>4 DEF WavesTyped, iter, wave, window, ends
<1>7. \A j \in Windowed \ {i} : Rests(j)
  BY <1>2, <1>3, <1>4, LaneConstants DEF Same, Rests, iter, wave, window, ends
<1>8. WaveAt(i)'
  <2>1. ~Closed(i)'
    BY <1>1, <1>2 DEF WaveAt, Closed, ends
  <2>2. Linked(i)' <=> Linked(i)
    BY <1>2, <1>3, LaneConstants DEF Linked, Same, ends
  <2>3. ~(Has(LaneOf[i], "progress", i)' /\ waiter'[i] # Idle)
    BY <1>1, <1>2, <1>3, LaneConstants DEF WaveAt, Same, ends
  <2>4. jobs[i] > 0
    BY <1>2
  <2> QED
    BY <1>1, <1>2, <2>1, <2>2, <2>3, <2>4 DEF WaveAt, iter, wave, window, ends
<1> QED
  BY <1>2, <1>3, <1>5, <1>6, <1>7, <1>8, OneWave DEF ends

\* While a stage closes, the closing thread waits for it.
LEMMA InClose ==
  ASSUME LaneInv, NEW l \in Lane, Running(l, "close")
  PROVE  LET i == Top(l).job.stage
         IN  /\ i \in Stage /\ LaneOf[i] = l /\ Has(l, "close", i)
             /\ main = <<"closing", i>> /\ stopped = {} /\ ~Closed(i)
<1> DEFINE i == Top(l).job.stage
<1>1. /\ LanesInv /\ CallersInv /\ stack[l] # <<>> /\ Top(l).job.kind = "close"
  BY DEF LaneInv, Running
<1>2. Has(l, "close", i)
  BY <1>1, Atop
<1>3. i \in Stage /\ LaneOf[i] = l
  BY <1>1, <1>2, HasAt
<1>4. main = <<"closing", i>>
  BY <1>1, <1>2 DEF CallersInv
<1>5. stopped = {}
  BY <1>1, <1>4 DEF CallersInv
<1>6. ~Closed(i)
  <2>1. main[1] = "closing" /\ main[2] = i /\ i \in Int
    BY <1>3, <1>4 DEF Stage
  <2> QED
    BY <2>1 DEF Closed
<1> QED
  BY <1>2, <1>3, <1>4, <1>5, <1>6

LEMMA AbandonKeepsLanes ==
  ASSUME LaneInv, NEW l \in Lane, Abandon(l) \/ AbandonAdvances(l)
  PROVE  LaneInv'
<1>1. PICK i \in Windowed : Running(l, "close") /\ Top(l).job.stage = i
             /\ \/ /\ handle[i] # 0 /\ handle' = [handle EXCEPT ![i] = 0]
                   /\ done' = [done EXCEPT ![i] = FALSE] /\ failure' = [failure EXCEPT ![i] = FALSE]
                   /\ pos' = [pos EXCEPT ![i] = "abandon"]
                   /\ UNCHANGED <<lanes, callers, begun, window, native, ends>>
                \/ /\ pos[i] = "abandon" /\ ~Complete(i)
                   /\ \/ Breaks(i) /\ UNCHANGED <<step, jobs, bad>>
                      \/ Dispatch(i) /\ UNCHANGED broken
                   /\ UNCHANGED <<lanes, callers, iter, wave, ends>>
  BY DEF Abandon, AbandonAdvances, Goto
<1>2. /\ WavesTyped /\ WaveAt(i) /\ CallersInv
      /\ pos \in [Windowed -> {"feed", "buffer", "handoff", "begun", "fed", "drain", "abandon"}]
      /\ handle \in [Windowed -> Nat] /\ jobs \in [Windowed -> Nat]
      /\ step \in [Windowed -> 0..(Dispatches + 1)] /\ Dispatches \in Nat
      /\ DOMAIN done = Windowed /\ DOMAIN failure = Windowed
      /\ DOMAIN broken = Windowed /\ DOMAIN future = Windowed
  BY LaneConstants DEF LaneInv, WavesTyped
<1>3. main = <<"closing", i>> /\ ~Closed(i) /\ main' = main
  BY <1>1, InClose DEF ends
<1>4. LanesInv' /\ Same /\ Fewer
  BY <1>1, LanesStill DEF lanes
<1>5. CallersInv'
  BY <1>1, <1>2, <1>4, CallersRest DEF lanes, callers, ends
<1>6. /\ pos' \in [Windowed -> {"feed", "buffer", "handoff", "begun", "fed", "drain", "abandon"}]
      /\ handle' \in [Windowed -> Nat] /\ pos'[i] = "abandon" /\ handle'[i] = 0
      /\ DOMAIN done' = Windowed /\ DOMAIN failure' = Windowed
      /\ \A j \in Windowed \ {i} : /\ pos'[j] = pos[j] /\ handle'[j] = handle[j]
                                   /\ done'[j] = done[j] /\ failure'[j] = failure[j]
  <2>1. CASE pos[i] = "abandon" /\ UNCHANGED <<iter, wave>>
    BY <1>2, <2>1 DEF WaveAt, iter, wave
  <2>2. CASE /\ handle' = [handle EXCEPT ![i] = 0]
             /\ done' = [done EXCEPT ![i] = FALSE] /\ failure' = [failure EXCEPT ![i] = FALSE]
             /\ pos' = [pos EXCEPT ![i] = "abandon"]
    BY <1>2, <2>2
  <2> QED
    BY <1>1, <2>1, <2>2
<1>7. /\ step' \in [Windowed -> 0..(Dispatches + 1)] /\ jobs' \in [Windowed -> Nat]
      /\ DOMAIN broken' = Windowed /\ DOMAIN future' = Windowed
      /\ \A j \in Windowed \ {i} : /\ step'[j] = step[j] /\ jobs'[j] = jobs[j]
                                   /\ broken'[j] = broken[j] /\ future'[j] = future[j]
  <2>1. CASE UNCHANGED <<window, native>>
    BY <1>2, <2>1 DEF window, native
  <2>2. CASE Breaks(i) /\ UNCHANGED <<step, jobs, bad>>
    <3>1. DOMAIN broken' = Windowed /\ DOMAIN future' = Windowed
          /\ \A j \in Windowed \ {i} : broken'[j] = broken[j] /\ future'[j] = future[j]
      BY <1>2, <2>2 DEF Breaks
    <3> QED
      BY <1>2, <2>2, <3>1
  <2>3. CASE ~Complete(i) /\ Dispatch(i) /\ UNCHANGED broken
    <3>1. /\ step' = [step EXCEPT ![i] = step[i] + 1] /\ step[i] + 1 \in 0..(Dispatches + 1)
          /\ future' = [future EXCEPT ![i] = step[i] < Dispatches]
          /\ jobs' = [jobs EXCEPT ![i] = IF step[i] < Dispatches THEN jobs[i] + 1 ELSE jobs[i]]
      BY <1>2, <2>3 DEF Dispatch, Complete
    <3>2. /\ step' \in [Windowed -> 0..(Dispatches + 1)] /\ jobs' \in [Windowed -> Nat]
          /\ \A j \in Windowed \ {i} : step'[j] = step[j] /\ jobs'[j] = jobs[j]
      BY <1>2, <3>1
    <3>3. DOMAIN future' = Windowed /\ \A j \in Windowed \ {i} : future'[j] = future[j]
      BY <1>2, <3>1
    <3> QED
      BY <1>2, <2>3, <3>2, <3>3
  <2> QED
    BY <1>1, <2>1, <2>2, <2>3
<1>8. begun' = begun /\ waiter' = waiter
  BY <1>1 DEF wave, ends
<1>9. WavesTyped'
  BY <1>2, <1>6, <1>7, <1>8 DEF WavesTyped
<1>10. \A j \in Windowed \ {i} : Rests(j)
  BY <1>4, <1>6, <1>7, <1>8, LaneConstants DEF Same, Rests
<1>11. WaveAt(i)'
  <2>1. ~Closed(i)'
    BY <1>3 DEF Closed
  <2>2. ~(Has(LaneOf[i], "progress", i)' /\ waiter'[i] # Idle)
    BY <1>2, <1>4, <1>8, LaneConstants DEF WaveAt, Same
  <2> QED
    BY <1>3, <1>6, <2>1, <2>2 DEF WaveAt
<1> QED
  BY <1>3, <1>4, <1>5, <1>9, <1>10, <1>11, OneWave

\* A step of the closing thread: a stage that it is now past can be closed.
LEMMA MainMoves ==
  ASSUME LaneInv, LanesInv', CallersInv', \A j \in Windowed : Rests(j), WavesTyped',
         \A j \in Windowed : Closed(j)' => Closed(j) \/ Closable(j),
         main'[1] = "stop" => main[1] = "stop" \/ \A j \in Windowed : waiter[j] = Idle
  PROVE  LaneInv'
<1>1. ASSUME NEW i \in Windowed
      PROVE  WaveAt(i)'
  <2>1. WaveAt(i) /\ Rests(i)
    BY DEF LaneInv
  <2>2. Linked(i)' => Linked(i)
    BY <2>1 DEF Linked, Rests
  <2>3. ~(Has(LaneOf[i], "progress", i)' /\ waiter'[i] # Idle)
    BY <2>1 DEF WaveAt, Rests
  <2>4. Linked(i)' => pos'[i] = "abandon" \/ (handle'[i] # 0 /\ ~done'[i] /\ ~failure'[i])
    BY <2>1, <2>2 DEF WaveAt, Rests
  <2>5. /\ pos'[i] = "abandon" => handle'[i] = 0
        /\ pos'[i] # "abandon" /\ jobs'[i] > 0 => future'[i] \/ waiter'[i][1] = "joining"
        /\ main'[1] = "stop" => waiter'[i] = Idle
    BY <2>1 DEF WaveAt, Rests
  <2>6. Closed(i)' => /\ handle'[i] = 0 /\ jobs'[i] = 0
                      /\ pos'[i] = "abandon" => (Complete(i) \/ broken[i])'
    <3>1. Closed(i) \/ Closable(i) => /\ handle[i] = 0 /\ jobs[i] = 0
                                      /\ pos[i] = "abandon" => Complete(i) \/ broken[i]
      BY <2>1 DEF WaveAt, Closable
    <3> QED
      BY <2>1, <3>1 DEF Rests, Complete
  <2> QED
    BY <2>3, <2>4, <2>5, <2>6 DEF WaveAt
<1> QED
  BY <1>1 DEF LaneInv

LEMMA CloseKeeps ==
  ASSUME LaneInv, NEW l \in Lane, CloseEnds(l)
  PROVE  LaneInv'
<1> DEFINE i == Top(l).job.stage
<1>1. /\ Running(l, "close") /\ (i \in Windowed => Closable(i)) /\ Leave(l)
      /\ main' = IF main[2] > 1 THEN <<"close", main[2] - 1>> ELSE <<"shutdown", 0>>
      /\ UNCHANGED <<items, stopped, callers, iter, wave, window, native, waits, waiter, cancelled>>
  BY DEF CloseEnds
<1>2. /\ i \in Stage /\ LaneOf[i] = l /\ main = <<"closing", i>> /\ stopped = {}
      /\ LanesInv /\ CallersInv /\ N \in Nat \ {0}
  BY <1>1, InClose, LaneConstants DEF LaneInv
<1>3. LanesInv' /\ Gone(l, "close", i)
  BY <1>1, <1>2, Leaves DEF Leave, Running
<1>4. /\ main' = IF i > 1 THEN <<"close", i - 1>> ELSE <<"shutdown", 0>>
      /\ i > 1 => i - 1 \in Stage
  BY <1>1, <1>2 DEF Stage
<1> HIDE DEF i
<1>5. CallersInv'
  <2>1. ASSUME NEW m \in Lane, NEW j, Has(m, "close", j)'
        PROVE  FALSE
    <3>1. Has(m, "close", j) /\ ~(m = l /\ j = i)
      BY <1>3, <2>1 DEF Gone
    <3>2. main = <<"closing", j>> /\ LaneOf[j] = m
      BY <1>2, <3>1, HasAt DEF CallersInv
    <3> QED
      BY <1>2, <3>1, <3>2
  <2>2. \A m \in Lane : \A j : Has(m, "call", j)' => caller'[j] = "calling"
    BY <1>1, <1>2, <1>3 DEF Gone, CallersInv, callers
  <2>3. \A m \in Lane : ~Has(m, "stop", 0)'
    BY <1>2, <1>3 DEF Gone, CallersInv
  <2>4. \/ main' \in {<<"join", 0>>, <<"shutdown", 0>>, <<"stop", 0>>}
        \/ \E j \in Stage : main' \in {<<"close", j>>, <<"closing", j>>}
    BY <1>4
  <2>5. DOMAIN caller' = Stage /\ \A j \in Stage : caller'[j] = "done"
    BY <1>1, <1>2 DEF CallersInv, callers
  <2> QED
    BY <1>1, <1>2, <2>1, <2>2, <2>3, <2>4, <2>5 DEF CallersInv
<1>6. \A j \in Windowed : Rests(j)
  BY <1>1, <1>3, LaneConstants DEF Gone, Rests, iter, wave, window, native
<1>7. WavesTyped'
  BY <1>1 DEF LaneInv, WavesTyped, iter, wave, window, native
<1>8. ASSUME NEW j \in Windowed, Closed(j)'
      PROVE  Closed(j) \/ Closable(j)
  <2>1. i \in 1..N /\ j \in 1..N /\ main[1] = "closing" /\ main[2] = i
    BY <1>2, LaneConstants DEF Stage
  <2>2. j >= i
    <3>1. CASE i > 1
      <4>1. main'[1] = "close" /\ main'[2] = i - 1
        BY <1>4, <3>1
      <4> QED
        BY <1>8, <2>1, <4>1 DEF Closed
    <3>2. CASE ~(i > 1)
      BY <2>1, <3>2
    <3> QED
      BY <3>1, <3>2
  <2>3. CASE j = i
    BY <1>1, <2>3 DEF i
  <2>4. CASE j # i
    BY <2>1, <2>2, <2>4 DEF Closed
  <2> QED
    BY <2>3, <2>4
<1>9. main'[1] # "stop"
  BY <1>4
<1> QED
  BY <1>3, <1>5, <1>6, <1>7, <1>8, <1>9, MainMoves

\* A stage that calls, or that gives up.
LEMMA StageKeeps ==
  ASSUME LaneInv, NEW i \in Stage, StageStep(i)
  PROVE  LaneInv'
<1>1. LanesInv /\ CallersInv /\ LaneOf[i] \in Lane /\ Windowed \subseteq Stage
  BY LaneConstants DEF LaneInv
<1>2. /\ caller[i] = "idle" /\ UNCHANGED <<stack, stopped, iter, wave, window, native, waiter, main>>
  BY DEF StageStep, Calling, GivesUp, lanes, ends
<1>3. main[1] = "join" /\ stopped = {}
  BY <1>1, <1>2 DEF CallersInv
<1>4. \A m \in Lane : ~Has(m, "call", i) /\ ~Has(m, "stop", 0)
  BY <1>1, <1>2, <1>3 DEF CallersInv
<1>5. LanesInv' /\ \A m \in Lane : \A kind, j :
        Has(m, kind, j)' =>
          Has(m, kind, j) \/ (kind = "call" /\ j = i /\ caller'[i] = "calling")
  <2>1. CASE Calling(i)
    <3> DEFINE job == JobOf("call", i, 0)
    <3>1. /\ job \in Job /\ job.kind = "call" /\ job.stage = i /\ JobAt(LaneOf[i], job)
      BY LaneConstants DEF Job, Kind, JobOf, JobAt, Stage
    <3>2. items' = Submitted(LaneOf[i], job, TRUE)
      BY <2>1 DEF Calling
    <3> HIDE DEF job
    <3>3. LanesInv' /\ Come(LaneOf[i], "call", i)
      BY <1>1, <1>2, <1>4, <3>1, <3>2, Submits
    <3>4. caller'[i] = "calling"
      BY <1>1, <2>1 DEF Calling, CallersInv
    <3> QED
      BY <3>3, <3>4 DEF Come
  <2>2. CASE GivesUp(i)
    BY <2>2, LanesStill DEF GivesUp, lanes, Same
  <2> QED
    BY <2>1, <2>2 DEF StageStep
<1>6. DOMAIN caller' = Stage /\ \A j \in Stage \ {i} : caller'[j] = caller[j]
  BY <1>1 DEF StageStep, Calling, GivesUp, CallersInv
<1>7. ASSUME NEW m \in Lane, NEW j, Has(m, "call", j)'
      PROVE  caller'[j] = "calling"
  <2>1. CASE j = i
    BY <1>4, <1>5, <1>7, <2>1
  <2>2. CASE j # i
    <3>1. Has(m, "call", j)
      BY <1>5, <1>7, <2>2
    <3>2. j \in Stage /\ caller[j] = "calling"
      BY <1>1, <3>1, HasAt DEF CallersInv
    <3> QED
      BY <1>6, <2>2, <3>2
  <2> QED
    BY <2>1, <2>2
<1>8. /\ \A m \in Lane : \A j : Has(m, "close", j)' => main' = <<"closing", j>>
      /\ \A m \in Lane : Has(m, "stop", 0)' => main'[1] = "stop"
  BY <1>1, <1>2, <1>5 DEF CallersInv
<1>9. CallersInv'
  BY <1>1, <1>2, <1>3, <1>6, <1>7, <1>8 DEF CallersInv
<1>10. WavesTyped'
  BY <1>2 DEF LaneInv, WavesTyped, iter, wave, window, native
<1>11. \A j \in Windowed : Rests(j)
  BY <1>2, <1>5, LaneConstants DEF Rests, iter, wave, window, native
<1>12. \A j \in Windowed : WaveAt(j)'
  BY <1>2, <1>11, WaveRests DEF LaneInv
<1> QED
  BY <1>5, <1>9, <1>10, <1>12 DEF LaneInv

LEMMA MainKeeps ==
  ASSUME LaneInv, MainStep
  PROVE  LaneInv'
<1>1. /\ LanesInv /\ CallersInv /\ WavesTyped /\ N \in Nat \ {0} /\ Windowed \subseteq Stage
      /\ LaneOf \in [Stage -> Lane]
  BY LaneConstants DEF LaneInv
<1>2. CASE MainJoins
  <2>1. /\ main[1] = "join" /\ main' = <<"close", N>> /\ \A i \in Stage : caller[i] = "done"
        /\ UNCHANGED <<lanes, callers, iter, wave, window, native, waiter>>
    BY <1>2 DEF MainJoins
  <2>2. LanesInv' /\ Same
    BY <2>1, LanesStill DEF lanes
  <2>3. /\ \A m \in Lane : \A j : ~Has(m, "close", j)'
        /\ \A m \in Lane : ~Has(m, "stop", 0)'
        /\ \A m \in Lane : \A j : Has(m, "call", j)' => caller'[j] = "calling"
    BY <1>1, <2>1, <2>2 DEF CallersInv, Same, callers
  <2>4. CallersInv'
    BY <1>1, <2>1, <2>3 DEF CallersInv, lanes, callers, Stage
  <2>5. \A j \in Windowed : Rests(j)
    BY <2>1, <2>2, LaneConstants DEF Same, Rests, iter, wave, window, native
  <2>6. WavesTyped'
    BY <1>1, <2>1 DEF WavesTyped, iter, wave, window, native
  <2>7. \A j \in Windowed : ~Closed(j)'
    <3>1. main'[1] = "close" /\ main'[2] = N
      BY <2>1
    <3> QED
      BY <1>1, <3>1 DEF Closed, Stage
  <2>8. main'[1] # "stop"
    BY <2>1
  <2> QED
    BY <2>2, <2>4, <2>5, <2>6, <2>7, <2>8, MainMoves
<1>3. CASE MainCloses
  <2>1. PICK i \in Stage : main = <<"close", i>>
    BY <1>1, <1>3 DEF MainCloses, CallersInv
  <2> DEFINE job == JobOf("close", i, 0)
  <2>2. /\ main' = <<"closing", i>> /\ items' = Submitted(LaneOf[i], job, TRUE)
        /\ UNCHANGED <<stack, stopped, permits, callers, iter, wave, window, native, waiter>>
    BY <1>3, <2>1 DEF MainCloses
  <2>3. /\ job \in Job /\ job.kind = "close" /\ job.stage = i /\ JobAt(LaneOf[i], job)
        /\ LaneOf[i] \in Lane
    BY <1>1 DEF Job, Kind, JobOf, JobAt, Stage
  <2> HIDE DEF job
  <2>4. \A m \in Lane : (\A j : ~Has(m, "close", j)) /\ ~Has(m, "stop", 0)
    BY <1>1, <2>1 DEF CallersInv
  <2>5. LanesInv' /\ Come(LaneOf[i], "close", i)
    BY <1>1, <2>2, <2>3, <2>4, Submits
  <2>6. /\ \A m \in Lane : \A j : Has(m, "close", j)' => j = i
        /\ \A m \in Lane : ~Has(m, "stop", 0)'
        /\ \A m \in Lane : \A j : Has(m, "call", j)' => caller'[j] = "calling"
    BY <1>1, <2>2, <2>4, <2>5 DEF CallersInv, Come, callers
  <2>7. stopped = {} /\ \A j \in Stage : caller[j] = "done"
    BY <1>1, <2>1 DEF CallersInv
  <2>8. CallersInv'
    BY <1>1, <2>2, <2>6, <2>7 DEF CallersInv, callers
  <2>9. \A j \in Windowed : Rests(j)
    BY <2>2, <2>5, LaneConstants DEF Come, Rests, iter, wave, window, native
  <2>10. WavesTyped'
    BY <1>1, <2>2 DEF WavesTyped, iter, wave, window, native
  <2>11. \A j \in Windowed : Closed(j)' => Closed(j)
    BY <2>1, <2>2 DEF Closed
  <2>12. main'[1] # "stop"
    BY <2>2
  <2> QED
    BY <2>5, <2>8, <2>9, <2>10, <2>11, <2>12, MainMoves
<1>4. CASE Shutdown
  <2>1. /\ main[1] = "shutdown" /\ main' = <<"stop", 0>> /\ \A i \in Windowed : waiter[i] = Idle
        /\ UNCHANGED <<lanes, callers, iter, wave, window, native, waiter>>
    BY <1>4 DEF Shutdown
  <2>2. LanesInv' /\ Same
    BY <2>1, LanesStill DEF lanes
  <2>3. /\ \A m \in Lane : \A j : ~Has(m, "close", j)'
        /\ \A m \in Lane : \A j : Has(m, "call", j)' => caller'[j] = "calling"
    BY <1>1, <2>1, <2>2 DEF CallersInv, Same, callers
  <2>4. CallersInv'
    BY <1>1, <2>1, <2>3 DEF CallersInv, lanes, callers
  <2>5. \A j \in Windowed : Rests(j)
    BY <2>1, <2>2, LaneConstants DEF Same, Rests, iter, wave, window, native
  <2>6. WavesTyped'
    BY <1>1, <2>1 DEF WavesTyped, iter, wave, window, native
  <2>7. \A j \in Windowed : Closed(j)
    BY <2>1 DEF Closed
  <2> QED
    BY <2>1, <2>2, <2>4, <2>5, <2>6, <2>7, MainMoves
<1>5. ASSUME NEW l \in Lane, StopLane(l)
      PROVE  LaneInv'
  <2> DEFINE job == JobOf("stop", 0, 0)
             ripe == Ripe(l) = DOMAIN items[l]
  <2>1. /\ main[1] = "stop" /\ l \notin stopped /\ items' = Submitted(l, job, ripe)
        /\ \A n \in DOMAIN items[l] : items[l][n].job.kind # "stop"
        /\ UNCHANGED <<stack, stopped, permits, callers, iter, wave, window, native, ends>>
    BY <1>5 DEF StopLane
  <2>2. job \in Job /\ job.kind = "stop" /\ job.stage = 0 /\ JobAt(l, job)
    BY DEF Job, Kind, JobOf, JobAt
  <2>3. ripe \in BOOLEAN /\ (ripe => \A n \in DOMAIN items[l] : items[l][n].ripe)
    BY DEF Ripe
  <2>4. ~Has(l, "stop", 0)
    <3>1. Placed(l, items[l], stack[l])
      BY <1>1, LaneParts
    <3> QED
      BY <2>1, <3>1 DEF Has, Holds, Placed
  <2> HIDE DEF job, ripe
  <2>5. LanesInv' /\ Come(l, "stop", 0)
    BY <1>1, <2>1, <2>2, <2>3, <2>4, Submits
  <2>6. \A m \in stopped : items'[m] = items[m]
    BY <1>1, <2>1 DEF CallersInv, LanesInv, Submitted
  <2>7. \A m \in Lane : \A j : /\ Has(m, "call", j)' => Has(m, "call", j)
                               /\ Has(m, "close", j)' => Has(m, "close", j)
    BY <2>5 DEF Come
  <2>8. CallersInv'
    BY <1>1, <2>1, <2>6, <2>7 DEF CallersInv, callers, ends
  <2>9. \A j \in Windowed : Rests(j)
    BY <2>1, <2>5, LaneConstants DEF Come, Rests, iter, wave, window, native, ends
  <2>10. WavesTyped'
    BY <1>1, <2>1 DEF WavesTyped, iter, wave, window, native, ends
  <2>11. \A j \in Windowed : WaveAt(j)'
    BY <2>1, <2>9, WaveRests DEF LaneInv, ends
  <2> QED
    BY <2>5, <2>8, <2>10, <2>11 DEF LaneInv
<1> QED
  BY <1>2, <1>3, <1>4, <1>5 DEF MainStep

LEMMA PlainKeeps ==
  ASSUME LaneInv, NEW l \in Lane, PlainCall(l)
  PROVE  LaneInv'
<1>1. PICK i \in Stage \ Windowed :
        /\ Called(l, i) /\ Leave(l)
        /\ caller' = [caller EXCEPT ![i] = IF count[i] + 1 = Calls THEN "done" ELSE "idle"]
        /\ UNCHANGED <<items, stopped, iter, wave, window, native, ends>>
  BY DEF PlainCall
<1>2. \E x \in {"idle", "done"} : caller' = [caller EXCEPT ![i] = x]
  BY <1>1
<1>3. /\ pos' \in [Windowed -> {"feed", "buffer", "handoff", "begun", "fed", "drain", "abandon"}]
      /\ pos' = pos /\ UNCHANGED <<waiter, main>>
  BY <1>1 DEF LaneInv, WavesTyped, iter, ends
<1> QED
  BY <1>1, <1>2, <1>3, Returns

LEMMA InitLanes ==
  ASSUME Init
  PROVE  LaneInv
<1>1. \A l \in Lane : items[l] = <<>> /\ stack[l] = <<>>
  BY DEF Init
<1>2. \A l \in Lane : \A kind, i : ~Has(l, kind, i)
  BY <1>1 DEF Has, Holds
<1>3. LanesInv
  <2>1. items \in [Lane -> Seq(Item)] /\ stack \in [Lane -> Seq(Frame)]
    BY DEF Init
  <2>2. \A l \in Lane : Placed(l, <<>>, <<>>)
    BY DEF Placed, Single, Holds
  <2> QED
    BY <1>1, <2>1, <2>2 DEF LanesInv
<1>4. CallersInv
  BY <1>2 DEF Init, CallersInv
<1>5. WavesTyped
  BY LaneConstants DEF Init, WavesTyped, Idle
<1>6. ASSUME NEW i \in Windowed
      PROVE  WaveAt(i)
  <2>1. /\ pos[i] = "feed" /\ handle[i] = 0 /\ jobs[i] = 0 /\ waiter[i] = Idle
        /\ main = <<"join", 0>> /\ LaneOf[i] \in Lane
    BY LaneConstants DEF Init
  <2>2. ~Linked(i) /\ ~Closed(i)
    BY <1>2, <2>1 DEF Linked, Closed
  <2> QED
    BY <1>2, <2>1, <2>2 DEF WaveAt
<1> QED
  BY <1>3, <1>4, <1>5, <1>6 DEF LaneInv

LEMMA LaneInvStep ==
  ASSUME LaneInv, [Next]_vars
  PROVE  LaneInv'
<1>1. CASE UNCHANGED vars \/ Cancel \/ Ended \/ \E l \in Lane : Polls(l)
  <2>1. UNCHANGED <<lanes, callers, iter, wave, window, native, waiter, main>>
    BY <1>1 DEF Polls, Cancel, Ended, vars, ends
  <2>2. LanesInv' /\ Same /\ Fewer
    BY <2>1, LanesStill DEF lanes
  <2>3. CallersInv'
    BY <2>1, <2>2, CallersRest DEF LaneInv, lanes, callers
  <2>4. WavesTyped'
    BY <2>1 DEF LaneInv, WavesTyped, iter, wave, window, native
  <2>5. \A j \in Windowed : Rests(j)
    BY <2>1, <2>2, LaneConstants DEF Same, Rests, iter, wave, window, native
  <2>6. \A j \in Windowed : WaveAt(j)'
    BY <2>1, <2>5, WaveRests DEF LaneInv
  <2> QED
    BY <2>2, <2>3, <2>4, <2>6 DEF LaneInv
<1>2. ASSUME NEW l \in Lane, LaneStep(l) \/ Ripen(l)
      PROVE  LaneInv'
  BY <1>2, LaneTurns, LaneStops, PlainKeeps, IteratesKeeps, ProgressKeepsLanes,
     AbandonKeepsLanes,
     CloseKeeps DEF LaneStep
<1>3. ASSUME NEW i \in Stage, StageStep(i)
      PROVE  LaneInv'
  BY <1>3, StageKeeps
<1>4. ASSUME NEW i \in Windowed, NativeStep(i) \/ WaiterStep(i)
      PROVE  LaneInv'
  BY <1>4, WorkerKeeps, WaitKeepsLanes DEF NativeStep, WaiterStep
<1>5. CASE MainStep
  BY <1>5, MainKeeps
<1> QED
  BY <1>1, <1>2, <1>3, <1>4, <1>5 DEF Next

\* When the last lane has ended nothing is left: no callback or progress in a
\* queue or suspended, no dispatch on a worker and no wait for one.
THEOREM LanesEndQuiet == Spec => []QuietAtEnd
<1>1. LaneInv => QuietAtEnd
  <2> SUFFICES ASSUME LaneInv, stopped = Lane
               PROVE  /\ \A l \in Lane : items[l] = <<>> /\ stack[l] = <<>>
                      /\ \A i \in Windowed : jobs[i] = 0 /\ waiter[i] = Idle
    BY DEF QuietAtEnd
  <2>1. \A l \in Lane : items[l] = <<>> /\ stack[l] = <<>>
    BY DEF LaneInv, CallersInv
  <2>2. ASSUME NEW i \in Windowed
        PROVE  jobs[i] = 0 /\ waiter[i] = Idle
    <3>1. LaneOf[i] \in Lane
      BY LaneConstants
    <3>2. main[1] = "stop"
      BY <3>1 DEF LaneInv, CallersInv
    <3>3. Closed(i)
      BY <3>2 DEF Closed
    <3> QED
      BY <3>2, <3>3 DEF LaneInv, WaveAt
  <2> QED
    BY <2>1, <2>2
<1> QED
  BY <1>1, InitLanes, LaneInvStep, PTL DEF Spec

\* Unless the window is abandoned, the generator of its dispatches goes on only
\* when no dispatch is unfinished and nobody waits for one: the buffers of a
\* dispatch are not touched while it runs, and no two threads join it.
THEOREM DispatchIsSettled == Spec => SettledBeforeStep
<1> DEFINE Settled == \A i \in Windowed : step'[i] > step[i] /\ pos[i] # "abandon"
                        => jobs[i] = 0 /\ waiter[i][1] # "joining"
<1>1. ASSUME LaneInv, [Next]_vars
      PROVE  Settled
  <2> SUFFICES ASSUME NEW i \in Windowed, step'[i] > step[i], pos[i] # "abandon"
               PROVE  jobs[i] = 0 /\ waiter[i][1] # "joining"
    OBVIOUS
  <2>1. step \in [Windowed -> 0..(Dispatches + 1)] /\ Dispatches \in Nat
    BY <1>1, LaneConstants DEF LaneInv, WavesTyped
  <2>2. step' # step
    BY <2>1
  <2>3. PICK l \in Lane : Iterates(l) \/ Progress(l) \/ AbandonAdvances(l)
    BY <1>1, <2>2
    DEF Next, LaneStep, StageStep, NativeStep, WaiterStep, MainStep, Take, LaneEnds, AcquirePermit,
        WaitOver, Ripen, Polls, PlainCall, Abandon, CloseEnds, Calling, GivesUp, WorkerFinishes,
        WaitStarts, WaitEnds, MainJoins, MainCloses, Shutdown, StopLane, Cancel, Ended, vars, window
  <2>4. CASE Iterates(l)
    <3>1. PICK j \in Windowed : step' = [step EXCEPT ![j] = 0]
      BY <2>2, <2>4
      DEF Iterates, Yield, FeedPolls, FeedBuffers, SubmitFirst, SubmitNext, HandoffWaits,
          HandoffFinishes, Begun, FeedEnds, Drains, FlushEnds, Raises, BeginWindow, window
    <3> QED
      BY <2>1, <3>1
  <2>5. CASE Progress(l)
    <3>1. PICK j \in Windowed :
            /\ Running(l, "progress") /\ Top(l).job.stage = j /\ ~WouldBlock(j)
            /\ step' = [step EXCEPT ![j] = @ + 1]
      BY <2>2, <2>5 DEF Progress, Dispatch, window
    <3>2. j = i
      BY <2>1, <3>1
    <3>3. /\ waiter[i] = Idle /\ jobs[i] = 0
      BY <1>1, <3>1, <3>2, Alone
    <3> QED
      BY <3>3 DEF Idle
  <2>6. CASE AbandonAdvances(l)
    <3>1. PICK j \in Windowed :
            /\ pos[j] = "abandon"
            /\ step' = step \/ step' = [step EXCEPT ![j] = @ + 1]
      BY <2>6 DEF AbandonAdvances, Dispatch
    <3> QED
      BY <2>1, <2>2, <3>1
  <2> QED
    BY <2>3, <2>4, <2>5, <2>6
<1>2. LaneInv /\ [Next]_vars => Settled
  BY <1>1
<1> QED
  BY <1>2, InitLanes, LaneInvStep, PTL DEF Spec, SettledBeforeStep
-----------------------------------------------------------------------------
(* The permits *)

\* The permits of r held in stacks s of callbacks.
HeldIn(s, r) ==
  UNION {UNION {{<<l, k, n>> : n \in Taken(s[l][k], r)} : k \in DOMAIN s[l]} : l \in Lane}

PermitsInv ==
  /\ permits \in [Resource -> Int]
  /\ \A r \in Resource : /\ IsFiniteSet(HeldIn(stack, r))
                         /\ permits[r] + Cardinality(HeldIn(stack, r)) = Permits[r]

LEMMA HeldAre ==
  ASSUME NEW s, NEW r
  PROVE  \A x : x \in HeldIn(s, r) <=>
           \E l \in Lane : \E k \in DOMAIN s[l] : \E n \in Taken(s[l][k], r) : x = <<l, k, n>>
BY DEF HeldIn

LEMMA HeldAt ==
  ASSUME NEW s, NEW r, NEW l \in Lane, NEW k, NEW n
  PROVE  <<l, k, n>> \in HeldIn(s, r) <=> k \in DOMAIN s[l] /\ n \in Taken(s[l][k], r)
<1>1. ASSUME <<l, k, n>> \in HeldIn(s, r)
      PROVE  k \in DOMAIN s[l] /\ n \in Taken(s[l][k], r)
  <2>1. PICK m \in Lane :
          \E j \in DOMAIN s[m] : \E i \in Taken(s[m][j], r) : <<l, k, n>> = <<m, j, i>>
    BY <1>1, HeldAre
  <2>2. PICK j \in DOMAIN s[m] : \E i \in Taken(s[m][j], r) : <<l, k, n>> = <<m, j, i>>
    BY <2>1
  <2>3. PICK i \in Taken(s[m][j], r) : <<l, k, n>> = <<m, j, i>>
    BY <2>2
  <2>4. m = l /\ j = k /\ i = n
    BY ONLY <2>3
  <2> QED
    BY <2>4
<1>2. ASSUME k \in DOMAIN s[l], n \in Taken(s[l][k], r)
      PROVE  <<l, k, n>> \in HeldIn(s, r)
  BY <1>2, HeldAre
<1> QED
  BY <1>1, <1>2

LEMMA HeldWithin ==
  ASSUME NEW s, NEW r, NEW S,
         \A l \in Lane : \A k \in DOMAIN s[l] : \A n \in Taken(s[l][k], r) : <<l, k, n>> \in S
  PROVE  HeldIn(s, r) \subseteq S
<1> SUFFICES ASSUME NEW x \in HeldIn(s, r) PROVE x \in S
  OBVIOUS
<1>1. \E l \in Lane : \E k \in DOMAIN s[l] : \E n \in Taken(s[l][k], r) : x = <<l, k, n>>
  BY HeldAre
<1> QED
  BY <1>1

\* What a callback holds is finite.
LEMMA TakenFinite ==
  ASSUME NEW f \in Frame, NEW r
  PROVE  IsFiniteSet(Taken(f, r)) /\ Cardinality(Taken(f, r)) \in Nat
<1>1. f.got \in Nat /\ IsFiniteSet(1..f.got)
  BY FS_Interval DEF Frame
<1>2. Taken(f, r) \in SUBSET (1..f.got)
  BY DEF Taken
<1> QED
  BY <1>1, <1>2, FS_Subset, FS_CardinalityType

\* The numbers T of callback k of lane l.  There are as many of them as numbers.
InCallback(l, k, T) == {<<l, k, n>> : n \in T}

LEMMA Places ==
  ASSUME NEW T, IsFiniteSet(T), NEW l, NEW k
  PROVE  /\ IsFiniteSet(InCallback(l, k, T))
         /\ Cardinality(InCallback(l, k, T)) = Cardinality(T)
<1> DEFINE places == {<<l, k, n>> : n \in T}
           f == [n \in T |-> <<l, k, n>>]
<1>1. f \in [T -> places]
  OBVIOUS
<1>2. \A m, n \in T : f[m] = f[n] => m = n
  OBVIOUS
<1>3. \A x \in places : \E n \in T : f[n] = x
  OBVIOUS
<1>4. f \in Bijection(T, places)
  BY <1>1, <1>2, <1>3 DEF Bijection, Injection, Surjection, IsInjective
<1> HIDE DEF f, places
<1>5. ExistsBijection(T, places)
  BY <1>4 DEF ExistsBijection
<1>6. IsFiniteSet(places) /\ Cardinality(places) = Cardinality(T)
  BY <1>5, FS_Bijection
<1> QED
  BY <1>6 DEF places, InCallback

\* Callbacks that go on hold what they held.
LEMMA HeldStays ==
  ASSUME NEW s, NEW t, NEW r,
         \A l \in Lane : /\ DOMAIN t[l] = DOMAIN s[l]
                         /\ \A k \in DOMAIN s[l] : t[l][k].job = s[l][k].job /\ t[l][k].got = s[l][k].got
  PROVE  HeldIn(t, r) = HeldIn(s, r)
<1>1. ASSUME NEW l \in Lane, NEW k \in DOMAIN s[l]
      PROVE  Taken(t[l][k], r) = Taken(s[l][k], r)
  BY <1>1 DEF Taken
<1>2. \A x : x \in HeldIn(t, r) <=> x \in HeldIn(s, r)
  BY <1>1, HeldAre
<1> QED
  BY <1>2

\* The stacks when lane l begins callback f, and when its running callback becomes f.
Begins(s, l, f) == [s EXCEPT ![l] = Append(s[l], f)]
Becomes(s, l, f) == [s EXCEPT ![l] = [s[l] EXCEPT ![Len(s[l])] = f]]

\* A callback begins with nothing.
LEMMA HeldFirst ==
  ASSUME NEW s \in [Lane -> Seq(Frame)], NEW l \in Lane, NEW f \in Frame, f.got = 0, NEW r
  PROVE  HeldIn(Begins(s, l, f), r) = HeldIn(s, r)
<1>0. PICK t : t = Begins(s, l, f)
  OBVIOUS
<1>1. /\ Len(s[l]) \in Nat /\ DOMAIN s[l] = 1..Len(s[l]) /\ t[l] = Append(s[l], f)
      /\ DOMAIN t[l] = 1..(Len(s[l]) + 1) /\ t[l][Len(s[l]) + 1] = f
      /\ \A k \in DOMAIN s[l] : t[l][k] = s[l][k]
      /\ \A m \in Lane : m # l => t[m] = s[m]
  BY <1>0 DEF Begins
<1>2. Taken(f, r) = {}
  BY DEF Taken
<1>3. \A k \in DOMAIN t[l] : k \in DOMAIN s[l] \/ t[l][k] = f
  BY <1>1
<1>4. \A k \in DOMAIN s[l] : k \in DOMAIN t[l]
  BY <1>1
<1>5. ASSUME NEW m \in Lane, NEW k, NEW n
      PROVE  (k \in DOMAIN t[m] /\ n \in Taken(t[m][k], r))
               <=> (k \in DOMAIN s[m] /\ n \in Taken(s[m][k], r))
  <2>1. CASE m = l
    BY <1>1, <1>2, <1>3, <1>4, <2>1
  <2>2. CASE m # l
    BY <1>1, <2>2
  <2> QED
    BY <2>1, <2>2
<1>6. HeldIn(t, r) \subseteq HeldIn(s, r)
  <2>1. ASSUME NEW m \in Lane, NEW k \in DOMAIN t[m], NEW n \in Taken(t[m][k], r)
        PROVE  <<m, k, n>> \in HeldIn(s, r)
    <3>1. k \in DOMAIN s[m] /\ n \in Taken(s[m][k], r)
      BY <1>5
    <3> QED
      BY <3>1, HeldAt
  <2> QED
    BY <2>1, HeldWithin
<1>7. HeldIn(s, r) \subseteq HeldIn(t, r)
  <2>1. ASSUME NEW m \in Lane, NEW k \in DOMAIN s[m], NEW n \in Taken(s[m][k], r)
        PROVE  <<m, k, n>> \in HeldIn(t, r)
    <3>1. k \in DOMAIN t[m] /\ n \in Taken(t[m][k], r)
      BY <1>5
    <3> QED
      BY <3>1, HeldAt
  <2> QED
    BY <2>1, HeldWithin
<1> QED
  BY <1>0, <1>6, <1>7

\* f is the running callback of the lane with one permit more, and this is its place.
TakesOne(s, l, f) ==
  s[l] # <<>> /\ f.job = Last(s[l]).job /\ f.got = Last(s[l]).got + 1
PlaceOf(s, l, f) == <<l, Len(s[l]), f.got>>
Grows(s, l, f, r) ==
  /\ PlaceOf(s, l, f) \notin HeldIn(s, r)
  /\ Claim(f.job)[f.got] = r =>
       HeldIn(Becomes(s, l, f), r) = HeldIn(s, r) \cup {PlaceOf(s, l, f)}
  /\ Claim(f.job)[f.got] # r => HeldIn(Becomes(s, l, f), r) = HeldIn(s, r)

\* It takes one permit after another.
LEMMA HeldMore ==
  ASSUME NEW s \in [Lane -> Seq(Frame)], NEW l \in Lane, NEW f \in Frame, TakesOne(s, l, f), NEW r
  PROVE  Grows(s, l, f, r)
<1>0. PICK t : t = Becomes(s, l, f)
  OBVIOUS
<1>1. /\ Len(s[l]) \in DOMAIN s[l] /\ t[l] = [s[l] EXCEPT ![Len(s[l])] = f]
      /\ DOMAIN t[l] = DOMAIN s[l] /\ t[l][Len(s[l])] = f
      /\ \A k \in DOMAIN s[l] : k # Len(s[l]) => t[l][k] = s[l][k]
      /\ \A m \in Lane : m # l => t[m] = s[m]
  BY <1>0 DEF Becomes, TakesOne
<1>2. PICK g \in Frame : g = s[l][Len(s[l])] /\ f.job = g.job /\ f.got = g.got + 1
  BY <1>1 DEF Last, TakesOne
<1>3. g.got \in Nat /\ f.got \in Nat /\ f.got = g.got + 1
  BY <1>2 DEF Frame
<1>4. \A n : n \in Taken(f, r) <=> n \in Taken(g, r) \/ (n = f.got /\ Claim(f.job)[f.got] = r)
  <2> TAKE n
  <2>1. n \in 1..f.got <=> n \in 1..g.got \/ n = f.got
    BY <1>3
  <2> QED
    BY <1>2, <2>1 DEF Taken
<1>5. f.got \notin Taken(g, r)
  BY <1>3 DEF Taken
<1>6. ASSUME NEW m \in Lane, NEW k, NEW n
      PROVE  (k \in DOMAIN t[m] /\ n \in Taken(t[m][k], r))
               <=> \/ k \in DOMAIN s[m] /\ n \in Taken(s[m][k], r)
                   \/ m = l /\ k = Len(s[l]) /\ n = f.got /\ Claim(f.job)[f.got] = r
  <2>1. CASE m = l /\ k = Len(s[l])
    BY <1>1, <1>2, <1>4, <2>1
  <2>2. CASE ~(m = l /\ k = Len(s[l]))
    BY <1>1, <2>2
  <2> QED
    BY <2>1, <2>2
<1>7. PICK more : more = IF Claim(f.job)[f.got] = r THEN {<<l, Len(s[l]), f.got>>} ELSE {}
  OBVIOUS
<1>8. HeldIn(t, r) \subseteq HeldIn(s, r) \cup more
  <2>1. ASSUME NEW m \in Lane, NEW k \in DOMAIN t[m], NEW n \in Taken(t[m][k], r)
        PROVE  <<m, k, n>> \in HeldIn(s, r) \cup more
    <3>1. CASE k \in DOMAIN s[m] /\ n \in Taken(s[m][k], r)
      BY <3>1, HeldAt
    <3>2. CASE m = l /\ k = Len(s[l]) /\ n = f.got /\ Claim(f.job)[f.got] = r
      BY <1>7, <3>2
    <3> QED
      BY <1>6, <3>1, <3>2
  <2> QED
    BY <2>1, HeldWithin
<1>9. HeldIn(s, r) \subseteq HeldIn(t, r)
  <2>1. ASSUME NEW m \in Lane, NEW k \in DOMAIN s[m], NEW n \in Taken(s[m][k], r)
        PROVE  <<m, k, n>> \in HeldIn(t, r)
    <3>1. k \in DOMAIN t[m] /\ n \in Taken(t[m][k], r)
      BY <1>6
    <3> QED
      BY <3>1, HeldAt
  <2> QED
    BY <2>1, HeldWithin
<1>10. more \subseteq HeldIn(t, r)
  <2>1. Claim(f.job)[f.got] = r => <<l, Len(s[l]), f.got>> \in HeldIn(t, r)
    BY <1>6, HeldAt
  <2> QED
    BY <1>7, <2>1
<1>11. <<l, Len(s[l]), f.got>> \notin HeldIn(s, r)
  BY <1>2, <1>5, HeldAt
<1>12. HeldIn(t, r) = HeldIn(s, r) \cup more
  BY ONLY <1>8, <1>9, <1>10
<1>13. HeldIn(s, r) \cup {} = HeldIn(s, r)
  OBVIOUS
<1> QED
  BY <1>0, <1>7, <1>11, <1>12, <1>13 DEF Grows, PlaceOf

\* When it leaves, it gives back what it holds and nothing else.
LEMMA HeldLess ==
  ASSUME NEW s \in [Lane -> Seq(Frame)], NEW l \in Lane, s[l] # <<>>, NEW r,
         NEW t, t = [s EXCEPT ![l] = Front(s[l])], IsFiniteSet(HeldIn(s, r))
  PROVE  /\ IsFiniteSet(HeldIn(t, r))
         /\ Cardinality(HeldIn(s, r)) = Cardinality(HeldIn(t, r)) + Held(Last(s[l]), r)
         /\ Cardinality(HeldIn(t, r)) \in Nat /\ Held(Last(s[l]), r) \in Nat
<1>1. PICK len \in Nat : len = Len(s[l]) /\ DOMAIN s[l] = 1..len /\ len # 0
  OBVIOUS
<1>2. /\ t[l] = Front(s[l]) /\ DOMAIN t[l] = 1..(len - 1)
      /\ \A k \in DOMAIN t[l] : t[l][k] = s[l][k]
      /\ \A m \in Lane : m # l => t[m] = s[m]
  BY <1>1 DEF Front
<1>3. PICK f \in Frame : f = s[l][len] /\ f = Last(s[l])
  BY <1>1 DEF Last
<1> DEFINE places == InCallback(l, len, Taken(f, r))
<1>4. ASSUME NEW m \in Lane, NEW k, NEW n
      PROVE  (k \in DOMAIN s[m] /\ n \in Taken(s[m][k], r))
               <=> \/ k \in DOMAIN t[m] /\ n \in Taken(t[m][k], r)
                   \/ m = l /\ k = len /\ n \in Taken(f, r)
  <2>1. CASE m = l
    <3>1. k \in DOMAIN s[l] <=> k \in DOMAIN t[l] \/ k = len
      BY <1>1, <1>2
    <3>2. len \notin DOMAIN t[l]
      BY <1>1, <1>2
    <3> QED
      BY <1>2, <1>3, <2>1, <3>1, <3>2
  <2>2. CASE m # l
    BY <1>2, <2>2
  <2> QED
    BY <2>1, <2>2
<1>5. HeldIn(s, r) \subseteq HeldIn(t, r) \cup places
  <2>1. ASSUME NEW m \in Lane, NEW k \in DOMAIN s[m], NEW n \in Taken(s[m][k], r)
        PROVE  <<m, k, n>> \in HeldIn(t, r) \cup places
    <3>1. CASE k \in DOMAIN t[m] /\ n \in Taken(t[m][k], r)
      BY <3>1, HeldAt
    <3>2. CASE m = l /\ k = len /\ n \in Taken(f, r)
      BY <3>2 DEF InCallback
    <3>3. \/ k \in DOMAIN t[m] /\ n \in Taken(t[m][k], r)
          \/ m = l /\ k = len /\ n \in Taken(f, r)
      BY <1>4
    <3> QED
      BY <3>1, <3>2, <3>3
  <2> QED
    BY <2>1, HeldWithin
<1>6. /\ HeldIn(t, r) \subseteq HeldIn(s, r) /\ places \subseteq HeldIn(s, r)
      /\ HeldIn(t, r) \cap places = {}
  <2>1. ASSUME NEW m \in Lane, NEW k \in DOMAIN t[m], NEW n \in Taken(t[m][k], r)
        PROVE  <<m, k, n>> \in HeldIn(s, r)
    <3>1. k \in DOMAIN s[m] /\ n \in Taken(s[m][k], r)
      BY <1>4
    <3> QED
      BY <3>1, HeldAt
  <2>2. HeldIn(t, r) \subseteq HeldIn(s, r)
    BY <2>1, HeldWithin
  <2>3. ASSUME NEW n \in Taken(f, r)
        PROVE  <<l, len, n>> \in HeldIn(s, r) /\ <<l, len, n>> \notin HeldIn(t, r)
    <3>1. len \in DOMAIN s[l] /\ n \in Taken(s[l][len], r)
      BY <1>1, <1>3
    <3>2. len \notin DOMAIN t[l]
      BY <1>1, <1>2
    <3> QED
      BY <3>1, <3>2, HeldAt
  <2> QED
    BY <2>2, <2>3 DEF InCallback
<1>7. IsFiniteSet(places) /\ Cardinality(places) = Held(f, r) /\ Held(f, r) \in Nat
  <2>1. PICK T : T = Taken(f, r)
    OBVIOUS
  <2>2. IsFiniteSet(T) /\ Cardinality(T) \in Nat
    BY <2>1, TakenFinite
  <2>3. IsFiniteSet(InCallback(l, len, T)) /\ Cardinality(InCallback(l, len, T)) = Cardinality(T)
    BY <2>2, Places
  <2> QED
    BY <2>1, <2>2, <2>3 DEF Held
<1> HIDE DEF places
<1>8. HeldIn(s, r) = HeldIn(t, r) \cup places
  BY <1>5, <1>6
<1>9. IsFiniteSet(HeldIn(t, r)) /\ Cardinality(HeldIn(t, r)) \in Nat
  <2>1. HeldIn(t, r) \in SUBSET HeldIn(s, r)
    BY <1>8
  <2> QED
    BY <2>1, FS_Subset, FS_CardinalityType
<1>10. Cardinality(HeldIn(s, r))
         = Cardinality(HeldIn(t, r)) + Cardinality(places) - Cardinality({})
  BY <1>6, <1>7, <1>8, <1>9, FS_Union
<1> QED
  BY <1>3, <1>7, <1>9, <1>10, FS_EmptySet

\* What a step does to the stacks and the permits.
LEMMA PermitSteps ==
  ASSUME LaneInv, [Next]_vars
  PROVE  \/ UNCHANGED <<stack, permits>>
         \/ \E l \in Lane : Take(l) \/ AcquirePermit(l)
         \/ \E l \in Lane : stack[l] # <<>> /\ Leave(l)
         \/ \E l \in Lane : \E at \in {"run", "wait"} :
              /\ stack[l] # <<>> /\ permits' = permits
              /\ stack' = [stack EXCEPT ![l][Len(stack[l])].at = at]
<1>1. CASE UNCHANGED vars \/ Cancel \/ Ended \/ \E l \in Lane : Polls(l)
  BY <1>1 DEF Polls, Cancel, Ended, vars, lanes
<1>2. ASSUME NEW l \in Lane, LaneEnds(l) \/ Ripen(l)
      PROVE  UNCHANGED <<stack, permits>>
  BY <1>2 DEF LaneEnds, Ripen
<1>3. ASSUME NEW l \in Lane, WaitOver(l)
      PROVE  /\ stack[l] # <<>> /\ permits' = permits
             /\ stack' = [stack EXCEPT ![l][Len(stack[l])].at = "run"]
  BY <1>3 DEF WaitOver
<1>4. ASSUME NEW l \in Lane, PlainCall(l) \/ CloseEnds(l)
      PROVE  stack[l] # <<>> /\ Leave(l)
  BY <1>4 DEF PlainCall, CloseEnds, Called, Running
<1>5. ASSUME NEW l \in Lane, Iterates(l)
      PROVE  \/ UNCHANGED <<stack, permits>>
             \/ stack[l] # <<>> /\ Leave(l)
             \/ stack[l] # <<>> /\ Suspend(l)
  BY <1>5
  DEF Iterates, Yield, FeedPolls, FeedBuffers, SubmitFirst, SubmitNext, HandoffWaits,
      HandoffFinishes, Begun, FeedEnds, Drains, FlushEnds, Raises, Called, Running, At, lanes
<1>6. ASSUME NEW l \in Lane, Progress(l)
      PROVE  stack[l] # <<>> /\ Leave(l)
  BY <1>6 DEF Progress, Running
<1>7. ASSUME NEW l \in Lane, Abandon(l) \/ AbandonAdvances(l)
      PROVE  UNCHANGED <<stack, permits>>
  BY <1>7 DEF Abandon, AbandonAdvances, lanes
<1>8. CASE \/ \E i \in Stage : StageStep(i)
           \/ \E i \in Windowed : NativeStep(i) \/ WaiterStep(i)
           \/ MainStep
  BY <1>8
  DEF StageStep, Calling, GivesUp, NativeStep, WorkerFinishes, WaiterStep, WaitStarts, WaitEnds,
      MainStep, MainJoins, MainCloses, Shutdown, StopLane, lanes
<1> QED
  BY <1>1, <1>2, <1>3, <1>4, <1>5, <1>6, <1>7, <1>8 DEF Next, LaneStep, Suspend

\* A callback begins without a permit.
LEMMA TakesUp ==
  ASSUME LanesInv, NEW l \in Lane, Take(l)
  PROVE  \E f \in Frame : f.got = 0 /\ stack' = Begins(stack, l, f)
<1> DEFINE n == Chosen(l)
           job == items[l][n].job
           f == [job |-> job, got |-> 0, at |-> IF Claim(job) = <<>> THEN "run" ELSE "permits"]
<1>1. Ripe(l) # {} /\ stack' = [stack EXCEPT ![l] = Append(stack[l], f)]
  BY DEF Take
<1>2. n \in DOMAIN items[l]
  BY <1>1, Choosing
<1>3. items[l] \in Seq(Item)
  BY LaneParts
<1> HIDE DEF n
<1>4. items[l][n] \in Item
  BY <1>2, <1>3
<1>5. f \in Frame /\ f.got = 0
  BY <1>4 DEF Frame, Item
<1> HIDE DEF f
<1> QED
  BY <1>1, <1>5 DEF Begins

\* It takes a permit that is free.
LEMMA TakesPermit ==
  ASSUME LanesInv, NEW l \in Lane, AcquirePermit(l)
  PROVE  \E g \in Frame, f \in Frame :
           LET q == Claim(f.job)[f.got]
           IN  /\ stack[l] # <<>> /\ g = Last(stack[l]) /\ f.job = g.job /\ f.got = g.got + 1
               /\ permits' = [permits EXCEPT ![q] = @ - 1]
               /\ stack' = Becomes(stack, l, f)
<1> DEFINE g == Last(stack[l])
           at == IF g.got + 1 = Len(Claim(g.job)) THEN "run" ELSE "permits"
           f == [g EXCEPT !.got = g.got + 1, !.at = at]
<1>1. /\ stack[l] # <<>>
      /\ permits' = [permits EXCEPT ![Claim(g.job)[g.got + 1]] = @ - 1]
      /\ stack' = [stack EXCEPT ![l][Len(stack[l])] = f]
  BY DEF AcquirePermit, Top
<1>2. g \in Frame
  <2>1. stack[l] \in Seq(Frame)
    BY LaneParts
  <2> QED
    BY <1>1, <2>1 DEF Last
<1>3. at \in {"run", "permits", "wait"}
  OBVIOUS
<1> HIDE DEF g, at
<1>4. f \in Frame /\ f.job = g.job /\ f.got = g.got + 1
  <2>1. f = [g EXCEPT !.got = g.got + 1, !.at = at] /\ g.got + 1 \in Nat
    BY <1>2 DEF Frame
  <2> HIDE DEF f
  <2> QED
    BY <1>2, <1>3, <2>1 DEF Frame
<1>5. stack' = Becomes(stack, l, f)
  BY <1>1 DEF Becomes
<1> HIDE DEF f
<1>6. permits' = [permits EXCEPT ![Claim(f.job)[f.got]] = @ - 1]
  BY <1>1, <1>4
<1> QED
  BY <1>1, <1>2, <1>4, <1>5, <1>6 DEF g

LEMMA PermitsAfter ==
  ASSUME permits' \in [Resource -> Int],
         \A r \in Resource : /\ IsFiniteSet(HeldIn(stack', r))
                             /\ permits'[r] + Cardinality(HeldIn(stack', r)) = Permits[r]
  PROVE  PermitsInv'
<1>1. \A r \in Resource : HeldIn(stack, r)' = HeldIn(stack', r)
  BY DEF HeldIn, Taken, Claim
<1> QED
  BY <1>1 DEF PermitsInv

LEMMA PermitsStep ==
  ASSUME LaneInv, PermitsInv, [Next]_vars
  PROVE  PermitsInv'
<1>0. LanesInv
  BY DEF LaneInv
<1>1. stack \in [Lane -> Seq(Frame)] /\ \A l \in Lane : stack[l] \in Seq(Frame)
  BY <1>0 DEF LanesInv
<1>2. /\ permits \in [Resource -> Int] /\ Permits \in Seq(Nat)
      /\ \A r \in Resource : /\ IsFiniteSet(HeldIn(stack, r))
                             /\ permits[r] + Cardinality(HeldIn(stack, r)) = Permits[r]
  BY LaneConstants DEF PermitsInv
<1>3. ASSUME permits' = permits, \A r \in Resource : HeldIn(stack', r) = HeldIn(stack, r)
      PROVE  PermitsInv'
  BY <1>2, <1>3, PermitsAfter
<1>4. CASE UNCHANGED <<stack, permits>>
  BY <1>3, <1>4
<1>5. ASSUME NEW l \in Lane, Take(l)
      PROVE  PermitsInv'
  <2>1. PICK f \in Frame : f.got = 0 /\ stack' = Begins(stack, l, f)
    BY <1>0, <1>5, TakesUp
  <2>2. permits' = permits
    BY <1>5 DEF Take
  <2>3. ASSUME NEW r \in Resource PROVE HeldIn(stack', r) = HeldIn(stack, r)
    <3>1. HeldIn(Begins(stack, l, f), r) = HeldIn(stack, r)
      BY <1>1, <2>1, HeldFirst
    <3> QED
      BY <2>1, <3>1
  <2> QED
    BY <1>3, <2>2, <2>3
<1>6. ASSUME NEW l \in Lane, AcquirePermit(l)
      PROVE  PermitsInv'
  <2>1. PICK g \in Frame, f \in Frame :
          LET q == Claim(f.job)[f.got]
          IN  /\ stack[l] # <<>> /\ g = Last(stack[l]) /\ f.job = g.job /\ f.got = g.got + 1
              /\ permits' = [permits EXCEPT ![q] = @ - 1]
              /\ stack' = Becomes(stack, l, f)
    BY <1>0, <1>6, TakesPermit
  <2>2. PICK q, place : q = Claim(f.job)[f.got] /\ place = PlaceOf(stack, l, f)
    OBVIOUS
  <2>3. permits' = [permits EXCEPT ![q] = @ - 1]
    BY <2>1, <2>2
  <2>4. ASSUME NEW r \in Resource
        PROVE  /\ place \notin HeldIn(stack, r)
               /\ HeldIn(stack', r) = IF q = r THEN HeldIn(stack, r) \cup {place}
                                      ELSE HeldIn(stack, r)
    <3>1. TakesOne(stack, l, f) /\ stack \in [Lane -> Seq(Frame)]
      BY <1>1, <2>1 DEF TakesOne
    <3>2. Grows(stack, l, f, r)
      BY <3>1, HeldMore
    <3> QED
      BY <2>1, <2>2, <3>2 DEF Grows
  <2>5. permits' \in [Resource -> Int] /\ \A r \in Resource : q # r => permits'[r] = permits[r]
    <3>1. CASE q \in Resource
      BY <1>2, <2>3, <3>1
    <3>2. CASE q \notin Resource
      BY <1>2, <2>3, <3>2
    <3> QED
      BY <3>1, <3>2
  <2>6. ASSUME NEW r \in Resource
        PROVE  /\ IsFiniteSet(HeldIn(stack', r))
               /\ permits'[r] + Cardinality(HeldIn(stack', r)) = Permits[r]
    <3>1. CASE q = r
      <4>1. permits'[r] = permits[r] - 1 /\ permits[r] \in Int
        BY <1>2, <2>3, <3>1
      <4>2. PICK S : S = HeldIn(stack, r)
        OBVIOUS
      <4>3. IsFiniteSet(S) /\ permits[r] + Cardinality(S) = Permits[r]
        BY <1>2, <4>2
      <4>4. place \notin S /\ HeldIn(stack', r) = S \cup {place}
        BY <2>4, <3>1, <4>2
      <4>5. Cardinality(S) \in Nat
        BY <4>3, FS_CardinalityType
      <4>6. IsFiniteSet(S \cup {place}) /\ Cardinality(S \cup {place}) = Cardinality(S) + 1
        BY <4>3, <4>4, FS_AddElement
      <4>7. /\ IsFiniteSet(HeldIn(stack', r))
            /\ Cardinality(HeldIn(stack', r)) = Cardinality(S) + 1
        BY <4>4, <4>6
      <4> QED
        BY ONLY <4>1, <4>3, <4>5, <4>7
    <3>2. CASE q # r
      <4>1. permits'[r] = permits[r] /\ HeldIn(stack', r) = HeldIn(stack, r)
        BY <2>4, <2>5, <3>2
      <4> QED
        BY <1>2, <4>1
    <3> QED
      BY <3>1, <3>2
  <2> QED
    BY <2>5, <2>6, PermitsAfter
<1>7. ASSUME NEW l \in Lane, stack[l] # <<>>, Leave(l)
      PROVE  PermitsInv'
  <2>1. /\ stack' = [stack EXCEPT ![l] = Front(stack[l])]
        /\ permits' = [r \in Resource |-> permits[r] + Held(Last(stack[l]), r)]
    BY <1>7 DEF Leave, Top
  <2>2. ASSUME NEW r \in Resource
        PROVE  /\ IsFiniteSet(HeldIn(stack', r)) /\ permits'[r] \in Int
               /\ permits'[r] + Cardinality(HeldIn(stack', r)) = Permits[r]
    <3>1. /\ IsFiniteSet(HeldIn(stack', r))
          /\ Cardinality(HeldIn(stack, r))
               = Cardinality(HeldIn(stack', r)) + Held(Last(stack[l]), r)
          /\ Cardinality(HeldIn(stack', r)) \in Nat /\ Held(Last(stack[l]), r) \in Nat
      <4>1. IsFiniteSet(HeldIn(stack, r)) /\ stack[l] # <<>>
        BY <1>2, <1>7
      <4>2. \A t : t = [stack EXCEPT ![l] = Front(stack[l])] =>
              /\ IsFiniteSet(HeldIn(t, r))
              /\ Cardinality(HeldIn(stack, r))
                   = Cardinality(HeldIn(t, r)) + Held(Last(stack[l]), r)
              /\ Cardinality(HeldIn(t, r)) \in Nat /\ Held(Last(stack[l]), r) \in Nat
        BY <1>1, <4>1, HeldLess
      <4> QED
        BY <2>1, <4>2
    <3>2. permits'[r] = permits[r] + Held(Last(stack[l]), r) /\ permits[r] \in Int
      BY <1>2, <2>1
    <3>3. permits[r] + Cardinality(HeldIn(stack, r)) = Permits[r]
      BY <1>2
    <3> QED
      BY ONLY <3>1, <3>2, <3>3
  <2>3. permits' \in [Resource -> Int]
    BY <2>1, <2>2
  <2> QED
    BY <2>2, <2>3, PermitsAfter
<1>8. ASSUME NEW l \in Lane, NEW at \in {"run", "wait"}, stack[l] # <<>>, permits' = permits,
             stack' = [stack EXCEPT ![l][Len(stack[l])].at = at]
      PROVE  PermitsInv'
  <2>1. \A m \in Lane : /\ DOMAIN stack'[m] = DOMAIN stack[m]
                        /\ \A k \in DOMAIN stack[m] : /\ stack'[m][k].job = stack[m][k].job
                                                      /\ stack'[m][k].got = stack[m][k].got
    <3>1. /\ stack'[l] = [stack[l] EXCEPT ![Len(stack[l])] = [@ EXCEPT !.at = at]]
          /\ \A m \in Lane : m # l => stack'[m] = stack[m]
      BY <1>1, <1>8
    <3>2. \A k \in DOMAIN stack[l] : stack[l][k] \in Frame
      BY <1>1
    <3>3. ASSUME NEW k \in DOMAIN stack[l]
          PROVE  stack'[l][k].job = stack[l][k].job /\ stack'[l][k].got = stack[l][k].got
      BY <3>1, <3>2, <3>3 DEF Frame
    <3> QED
      BY <3>1, <3>3
  <2>2. \A r \in Resource : HeldIn(stack', r) = HeldIn(stack, r)
    BY <2>1, HeldStays
  <2> QED
    BY <1>3, <1>8, <2>2
<1> QED
  BY <1>4, <1>5, <1>6, <1>7, <1>8, PermitSteps

\* Whatever callbacks raise, wait, nest or are cancelled, each permit is free or held by a
\* callback under way, and comes back when it leaves (_ResourceArbiter).
THEOREM PermitsAreAccounted == Spec => []PermitsAccounted
<1>1. Init => PermitsInv
  <2> SUFFICES ASSUME Init PROVE PermitsInv
    OBVIOUS
  <2>1. permits \in [Resource -> Int] /\ permits = Permits
    BY LaneConstants DEF Init, Resource
  <2>2. ASSUME NEW r \in Resource PROVE HeldIn(stack, r) = {}
    <3>1. \A l \in Lane : DOMAIN stack[l] = {}
      BY DEF Init
    <3> QED
      BY <3>1, HeldAre
  <2>3. \A r \in Resource : Permits[r] \in Nat
    BY LaneConstants DEF Resource
  <2> QED
    BY <2>1, <2>2, <2>3, FS_EmptySet DEF PermitsInv
<1>2. PermitsInv => PermitsAccounted
  BY DEF PermitsInv, PermitsAccounted, HeldIn, HeldOn
<1> QED
  BY <1>1, <1>2, InitLanes, LaneInvStep, PermitsStep, PTL DEF Spec
=============================================================================
