------------------------- MODULE StreamGraphLeases --------------------------
(***************************************************************************)
(* The leases of the actor graph: the reference count of a lease is the    *)
(* number of envelopes in channels and in hands, and of handles kept by the *)
(* consumer, that carry it, whoever gives one up and however the run ends. *)
(***************************************************************************)
EXTENDS StreamGraphProofs, FiniteSetTheorems

\* Message m is an envelope with a handle on lease l.
On(m, l) == m \notin {EOS, None} /\ m.lease = l
\* 1 where b holds, 0 elsewhere.
One(b) == IF b THEN 1 ELSE 0

\* The handles on lease l in channels, in hands, about to be put, and kept by
\* the consumer.
Queued(l) == {p \in Chan \X Nat : p[2] \in DOMAIN chan[p[1]] /\ On(chan[p[1]][p[2]], l)}
Hands(l)  == {t \in Thread : On(cur[t], l)}
Outs(l)   == {i \in Stage : On(out[i], l)}
Kept(l)   == {k \in DOMAIN terminal : terminal[k] = l}

\* The count of lease l is the number of handles on it.
Counted(l) ==
  /\ IsFiniteSet(Queued(l)) /\ IsFiniteSet(Hands(l))
  /\ IsFiniteSet(Outs(l)) /\ IsFiniteSet(Kept(l))
  /\ refs[l] = Cardinality(Queued(l)) + Cardinality(Hands(l)) + Cardinality(Outs(l))
                 + Cardinality(Kept(l))

\* Who has something in hand, or to put; a sink keeps one lease at most.
Empty ==
  /\ \A t \in Thread : t = Main \/ pc[t] \in {"new", "next", "top", "get", "stop", "done"}
       => cur[t] = None
  /\ \A i \in Stage : pc[Worker(i)] # "put" => out[i] = None
  /\ pc[Sink] # "done" => Len(terminal) <= 1

\* The inductive part on leases: every count is right.
CountInv == Empty /\ \A l \in Lease : Counted(l)

-----------------------------------------------------------------------------
(* How the number of handles changes *)

\* A set of which one element may go and one may come.
LEMMA Exchange ==
  ASSUME NEW S, IsFiniteSet(S), NEW T, NEW x, NEW was, NEW is,
         was <=> x \in S, is <=> x \in T, \A y : y # x => (y \in S <=> y \in T)
  PROVE  IsFiniteSet(T) /\ Cardinality(T) = Cardinality(S) - One(was) + One(is)
<1>1. /\ IsFiniteSet(S \ {x})
      /\ Cardinality(S \ {x}) = IF x \in S THEN Cardinality(S) - 1 ELSE Cardinality(S)
  BY FS_RemoveElement
<1>2. /\ IsFiniteSet((S \ {x}) \cup {x})
      /\ Cardinality((S \ {x}) \cup {x}) = Cardinality(S \ {x}) + 1
  BY <1>1, FS_AddElement
<1>3. Cardinality(S) \in Nat
  BY FS_CardinalityType
<1>4. CASE x \in T
  <2>1. T = (S \ {x}) \cup {x}
    BY <1>4
  <2> QED
    BY <1>1, <1>2, <1>3, <1>4, <2>1 DEF One
<1>5. CASE x \notin T
  <2>1. T = S \ {x}
    BY <1>5
  <2> QED
    BY <1>1, <1>3, <1>5, <2>1 DEF One
<1> QED
  BY <1>4, <1>5

\* One element may come.
LEMMA Arrival ==
  ASSUME NEW S, IsFiniteSet(S), NEW T, NEW x, x \notin S, NEW is, is <=> x \in T,
         \A y : y # x => (y \in S <=> y \in T)
  PROVE  IsFiniteSet(T) /\ Cardinality(T) = Cardinality(S) + One(is)
<1>1. IsFiniteSet(S \cup {x}) /\ Cardinality(S \cup {x}) = Cardinality(S) + 1
  BY FS_AddElement
<1>2. Cardinality(S) \in Nat
  BY FS_CardinalityType
<1>3. CASE x \in T
  <2>1. T = S \cup {x}
    BY <1>3
  <2> QED
    BY <1>1, <1>3, <2>1 DEF One
<1>4. CASE x \notin T
  <2>1. T = S
    BY <1>4
  <2> QED
    BY <1>2, <1>4, <2>1 DEF One
<1> QED
  BY <1>3, <1>4

\* A thread lets go of what it has in hand and takes m.
LEMMA HandsChange ==
  ASSUME ThreadsOK, NEW t \in Thread, NEW m, cur' = [cur EXCEPT ![t] = m],
         NEW l, IsFiniteSet(Hands(l))
  PROVE  /\ IsFiniteSet(Hands(l)')
         /\ Cardinality(Hands(l)') = Cardinality(Hands(l)) - One(On(cur[t], l)) + One(On(m, l))
<1>1. cur'[t] = m /\ \A s \in Thread : s # t => cur'[s] = cur[s]
  BY DEF ThreadsOK
<1>2. On(cur[t], l) <=> t \in Hands(l)
  BY DEF Hands
<1>3. On(m, l) <=> t \in Hands(l)'
  BY <1>1 DEF Hands, On
<1>4. \A s : s # t => (s \in Hands(l) <=> s \in Hands(l)')
  BY <1>1 DEF Hands, On
<1> QED
  BY <1>2, <1>3, <1>4, Exchange

\* A stage makes or lets go of the envelope it is to put.
LEMMA OutsChange ==
  ASSUME StagesOK, NEW i \in Stage, NEW m, out' = [out EXCEPT ![i] = m],
         NEW l, IsFiniteSet(Outs(l))
  PROVE  /\ IsFiniteSet(Outs(l)')
         /\ Cardinality(Outs(l)') = Cardinality(Outs(l)) - One(On(out[i], l)) + One(On(m, l))
<1>1. out'[i] = m /\ \A j \in Stage : j # i => out'[j] = out[j]
  BY DEF StagesOK
<1>2. On(out[i], l) <=> i \in Outs(l)
  BY DEF Outs
<1>3. On(m, l) <=> i \in Outs(l)'
  BY <1>1 DEF Outs, On
<1>4. \A j : j # i => (j \in Outs(l) <=> j \in Outs(l)')
  BY <1>1 DEF Outs, On
<1> QED
  BY <1>2, <1>3, <1>4, Exchange

\* A put.
LEMMA QueuedPut ==
  ASSUME ChannelsOK, NEW c \in Chan, NEW m, Enqueue(c, m), NEW l, IsFiniteSet(Queued(l))
  PROVE  /\ IsFiniteSet(Queued(l)')
         /\ Cardinality(Queued(l)') = Cardinality(Queued(l)) + One(On(m, l))
<1> DEFINE p == <<c, Len(chan[c]) + 1>>
<1>1. chan[c] \in Seq(Message) /\ Len(chan[c]) \in Nat /\ DOMAIN chan[c] = 1..Len(chan[c])
  BY DEF ChannelsOK
<1>2. /\ chan'[c] = Append(chan[c], m)
      /\ DOMAIN chan'[c] = 1..(Len(chan[c]) + 1)
      /\ chan'[c][Len(chan[c]) + 1] = m
      /\ \A k \in 1..Len(chan[c]) : chan'[c][k] = chan[c][k]
      /\ \A d \in Chan : d # c => chan'[d] = chan[d]
  BY <1>1 DEF ChannelsOK, Enqueue
<1>3. p \notin Queued(l)
  BY <1>1 DEF Queued
<1>4. On(m, l) <=> p \in Queued(l)'
  BY <1>1, <1>2 DEF Queued, On
<1>5. ASSUME NEW q, q # p PROVE q \in Queued(l) <=> q \in Queued(l)'
  <2>1. CASE q \in Chan \X Nat
    <3>1. q[1] \in Chan /\ q[2] \in Nat /\ ~(q[1] = c /\ q[2] = Len(chan[c]) + 1)
      BY <1>5, <2>1
    <3>2. q[2] \in DOMAIN chan[q[1]] <=> q[2] \in DOMAIN chan'[q[1]]
      BY <1>1, <1>2, <3>1
    <3>3. q[2] \in DOMAIN chan[q[1]] => chan[q[1]][q[2]] = chan'[q[1]][q[2]]
      BY <1>1, <1>2, <3>1
    <3> QED
      BY <2>1, <3>2, <3>3 DEF Queued, On
  <2>2. CASE q \notin Chan \X Nat
    BY <2>2 DEF Queued
  <2> QED
    BY <2>1, <2>2
<1> HIDE DEF p
<1>6. \A q : q # p => (q \in Queued(l) <=> q \in Queued(l)')
  BY <1>5
<1> QED
  BY <1>3, <1>4, <1>6, Arrival

\* A get: the first message goes, the others move up.
LEMMA QueuedGet ==
  ASSUME ChannelsOK, NEW c \in Chan, HasItem(c), Dequeue(c), NEW l, IsFiniteSet(Queued(l))
  PROVE  /\ IsFiniteSet(Queued(l)')
         /\ Cardinality(Queued(l)') = Cardinality(Queued(l)) - One(On(Head(chan[c]), l))
<1> DEFINE p == <<c, 1>>
           S == Queued(l) \ {p}
           T == Queued(l)'
           f == [q \in S |-> IF q[1] = c THEN <<c, q[2] - 1>> ELSE q]
<1>1. /\ chan[c] \in Seq(Message) /\ Len(chan[c]) \in Nat \ {0}
      /\ DOMAIN chan[c] = 1..Len(chan[c])
  BY DEF ChannelsOK, HasItem
<1>2. /\ DOMAIN chan'[c] = 1..(Len(chan[c]) - 1)
      /\ \A k \in 1..(Len(chan[c]) - 1) : chan'[c][k] = chan[c][k + 1]
      /\ \A d \in Chan : d # c => chan'[d] = chan[d]
      /\ Head(chan[c]) = chan[c][1]
  BY <1>1 DEF ChannelsOK, Dequeue
<1>3. On(Head(chan[c]), l) <=> p \in Queued(l)
  BY <1>1, <1>2 DEF Queued
<1>4. ASSUME NEW q \in S
      PROVE  /\ q[1] \in Chan /\ q[2] \in Nat /\ q = <<q[1], q[2]>>
             /\ q[1] = c => q[2] > 1 /\ q[2] <= Len(chan[c])
             /\ f[q] \in T
  <2>1. q \in Chan \X Nat /\ q # p /\ q[2] \in DOMAIN chan[q[1]] /\ On(chan[q[1]][q[2]], l)
    BY DEF Queued
  <2>2. q[1] = c => q[2] > 1 /\ q[2] <= Len(chan[c])
    BY <1>1, <2>1
  <2>3. CASE q[1] = c
    <3>1. f[q] = <<c, q[2] - 1>>
      BY <2>3
    <3>2. q[2] - 1 \in 1..(Len(chan[c]) - 1) /\ chan'[c][q[2] - 1] = chan[c][q[2]]
      BY <1>1, <1>2, <2>1, <2>2, <2>3
    <3>3. On(chan'[c][q[2] - 1], l)
      BY <2>1, <2>3, <3>2
    <3>4. <<c, q[2] - 1>> \in T
      BY <1>2, <3>2, <3>3 DEF Queued, On
    <3> QED
      BY <2>1, <2>2, <3>1, <3>4
  <2>4. CASE q[1] # c
    <3>1. f[q] = q
      BY <2>4
    <3>2. q \in T
      BY <1>2, <2>1, <2>4 DEF Queued, On
    <3> QED
      BY <2>1, <2>2, <3>1, <3>2
  <2> QED
    BY <2>3, <2>4
<1>5. ASSUME NEW q \in T PROVE \E r \in S : f[r] = q
  <2>1. /\ q \in Chan \X Nat /\ q[2] \in DOMAIN chan'[q[1]] /\ On(chan'[q[1]][q[2]], l)
    BY DEF Queued, On
  <2>2. CASE q[1] = c
    <3>1. q[2] \in 1..(Len(chan[c]) - 1) /\ q = <<c, q[2]>>
      BY <1>2, <2>1, <2>2
    <3>2. q[2] + 1 \in 2..Len(chan[c]) /\ chan[c][q[2] + 1] = chan'[c][q[2]]
      BY <1>1, <1>2, <3>1
    <3>3. On(chan[c][q[2] + 1], l)
      BY <2>1, <2>2, <3>2
    <3>4. <<c, q[2] + 1>> \in S
      BY <1>1, <3>2, <3>3 DEF Queued
    <3>5. f[<<c, q[2] + 1>>] = <<c, (q[2] + 1) - 1>>
      BY <3>4
    <3> QED
      BY <3>1, <3>4, <3>5
  <2>3. CASE q[1] # c
    <3>1. q \in S
      BY <1>2, <2>1, <2>3 DEF Queued, On
    <3>2. f[q] = q
      BY <2>3, <3>1
    <3> QED
      BY <3>1, <3>2
  <2> QED
    BY <2>2, <2>3
<1>6. ASSUME NEW q \in S, NEW r \in S, f[q] = f[r] PROVE q = r
  <2>1. /\ q[2] \in Nat /\ q = <<q[1], q[2]>> /\ r[2] \in Nat /\ r = <<r[1], r[2]>>
    BY <1>4
  <2>2. /\ f[q] = (IF q[1] = c THEN <<c, q[2] - 1>> ELSE q)
        /\ f[r] = (IF r[1] = c THEN <<c, r[2] - 1>> ELSE r)
    OBVIOUS
  <2>3. f[q][1] = q[1] /\ f[r][1] = r[1]
    BY <2>1, <2>2
  <2>4. /\ f[q][2] = (IF q[1] = c THEN q[2] - 1 ELSE q[2])
        /\ f[r][2] = (IF r[1] = c THEN r[2] - 1 ELSE r[2])
    BY <2>1, <2>2
  <2>5. q[1] = r[1] /\ q[2] = r[2]
    BY <1>6, <2>1, <2>3, <2>4
  <2> QED
    BY <2>1, <2>5
<1>7. f \in Bijection(S, T)
  <2>1. f \in [S -> T]
    BY <1>4
  <2> HIDE DEF f, S, T
  <2> QED
    BY <1>5, <1>6, <2>1 DEF Bijection, Injection, Surjection, IsInjective
<1>8. /\ IsFiniteSet(S)
      /\ Cardinality(S) = IF p \in Queued(l) THEN Cardinality(Queued(l)) - 1
                                             ELSE Cardinality(Queued(l))
  BY FS_RemoveElement
<1>9. IsFiniteSet(T) /\ Cardinality(T) = Cardinality(S)
  <2> HIDE DEF f, S, T
  <2> QED
    BY <1>7, <1>8, FS_Bijection DEF ExistsBijection
<1>10. Cardinality(Queued(l)) \in Nat
  BY FS_CardinalityType
<1> QED
  BY <1>3, <1>8, <1>9, <1>10 DEF One

\* The places of lease l in a sequence of leases.
Places(s, l) == {k \in DOMAIN s : s[k] = l}

\* One more lease at the end.
LEMMA PlacesAppend ==
  ASSUME NEW s \in Seq(Lease), NEW x, NEW l, IsFiniteSet(Places(s, l))
  PROVE  /\ IsFiniteSet(Places(Append(s, x), l))
         /\ Cardinality(Places(Append(s, x), l)) = Cardinality(Places(s, l)) + One(x = l)
<1> DEFINE r == Append(s, x)
           n == Len(s) + 1
<1>1. /\ Len(s) \in Nat /\ DOMAIN s = 1..Len(s) /\ DOMAIN r = 1..n /\ r[n] = x
      /\ \A k \in 1..Len(s) : r[k] = s[k]
  OBVIOUS
<1> HIDE DEF r
<1>2. n \notin Places(s, l) /\ (x = l <=> n \in Places(r, l))
  BY <1>1 DEF Places
<1>3. \A y : y # n => (y \in Places(s, l) <=> y \in Places(r, l))
  BY <1>1 DEF Places
<1>4. /\ IsFiniteSet(Places(s, l) \cup {n})
      /\ Cardinality(Places(s, l) \cup {n}) = Cardinality(Places(s, l)) + 1
  BY <1>2, FS_AddElement
<1>5. Cardinality(Places(s, l)) \in Nat
  BY FS_CardinalityType
<1>6. CASE x = l
  <2>1. Places(r, l) = Places(s, l) \cup {n}
    BY <1>2, <1>3, <1>6
  <2> QED
    BY <1>4, <1>6, <2>1 DEF One, r
<1>7. CASE x # l
  <2>1. Places(r, l) = Places(s, l)
    <3>1. n \notin Places(r, l)
      BY <1>2, <1>7
    <3>2. \A y : y \in Places(s, l) <=> y \in Places(r, l)
      BY <1>2, <1>3, <3>1
    <3> QED
      BY <3>2
  <2> QED
    BY <1>5, <1>7, <2>1 DEF One, r
<1> QED
  BY <1>6, <1>7

\* The first lease goes, the others move up.
LEMMA PlacesTail ==
  ASSUME NEW s \in Seq(Lease), s # <<>>, NEW l, IsFiniteSet(Places(s, l))
  PROVE  /\ IsFiniteSet(Places(Tail(s), l))
         /\ Cardinality(Places(Tail(s), l)) = Cardinality(Places(s, l)) - One(Head(s) = l)
<1> DEFINE r == Tail(s)
           S == Places(s, l) \ {1}
           T == Places(r, l)
           f == [k \in S |-> k - 1]
<1>1. /\ Len(s) \in Nat \ {0} /\ DOMAIN s = 1..Len(s) /\ Head(s) = s[1]
      /\ DOMAIN r = 1..(Len(s) - 1) /\ \A k \in 1..(Len(s) - 1) : r[k] = s[k + 1]
  OBVIOUS
<1> HIDE DEF r
<1>2. Head(s) = l <=> 1 \in Places(s, l)
  BY <1>1 DEF Places
<1>3. \A k \in S : k \in Nat /\ k - 1 \in T
  BY <1>1 DEF Places
<1>4. \A k \in T : k \in Nat /\ k + 1 \in S
  BY <1>1 DEF Places
<1>5. \A k \in S : f[k] = k - 1
  OBVIOUS
<1>6. f \in [S -> T]
  BY <1>3
<1>7. f \in Bijection(S, T)
  <2> HIDE DEF f, S, T
  <2>1. \A j, k \in S : f[j] = f[k] => j = k
    BY <1>3, <1>5
  <2>2. \A k \in T : \E j \in S : f[j] = k
    <3> SUFFICES ASSUME NEW k \in T PROVE \E j \in S : f[j] = k
      OBVIOUS
    <3>1. k + 1 \in S /\ f[k + 1] = k
      BY <1>4, <1>5
    <3> QED
      BY <3>1
  <2> QED
    BY <1>6, <2>1, <2>2 DEF Bijection, Injection, Surjection, IsInjective
<1>8. /\ IsFiniteSet(S)
      /\ Cardinality(S) = IF 1 \in Places(s, l) THEN Cardinality(Places(s, l)) - 1
                                               ELSE Cardinality(Places(s, l))
  BY FS_RemoveElement
<1>9. IsFiniteSet(T) /\ Cardinality(T) = Cardinality(S)
  <2> HIDE DEF f, S, T
  <2> QED
    BY <1>7, <1>8, FS_Bijection DEF ExistsBijection
<1>10. Cardinality(Places(s, l)) \in Nat
  BY FS_CardinalityType
<1> QED
  BY <1>2, <1>8, <1>9, <1>10 DEF One, r

\* A sequence of one lease at most.
LEMMA PlacesOne ==
  ASSUME NEW s \in Seq(Lease), Len(s) <= 1, NEW l
  PROVE  /\ IsFiniteSet(Places(s, l))
         /\ Cardinality(Places(s, l)) = IF s # <<>> /\ s[1] = l THEN 1 ELSE 0
<1>1. CASE s # <<>> /\ s[1] = l
  <2>1. Places(s, l) = {1}
    BY <1>1 DEF Places
  <2> QED
    BY <1>1, <2>1, FS_Singleton
<1>2. CASE ~(s # <<>> /\ s[1] = l)
  <2>1. Places(s, l) = {}
    BY <1>2 DEF Places
  <2> QED
    BY <1>2, <2>1, FS_EmptySet
<1> QED
  BY <1>1, <1>2

\* Its only lease is its first one, and nothing follows.
LEMMA OnlyOne ==
  ASSUME NEW s \in Seq(Lease), s # <<>>, Len(s) <= 1
  PROVE  Head(s) = s[1] /\ Tail(s) = <<>>
<1>1. Len(s) \in Nat /\ Len(s) # 0
  OBVIOUS
<1>2. Len(s) = 1
  BY <1>1
<1>3. s = <<s[1]>>
  BY <1>2
<1>4. \A x : Head(<<x>>) = x /\ Tail(<<x>>) = <<>>
  OBVIOUS
<1> QED
  BY <1>3, <1>4

\* What the consumer keeps, as places of a sequence.
LEMMA KeptPlaces == \A l : Kept(l) = Places(terminal, l)
BY DEF Kept, Places

\* The counts are numbers.
LEMMA CountsAreNumbers ==
  ASSUME NEW l, Counted(l)
  PROVE  /\ Cardinality(Queued(l)) \in Nat /\ Cardinality(Hands(l)) \in Nat
         /\ Cardinality(Outs(l)) \in Nat /\ Cardinality(Kept(l)) \in Nat
BY FS_CardinalityType DEF Counted

\* Whoever has an envelope has a handle on its lease.
LEMMA HandleInHand ==
  ASSUME NEW t \in Thread, cur[t] \in Envelope, Counted(cur[t].lease)
  PROVE  refs[cur[t].lease] > 0
<1>1. t \in Hands(cur[t].lease)
  BY GraphConstants DEF Hands, On
<1>2. Cardinality(Hands(cur[t].lease)) # 0
  BY <1>1, FS_EmptySet DEF Counted
<1> QED
  BY <1>2, CountsAreNumbers DEF Counted

\* What a release and a retain do to the count of a lease.
LEMMA Released ==
  ASSUME LeasesOK, NEW x \in Lease, Release(x), NEW l \in Lease
  PROVE  refs'[l] = refs[l] - One(x = l) /\ refs[l] \in Int
BY DEF LeasesOK, Release, One

\* A new handle.
LEMMA Retained ==
  ASSUME LeasesOK, NEW x \in Lease, AddHandle(x), NEW l \in Lease
  PROVE  refs'[l] = refs[l] + One(x = l) /\ refs[l] \in Int
BY DEF LeasesOK, AddHandle, One

\* No handle where there is no envelope, one where there is.
LEMMA OnWhat ==
  /\ \A l : One(On(None, l)) = 0 /\ One(On(EOS, l)) = 0
  /\ \A e \in Envelope : \A l : One(On(e, l)) = One(e.lease = l)
  /\ \A m, l : One(On(m, l)) \in {0, 1}
  /\ \A x, l : One(x = l) \in {0, 1}
<1>1. \A e \in Envelope : e # EOS /\ e # None
  BY GraphConstants
<1> QED
  BY <1>1 DEF On, One

\* The parts of the count that a step leaves alone.
LEMMA SameParts ==
  /\ chan' = chan => \A l : Queued(l)' = Queued(l)
  /\ cur' = cur => \A l : Hands(l)' = Hands(l)
  /\ out' = out => \A l : Outs(l)' = Outs(l)
  /\ terminal' = terminal => \A l : Kept(l)' = Kept(l)
BY DEF Queued, Hands, Outs, Kept, On

\* The parts of the count that a step leaves alone.
LEMMA Unmoved ==
  ASSUME NEW l, Counted(l)
  PROVE  /\ chan' = chan =>
              IsFiniteSet(Queued(l)') /\ Cardinality(Queued(l)') = Cardinality(Queued(l))
         /\ cur' = cur => IsFiniteSet(Hands(l)') /\ Cardinality(Hands(l)') = Cardinality(Hands(l))
         /\ out' = out => IsFiniteSet(Outs(l)') /\ Cardinality(Outs(l)') = Cardinality(Outs(l))
         /\ terminal' = terminal =>
              IsFiniteSet(Kept(l)') /\ Cardinality(Kept(l)') = Cardinality(Kept(l))
BY SameParts DEF Counted

\* The sum after a step.
LEMMA Balance ==
  ASSUME NEW l, Counted(l),
         IsFiniteSet(Queued(l)'), IsFiniteSet(Hands(l)'),
         IsFiniteSet(Outs(l)'), IsFiniteSet(Kept(l)'),
         refs'[l] = refs[l] + (Cardinality(Queued(l)') - Cardinality(Queued(l)))
                      + (Cardinality(Hands(l)') - Cardinality(Hands(l)))
                      + (Cardinality(Outs(l)') - Cardinality(Outs(l)))
                      + (Cardinality(Kept(l)') - Cardinality(Kept(l)))
  PROVE  Counted(l)'
<1>1. /\ Cardinality(Queued(l)') \in Nat /\ Cardinality(Hands(l)') \in Nat
      /\ Cardinality(Outs(l)') \in Nat /\ Cardinality(Kept(l)') \in Nat
  BY FS_CardinalityType
<1>2. /\ Cardinality(Queued(l)) \in Nat /\ Cardinality(Hands(l)) \in Nat
      /\ Cardinality(Outs(l)) \in Nat /\ Cardinality(Kept(l)) \in Nat
      /\ refs[l] = Cardinality(Queued(l)) + Cardinality(Hands(l)) + Cardinality(Outs(l))
                     + Cardinality(Kept(l))
  BY CountsAreNumbers DEF Counted
<1>3. refs'[l] = Cardinality(Queued(l)') + Cardinality(Hands(l)') + Cardinality(Outs(l)')
                    + Cardinality(Kept(l)')
  BY <1>1, <1>2
<1> QED
  BY <1>3 DEF Counted

\* Nothing moves.
LEMMA NothingMoves ==
  ASSUME NEW l, Counted(l), UNCHANGED <<chan, cur, out, terminal, refs>>
  PROVE  Counted(l)'
<1>1. refs[l] \in Int
  BY CountsAreNumbers DEF Counted
<1> QED
  BY <1>1, SameParts DEF Counted

\* A thread gives up its envelope.
LEMMA HandReleases ==
  ASSUME TypeOK, NEW l \in Lease, Counted(l), NEW t \in Thread, cur[t] \in Envelope,
         cur' = [cur EXCEPT ![t] = None], Release(cur[t].lease), UNCHANGED <<chan, out, terminal>>
  PROVE  Counted(l)'
<1>1. /\ IsFiniteSet(Hands(l)')
      /\ Cardinality(Hands(l)') = Cardinality(Hands(l)) - One(On(cur[t], l)) + One(On(None, l))
  BY HandsChange DEF TypeOK, Counted
<1>2. One(On(None, l)) = 0 /\ One(On(cur[t], l)) = One(cur[t].lease = l)
  BY OnWhat
<1>3. refs'[l] = refs[l] - One(cur[t].lease = l) /\ refs[l] \in Int
  BY Envelopes, Released DEF TypeOK
<1> QED
  BY <1>1, <1>2, <1>3, OnWhat, CountsAreNumbers, Unmoved, Balance

\* A thread gets a message from a channel.
LEMMA HandGets ==
  ASSUME TypeOK, NEW l \in Lease, Counted(l), NEW t \in Thread, cur[t] = None,
         NEW c \in Chan, HasItem(c), Dequeue(c), cur' = [cur EXCEPT ![t] = Head(chan[c])],
         UNCHANGED <<out, terminal, refs>>
  PROVE  Counted(l)'
<1> DEFINE m == Head(chan[c])
<1>1. /\ IsFiniteSet(Hands(l)')
      /\ Cardinality(Hands(l)') = Cardinality(Hands(l)) - One(On(cur[t], l)) + One(On(m, l))
  BY HandsChange DEF TypeOK, Counted
<1>2. /\ IsFiniteSet(Queued(l)')
      /\ Cardinality(Queued(l)') = Cardinality(Queued(l)) - One(On(m, l))
  BY QueuedGet DEF TypeOK, Counted
<1>3. One(On(cur[t], l)) = 0 /\ One(On(m, l)) \in {0, 1}
  BY OnWhat
<1>4. refs'[l] = refs[l] /\ refs[l] \in Int
  BY DEF TypeOK, LeasesOK
<1> HIDE DEF m
<1> QED
  BY <1>1, <1>2, <1>3, <1>4, CountsAreNumbers, Unmoved, Balance

\* A thread puts its message into a channel.
LEMMA HandPuts ==
  ASSUME TypeOK, NEW l \in Lease, Counted(l), NEW t \in Thread,
         NEW c \in Chan, Enqueue(c, cur[t]), cur' = [cur EXCEPT ![t] = None],
         UNCHANGED <<out, terminal, refs>>
  PROVE  Counted(l)'
<1> DEFINE m == cur[t]
<1>1. /\ IsFiniteSet(Hands(l)')
      /\ Cardinality(Hands(l)') = Cardinality(Hands(l)) - One(On(m, l)) + One(On(None, l))
  BY HandsChange DEF TypeOK, Counted
<1>2. /\ IsFiniteSet(Queued(l)')
      /\ Cardinality(Queued(l)') = Cardinality(Queued(l)) + One(On(m, l))
  BY QueuedPut DEF TypeOK, Counted
<1>3. One(On(None, l)) = 0 /\ One(On(m, l)) \in {0, 1}
  BY OnWhat
<1>4. refs'[l] = refs[l] /\ refs[l] \in Int
  BY DEF TypeOK, LeasesOK
<1> HIDE DEF m
<1> QED
  BY <1>1, <1>2, <1>3, <1>4, CountsAreNumbers, Unmoved, Balance

\* The end of the stream has no lease.
LEMMA EosMoves ==
  ASSUME TypeOK, NEW l \in Lease, Counted(l), NEW c \in Chan,
         Enqueue(c, EOS) \/ (HasItem(c) /\ Head(chan[c]) = EOS /\ Dequeue(c)),
         UNCHANGED <<cur, out, terminal, refs>>
  PROVE  Counted(l)'
<1>1. One(On(EOS, l)) = 0
  BY OnWhat
<1>2. IsFiniteSet(Queued(l)') /\ Cardinality(Queued(l)') = Cardinality(Queued(l))
  <2>1. Cardinality(Queued(l)) \in Nat
    BY CountsAreNumbers
  <2>2. CASE Enqueue(c, EOS)
    <3>1. /\ IsFiniteSet(Queued(l)')
          /\ Cardinality(Queued(l)') = Cardinality(Queued(l)) + One(On(EOS, l))
      BY <2>2, QueuedPut DEF TypeOK, Counted
    <3> QED
      BY <1>1, <2>1, <3>1
  <2>3. CASE HasItem(c) /\ Head(chan[c]) = EOS /\ Dequeue(c)
    <3>1. /\ IsFiniteSet(Queued(l)')
          /\ Cardinality(Queued(l)') = Cardinality(Queued(l)) - One(On(Head(chan[c]), l))
      BY <2>3, QueuedGet DEF TypeOK, Counted
    <3> QED
      BY <1>1, <2>1, <2>3, <3>1
  <2> QED
    BY <2>2, <2>3
<1>3. refs'[l] = refs[l] /\ refs[l] \in Int
  BY DEF TypeOK, LeasesOK
<1> QED
  BY <1>2, <1>3, CountsAreNumbers, Unmoved, Balance

\* What a channel still holds is released.
LEMMA ChannelReleases ==
  ASSUME TypeOK, NEW l \in Lease, Counted(l), NEW c \in Chan, HasItem(c), Dequeue(c),
         Head(chan[c]) \in Envelope, Release(Head(chan[c]).lease), UNCHANGED <<cur, out, terminal>>
  PROVE  Counted(l)'
<1> DEFINE m == Head(chan[c])
<1>1. /\ IsFiniteSet(Queued(l)')
      /\ Cardinality(Queued(l)') = Cardinality(Queued(l)) - One(On(m, l))
  BY QueuedGet DEF TypeOK, Counted
<1>2. One(On(m, l)) = One(m.lease = l) /\ One(On(m, l)) \in {0, 1}
  BY OnWhat
<1>3. refs'[l] = refs[l] - One(m.lease = l) /\ refs[l] \in Int
  BY Envelopes, Released DEF TypeOK
<1> HIDE DEF m
<1> QED
  BY <1>1, <1>2, <1>3, CountsAreNumbers, Unmoved, Balance

\* The consumer gives up the oldest lease it keeps.
LEMMA TerminalReleases ==
  ASSUME TypeOK, NEW l \in Lease, Counted(l), terminal # <<>>, Release(Head(terminal)),
         terminal' = Tail(terminal), UNCHANGED <<chan, cur, out>>
  PROVE  Counted(l)'
<1>1. terminal \in Seq(Lease) /\ Head(terminal) \in Lease
  BY DEF TypeOK, LeasesOK
<1>2. Kept(l) = Places(terminal, l) /\ Kept(l)' = Places(Tail(terminal), l)
  BY DEF Kept, Places
<1>3. /\ IsFiniteSet(Kept(l)')
      /\ Cardinality(Kept(l)') = Cardinality(Kept(l)) - One(Head(terminal) = l)
  BY <1>1, <1>2, PlacesTail DEF Counted
<1>4. refs'[l] = refs[l] - One(Head(terminal) = l) /\ refs[l] \in Int
  BY <1>1, Released DEF TypeOK
<1>5. One(Head(terminal) = l) \in {0, 1}
  BY OnWhat
<1> QED
  BY <1>3, <1>4, <1>5, CountsAreNumbers, Unmoved, Balance

-----------------------------------------------------------------------------
(* Steps *)

\* What a thread does to the hands of the others.
LEMMA FinallyCounted ==
  ASSUME TypeInv, CountInv, NEW t \in Thread, Finally(t) PROVE CountInv'
<1> USE DEF TypeInv, TypeOK
<1>1. pc[t] = "finally" /\ t # Sink /\ t # Main /\ pc' = [pc EXCEPT ![t] = "done"]
  BY DEF Finally, Labels, Goto
<1>2. /\ cur' = [cur EXCEPT ![t] = None]
      /\ UNCHANGED <<chan, out, terminal>>
  BY DEF Finally, stageState
<1>3. Empty'
  BY <1>1, <1>2, Threads DEF CountInv, Empty, ThreadsOK
<1>4. ASSUME NEW l \in Lease PROVE Counted(l)'
  <2>1. Counted(l)
    BY DEF CountInv
  <2>2. CASE cur[t] \in {None, EOS}
    <3>1. UNCHANGED refs
      BY <2>2 DEF Finally
    <3>2. /\ IsFiniteSet(Hands(l)')
          /\ Cardinality(Hands(l)') = Cardinality(Hands(l)) - One(On(cur[t], l)) + One(On(None, l))
      BY <1>2, <2>1, HandsChange DEF Counted
    <3>3. One(On(cur[t], l)) = 0 /\ One(On(None, l)) = 0
      BY <2>2, OnWhat
    <3> QED
      BY <1>2, <2>1, <3>1, <3>2, <3>3, CountsAreNumbers, Unmoved, Balance DEF LeasesOK
  <2>3. CASE cur[t] \notin {None, EOS}
    <3>1. cur[t] \in Envelope
      BY <2>3 DEF ThreadsOK, Message
    <3>2. Release(cur[t].lease)
      BY <2>3 DEF Finally
    <3> QED
      BY <1>2, <2>1, <3>1, <3>2, HandReleases
  <2> QED
    BY <2>2, <2>3
<1> QED
  BY <1>3, <1>4 DEF CountInv

\* The source actor.
LEMMA SourceCounted ==
  ASSUME TypeInv, CountInv, SourceStep PROVE CountInv'
<1> USE DEF TypeInv, TypeOK
<1>0. Source \in Thread
  BY Threads
<1>1. CASE SourceNext
  <2>1. pc[Source] = "next" /\ UNCHANGED <<chan, out, terminal>>
    BY <1>1 DEF SourceNext, stageState
  <2>2. CASE cancelled
    <3>1. UNCHANGED <<cur, refs>> /\ Goto(Source, "finally")
      BY <1>1, <2>2 DEF SourceNext
    <3>2. Empty'
      BY <2>1, <3>1, Threads DEF CountInv, Empty, ThreadsOK, Goto
    <3> QED
      BY <2>1, <3>1, <3>2, NothingMoves DEF CountInv
  <2>3. CASE ~cancelled
    <3> DEFINE e == Wrap(next, SourceBnds(next), <<0, next>>)
    <3>1. cur' = [cur EXCEPT ![Source] = e] /\ AddHandle(<<0, next>>) /\ Goto(Source, "put")
      BY <1>1, <2>3 DEF SourceNext
    <3>2. next \in Unit /\ <<0, next>> \in Lease
      BY <1>1, GraphConstants DEF SourceNext, ThreadsOK, Unit, Lease
    <3>3. e \in Envelope /\ e.lease = <<0, next>>
      BY <3>2 DEF SourceBnds, Wrap, Envelope
    <3> HIDE DEF e
    <3>4. Empty'
      BY <2>1, <3>1, Threads DEF CountInv, Empty, ThreadsOK, Goto
    <3>5. ASSUME NEW l \in Lease PROVE Counted(l)'
      <4>1. Counted(l) /\ cur[Source] = None
        BY <2>1, Threads DEF CountInv, Empty
      <4>2. /\ IsFiniteSet(Hands(l)')
            /\ Cardinality(Hands(l)')
                = Cardinality(Hands(l)) - One(On(cur[Source], l)) + One(On(e, l))
        BY <1>0, <3>1, <4>1, HandsChange DEF Counted
      <4>3. /\ One(On(cur[Source], l)) = 0 /\ One(On(e, l)) = One(e.lease = l)
            /\ One(On(e, l)) \in {0, 1}
        BY <3>3, <4>1, OnWhat
      <4>4. refs'[l] = refs[l] + One(e.lease = l) /\ refs[l] \in Int
        BY <3>1, <3>2, <3>3, Retained
      <4> QED
        BY <2>1, <4>1, <4>2, <4>3, <4>4, CountsAreNumbers, Unmoved, Balance
    <3> QED
      BY <3>4, <3>5 DEF CountInv
  <2> QED
    BY <2>2, <2>3
<1>2. CASE SourceExhausted
  <2>1. /\ pc[Source] = "next" /\ UNCHANGED <<chan, out, terminal, refs>>
        /\ cur' = [cur EXCEPT ![Source] = EOS] /\ Goto(Source, "put")
    BY <1>2 DEF SourceExhausted, stageState
  <2>2. Empty'
    BY <2>1, Threads DEF CountInv, Empty, ThreadsOK, Goto
  <2>3. ASSUME NEW l \in Lease PROVE Counted(l)'
    <3>1. Counted(l) /\ cur[Source] = None
      BY <2>1, Threads DEF CountInv, Empty
    <3>2. /\ IsFiniteSet(Hands(l)')
          /\ Cardinality(Hands(l)')
                = Cardinality(Hands(l)) - One(On(cur[Source], l)) + One(On(EOS, l))
      BY <1>0, <2>1, <3>1, HandsChange DEF Counted
    <3>3. One(On(cur[Source], l)) = 0 /\ One(On(EOS, l)) = 0 /\ refs[l] \in Int
      BY <3>1, OnWhat DEF LeasesOK
    <3> QED
      BY <2>1, <3>1, <3>2, <3>3, CountsAreNumbers, Unmoved, Balance
  <2> QED
    BY <2>2, <2>3 DEF CountInv
<1>3. CASE SourcePut
  <2>1. /\ pc[Source] = "put" /\ UNCHANGED <<out, terminal, refs>> /\ Enqueue(0, cur[Source])
        /\ cur' = [cur EXCEPT ![Source] = None]
        /\ Goto(Source, IF cur[Source] = EOS THEN "finally" ELSE "next")
    BY <1>3 DEF SourcePut, stageState
  <2>2. Empty'
    BY <2>1, Threads DEF CountInv, Empty, ThreadsOK, Goto
  <2> QED
    BY <2>1, <2>2, HandPuts, Threads, EndChannels DEF CountInv
<1>4. CASE SourceRefused \/ SourceFails \/ CloseNext(Source)
  <2>1. UNCHANGED <<chan, cur, out, terminal, refs>>
    BY <1>4 DEF SourceRefused, Move, others, SourceFails, CloseNext, stageState
  <2>2. /\ \A t \in Thread : t # Source => pc'[t] = pc[t]
        /\ pc'[Source] = pc[Source] \/ pc'[Source] \in {"finally", "closing"}
    BY <1>4, Threads DEF SourceRefused, Move, SourceFails, Fail, CloseNext, Goto, ThreadsOK
  <2>3. Empty'
    BY <2>1, <2>2, Threads DEF CountInv, Empty
  <2> QED
    BY <2>1, <2>3, NothingMoves DEF CountInv
<1>5. CASE Finally(Source)
  BY <1>5, FinallyCounted, Threads
<1> QED
  BY <1>1, <1>2, <1>3, <1>4, <1>5 DEF SourceStep

\* A stage actor.
LEMMA StageCounted ==
  ASSUME TypeInv, CountInv, NEW i \in Stage, StageStep(i) PROVE CountInv'
<1> USE DEF TypeInv, TypeOK
<1> DEFINE w == Worker(i)
<1>0. /\ w \in Thread /\ w # Sink /\ w # Main /\ w # Source /\ Sink \in Thread
      /\ i - 1 \in Chan /\ PendingOf(i) \in Chan
      /\ \A j \in Stage : j # i => Worker(j) # w
      /\ cur[w] \in Message \cup {None}
  BY Threads, StageChannels DEF ThreadsOK
<1>1. CASE StageGetEos(i)
  <2>1. /\ pc[w] = "get" /\ HasItem(i - 1) /\ Head(chan[i - 1]) = EOS /\ Dequeue(i - 1)
        /\ Goto(w, "publish") /\ UNCHANGED <<cur, out, terminal, refs>>
    BY <1>1 DEF StageGetEos, StartFlush
  <2>2. Empty'
    BY <1>0, <2>1 DEF CountInv, Empty, ThreadsOK, Goto
  <2> QED
    BY <1>0, <2>1, <2>2, EosMoves DEF CountInv
<1>2. CASE StageGetUnit(i)
  <2>1. /\ pc[w] = "get" /\ HasItem(i - 1) /\ Dequeue(i - 1)
        /\ cur' = [cur EXCEPT ![w] = Head(chan[i - 1])]
        /\ UNCHANGED <<out, terminal, refs>>
        /\ \E label \in {"publish", "reset", "process"} : Goto(w, label)
    BY <1>2 DEF StageGetUnit, StartFlush, stageState
  <2>2. Empty' /\ cur[w] = None
    BY <1>0, <2>1 DEF CountInv, Empty, ThreadsOK, Goto
  <2> QED
    BY <1>0, <2>1, <2>2, HandGets DEF CountInv
<1>3. CASE StageEmit(i)
  <2> DEFINE u == Head(iter[i])
             alias == i \in Alias /\ kind[i] = "process" /\ u = cur[w].unit
             lease == IF alias THEN cur[w].lease ELSE <<i, u>>
             e == Wrap(u, marks[i], lease)
  <2>1. /\ pc[w] = "emit" /\ iter[i] # <<>>
        /\ out' = [out EXCEPT ![i] = e] /\ AddHandle(lease) /\ Goto(w, "put")
        /\ UNCHANGED <<chan, cur, terminal>>
    BY <1>3 DEF StageEmit
  <2>2. u \in Unit /\ marks[i] \in Seq(Unit)
    BY <2>1 DEF StagesOK
  <2>3. lease \in Lease
    <3>1. <<i, u>> \in Lease
      BY <2>2, GraphConstants DEF Lease, Stage
    <3>2. alias => cur[w] \in Envelope
      BY <2>1 DEF InHand
    <3> QED
      BY <3>1, <3>2, Envelopes
  <2>4. e \in Envelope /\ e.lease = lease
    BY <2>2, <2>3 DEF Wrap, Envelope
  <2> HIDE DEF e, lease
  <2>5. Empty'
    BY <1>0, <2>1 DEF CountInv, Empty, ThreadsOK, StagesOK, Goto
  <2>6. ASSUME NEW l \in Lease PROVE Counted(l)'
    <3>1. Counted(l) /\ out[i] = None
      BY <1>0, <2>1 DEF CountInv, Empty
    <3>2. /\ IsFiniteSet(Outs(l)')
          /\ Cardinality(Outs(l)') = Cardinality(Outs(l)) - One(On(out[i], l)) + One(On(e, l))
      BY <2>1, <3>1, OutsChange DEF Counted
    <3>3. One(On(out[i], l)) = 0 /\ One(On(e, l)) = One(lease = l) /\ One(On(e, l)) \in {0, 1}
      BY <2>4, <3>1, OnWhat
    <3>4. refs'[l] = refs[l] + One(lease = l) /\ refs[l] \in Int
      BY <2>1, <2>3, Retained
    <3> QED
      BY <2>1, <3>1, <3>2, <3>3, <3>4, CountsAreNumbers, Unmoved, Balance
  <2> QED
    BY <2>5, <2>6 DEF CountInv
<1>4. CASE StagePut(i)
  <2>1. /\ pc[w] = "put" /\ Enqueue(PendingOf(i), out[i]) /\ out' = [out EXCEPT ![i] = None]
        /\ Goto(w, "publish") /\ UNCHANGED <<cur, terminal, refs>>
    BY <1>4 DEF StagePut
  <2>2. Empty'
    BY <1>0, <2>1 DEF CountInv, Empty, ThreadsOK, StagesOK, Goto
  <2>3. ASSUME NEW l \in Lease PROVE Counted(l)'
    <3>1. Counted(l) /\ refs[l] \in Int
      BY DEF CountInv, LeasesOK
    <3>2. /\ IsFiniteSet(Outs(l)')
          /\ Cardinality(Outs(l)') = Cardinality(Outs(l)) - One(On(out[i], l)) + One(On(None, l))
      BY <2>1, <3>1, OutsChange DEF Counted
    <3>3. /\ IsFiniteSet(Queued(l)')
          /\ Cardinality(Queued(l)') = Cardinality(Queued(l)) + One(On(out[i], l))
      BY <1>0, <2>1, <3>1, QueuedPut DEF Counted
    <3>4. One(On(None, l)) = 0 /\ One(On(out[i], l)) \in {0, 1}
      BY OnWhat
    <3> QED
      BY <2>1, <3>1, <3>2, <3>3, <3>4, CountsAreNumbers, Unmoved, Balance
  <2> QED
    BY <2>2, <2>3 DEF CountInv
<1>5. CASE StagePutRefused(i)
  <2>1. /\ pc[w] = "put" /\ Release(out[i].lease) /\ out' = [out EXCEPT ![i] = None]
        /\ Goto(w, "finally") /\ UNCHANGED <<chan, cur, terminal>>
    BY <1>5 DEF StagePutRefused
  <2>2. Empty'
    BY <1>0, <2>1 DEF CountInv, Empty, ThreadsOK, StagesOK, Goto
  <2>3. ASSUME NEW l \in Lease PROVE Counted(l)'
    <3>1. Counted(l) /\ out[i] \in Envelope
      BY <2>1 DEF CountInv, InHand
    <3>2. /\ IsFiniteSet(Outs(l)')
          /\ Cardinality(Outs(l)') = Cardinality(Outs(l)) - One(On(out[i], l)) + One(On(None, l))
      BY <2>1, <3>1, OutsChange DEF Counted
    <3>3. One(On(None, l)) = 0 /\ One(On(out[i], l)) = One(out[i].lease = l)
          /\ One(On(out[i], l)) \in {0, 1}
      BY <3>1, OnWhat
    <3>4. refs'[l] = refs[l] - One(out[i].lease = l) /\ refs[l] \in Int
      BY <2>1, <3>1, Envelopes, Released
    <3> QED
      BY <2>1, <3>1, <3>2, <3>3, <3>4, CountsAreNumbers, Unmoved, Balance
  <2> QED
    BY <2>2, <2>3 DEF CountInv
<1>6. CASE StageRelease(i)
  <2>1. /\ pc[w] = "release" /\ Release(cur[w].lease) /\ cur' = [cur EXCEPT ![w] = None]
        /\ Goto(w, "top") /\ UNCHANGED <<chan, out, terminal>>
    BY <1>6 DEF StageRelease, stageState
  <2>2. Empty' /\ cur[w] \in Envelope
    BY <1>0, <2>1 DEF CountInv, Empty, ThreadsOK, InHand, Goto
  <2> QED
    BY <1>0, <2>1, <2>2, HandReleases DEF CountInv
<1>7. CASE StagePutEos(i)
  <2>1. /\ pc[w] = "eos" /\ (chan' = chan \/ Enqueue(PendingOf(i), EOS))
        /\ Goto(w, "finally") /\ UNCHANGED <<cur, out, terminal, refs>>
    BY <1>7 DEF StagePutEos, stageState
  <2>2. Empty'
    BY <1>0, <2>1 DEF CountInv, Empty, ThreadsOK, Goto
  <2>3. CASE chan' = chan
    BY <2>1, <2>2, <2>3, NothingMoves DEF CountInv
  <2>4. CASE Enqueue(PendingOf(i), EOS)
    BY <1>0, <2>1, <2>2, <2>4, EosMoves DEF CountInv
  <2> QED
    BY <2>1, <2>3, <2>4
<1>8. CASE \/ StageTop(i) \/ StageTurn(i) \/ StageGetClosed(i) \/ StageReset(i) \/ StageProcess(i)
           \/ AfterPublish(i)
           \/ StageSlotCancelled(i) \/ StageSettle(i) \/ StagePolls(i) \/ StageFails(i)
           \/ CloseNext(w)
  <2>1. UNCHANGED <<chan, cur, out, terminal, refs>>
    BY <1>8 DEF StageTop, StageTurn, StageGetClosed, StageReset, StageProcess, AfterPublish,
       StageSlotCancelled, StageSettle, StagePolls, StageFails, CloseNext, Move, others, vars,
       stageState
  <2>2. /\ \A t \in Thread : t # w => pc'[t] = pc[t]
        /\ \/ pc'[w] = pc[w] \/ pc[w] = "top"
           \/ pc'[w] \in {"reset", "process", "publish", "emit", "settle", "release", "eos",
                          "closing", "finally"}
        /\ pc'[w] = "put" <=> pc[w] = "put"
    BY <1>0, <1>8 DEF StageTop, StageTurn, StageGetClosed, StageReset, StageProcess, AfterPublish, StagesOK,
       StageSlotCancelled, StageSettle, StagePolls, StageFails, CloseNext, Move, Goto, Fail, vars,
       ThreadsOK
  <2>3. Empty'
    <3>1. \A t \in Thread : t = Main \/ pc'[t] \in {"new", "next", "top", "get", "stop", "done"}
            => cur'[t] = None
      BY <1>0, <2>1, <2>2 DEF CountInv, Empty
    <3>2. \A j \in Stage : pc'[Worker(j)] # "put" => out'[j] = None
      BY <1>0, <2>1, <2>2, Threads DEF CountInv, Empty
    <3>3. pc'[Sink] # "done" => Len(terminal') <= 1
      BY <1>0, <2>1, <2>2 DEF CountInv, Empty
    <3> QED
      BY <3>1, <3>2, <3>3 DEF Empty
  <2> QED
    BY <2>1, <2>3, NothingMoves DEF CountInv
<1>9. CASE Finally(w)
  BY <1>0, <1>9, FinallyCounted
<1> QED
  BY <1>1, <1>2, <1>3, <1>4, <1>5, <1>6, <1>7, <1>8, <1>9 DEF StageStep

\* A publisher actor.
LEMMA CourierCounted ==
  ASSUME TypeInv, CountInv, NEW i \in Stage, CourierStep(i) PROVE CountInv'
<1> USE DEF TypeInv, TypeOK
<1> DEFINE w == Courier(i)
<1>0. /\ w \in Thread /\ w # Sink /\ w # Main /\ Sink \in Thread
      /\ i \in Chan /\ PendingOf(i) \in Chan
      /\ \A j \in Stage : Worker(j) # w /\ Worker(j) \in Thread
  BY Threads, StageChannels
<1>1. CASE CourierGet(i)
  <2>1. /\ pc[w] = "get" /\ HasItem(PendingOf(i)) /\ Dequeue(PendingOf(i))
        /\ cur' = [cur EXCEPT ![w] = Head(chan[PendingOf(i)])]
        /\ UNCHANGED <<out, terminal, refs>> /\ Goto(w, "put")
    BY <1>1 DEF CourierGet, stageState
  <2>2. Empty' /\ cur[w] = None
    BY <1>0, <2>1 DEF CountInv, Empty, ThreadsOK, Goto
  <2> QED
    BY <1>0, <2>1, <2>2, HandGets DEF CountInv
<1>2. CASE CourierPut(i)
  <2>1. /\ pc[w] = "put" /\ UNCHANGED <<out, terminal, refs>> /\ Enqueue(i, cur[w])
        /\ cur' = [cur EXCEPT ![w] = None]
        /\ Goto(w, IF cur[w] = EOS THEN "finally" ELSE "top")
    BY <1>2 DEF CourierPut, stageState
  <2>2. Empty'
    BY <1>0, <2>1 DEF CountInv, Empty, ThreadsOK, Goto
  <2> QED
    BY <1>0, <2>1, <2>2, HandPuts DEF CountInv
<1>3. CASE CourierTop(i) \/ CourierClosed(i)
  <2>1. UNCHANGED <<chan, cur, out, terminal, refs>>
    BY <1>3 DEF CourierTop, CourierClosed, Move, others, stageState
  <2>2. /\ \A t \in Thread : t # w => pc'[t] = pc[t]
        /\ pc'[w] = "finally" \/ pc[w] = "top"
    BY <1>0, <1>3 DEF CourierTop, CourierClosed, Move, Goto, ThreadsOK
  <2>3. Empty'
    BY <1>0, <2>1, <2>2 DEF CountInv, Empty
  <2> QED
    BY <2>1, <2>3, NothingMoves DEF CountInv
<1>4. CASE Finally(w)
  BY <1>0, <1>4, FinallyCounted
<1> QED
  BY <1>1, <1>2, <1>3, <1>4 DEF CourierStep

\* The sink actor.
LEMMA SinkCounted ==
  ASSUME TypeInv, CountInv, SinkStep PROVE CountInv'
<1> USE DEF TypeInv, TypeOK
<1>0. /\ Sink \in Thread /\ Sink # Main /\ N \in Chan /\ terminal \in Seq(Lease)
      /\ \A j \in Stage : Worker(j) # Sink /\ Worker(j) \in Thread
  BY Threads, EndChannels DEF LeasesOK
<1>1. CASE SinkGetUnit
  <2>1. /\ pc[Sink] = "get" /\ HasItem(N) /\ Dequeue(N)
        /\ cur' = [cur EXCEPT ![Sink] = Head(chan[N])]
        /\ UNCHANGED <<out, terminal, refs>> /\ Goto(Sink, "consume")
    BY <1>1 DEF SinkGetUnit, stageState
  <2>2. Empty' /\ cur[Sink] = None
    BY <1>0, <2>1 DEF CountInv, Empty, ThreadsOK, Goto
  <2> QED
    BY <1>0, <2>1, <2>2, HandGets DEF CountInv
<1>2. CASE SinkGetEos
  <2>1. /\ pc[Sink] = "get" /\ HasItem(N) /\ Dequeue(N) /\ Head(chan[N]) = EOS
        /\ UNCHANGED <<cur, out, terminal, refs>> /\ Goto(Sink, "finally")
    BY <1>2 DEF SinkGetEos, stageState
  <2>2. Empty'
    BY <1>0, <2>1 DEF CountInv, Empty, ThreadsOK, Goto
  <2> QED
    BY <1>0, <2>1, <2>2, EosMoves DEF CountInv
<1>3. CASE SinkConsume
  <2> DEFINE x == cur[Sink].lease
  <2>1. /\ pc[Sink] = "consume" /\ cur' = [cur EXCEPT ![Sink] = None]
        /\ UNCHANGED <<chan, out>>
        /\ \E label \in {"stop", "top"} : Goto(Sink, label)
    BY <1>3 DEF SinkConsume, stageState
  <2>2. cur[Sink] \in Envelope /\ x \in Lease
    BY <2>1, Envelopes DEF InHand
  <2>3. Len(terminal) <= 1 /\ Len(terminal) \in Nat
    BY <1>0, <2>1 DEF CountInv, Empty
  <2>4. CASE ~Retains
    <3>1. UNCHANGED terminal /\ Release(x)
      BY <1>3, <2>4 DEF SinkConsume
    <3>2. Empty'
      BY <1>0, <2>1, <3>1 DEF CountInv, Empty, ThreadsOK, Goto
    <3> QED
      BY <1>0, <2>1, <2>2, <3>1, <3>2, HandReleases DEF CountInv
  <2>5. CASE Retains
    <3>1. terminal' = <<x>> /\ IF terminal = <<>> THEN UNCHANGED refs ELSE Release(terminal[1])
      BY <1>3, <2>5 DEF SinkConsume
    <3>2. Empty'
      BY <1>0, <2>1, <2>2, <3>1 DEF CountInv, Empty, ThreadsOK, Goto
    <3>3. ASSUME NEW l \in Lease PROVE Counted(l)'
      <4>1. Counted(l) /\ refs[l] \in Int
        BY DEF CountInv, LeasesOK
      <4>2. /\ IsFiniteSet(Hands(l)')
            /\ Cardinality(Hands(l)')
                = Cardinality(Hands(l)) - One(On(cur[Sink], l)) + One(On(None, l))
        BY <1>0, <2>1, <4>1, HandsChange DEF Counted
      <4>3. One(On(None, l)) = 0 /\ One(On(cur[Sink], l)) = One(x = l) /\ One(x = l) \in {0, 1}
        BY <2>2, OnWhat
      <4>4. Cardinality(Kept(l)) = IF terminal # <<>> /\ terminal[1] = l THEN 1 ELSE 0
        BY <1>0, <2>3, PlacesOne, KeptPlaces
      <4>5. IsFiniteSet(Kept(l)') /\ Cardinality(Kept(l)') = One(x = l)
        <5>1. Kept(l)' = Places(<<x>>, l)
          BY <3>1 DEF Kept, Places
        <5>2. <<x>> \in Seq(Lease) /\ Len(<<x>>) <= 1 /\ <<x>> # <<>> /\ <<x>>[1] = x
          BY <2>2
        <5> QED
          BY <5>1, <5>2, PlacesOne DEF One
      <4>6. refs'[l] = refs[l] - (IF terminal # <<>> /\ terminal[1] = l THEN 1 ELSE 0)
        <5>1. CASE terminal = <<>>
          BY <3>1, <4>1, <5>1
        <5>2. CASE terminal # <<>>
          <6>1. terminal[1] \in Lease
            BY <1>0, <5>2
          <6> QED
            BY <3>1, <5>2, <6>1, Released DEF One
        <5> QED
          BY <5>1, <5>2
      <4> QED
        BY <2>1, <4>1, <4>2, <4>3, <4>4, <4>5, <4>6, CountsAreNumbers, Unmoved, Balance
    <3> QED
      BY <3>2, <3>3 DEF CountInv
  <2> QED
    BY <2>4, <2>5
<1>4. CASE SinkFinally
  <2>1. pc[Sink] = "finally" /\ UNCHANGED <<chan, out>>
    BY <1>4 DEF SinkFinally, stageState
  <2>2. CASE cur[Sink] # None
    <3>1. /\ Release(cur[Sink].lease) /\ cur' = [cur EXCEPT ![Sink] = None]
          /\ UNCHANGED <<pc, terminal>>
      BY <1>4, <2>2 DEF SinkFinally
    <3>2. cur[Sink] \in Envelope
      BY <2>2 DEF InHand
    <3>3. Empty'
      BY <1>0, <2>1, <3>1 DEF CountInv, Empty, ThreadsOK
    <3> QED
      BY <1>0, <2>1, <3>1, <3>2, <3>3, HandReleases DEF CountInv
  <2>3. CASE cur[Sink] = None /\ terminal # <<>>
    <3>1. Release(terminal[1]) /\ terminal' = <<>> /\ UNCHANGED <<pc, cur>>
      BY <1>4, <2>3 DEF SinkFinally
    <3>2. Head(terminal) = terminal[1] /\ Tail(terminal) = <<>>
      BY <1>0, <2>1, <2>3, OnlyOne DEF CountInv, Empty
    <3>3. Empty'
      BY <1>0, <2>1, <3>1 DEF CountInv, Empty, ThreadsOK
    <3> QED
      BY <2>1, <2>3, <3>1, <3>2, <3>3, TerminalReleases DEF CountInv
  <2>4. CASE cur[Sink] = None /\ terminal = <<>>
    <3>1. Goto(Sink, "done") /\ UNCHANGED <<cur, refs, terminal>>
      BY <1>4, <2>4 DEF SinkFinally
    <3>2. Empty'
      BY <1>0, <2>1, <2>4, <3>1 DEF CountInv, Empty, ThreadsOK, Goto
    <3> QED
      BY <2>1, <3>1, <3>2, NothingMoves DEF CountInv
  <2> QED
    BY <2>2, <2>3, <2>4
<1>5. CASE SinkTop \/ SinkGetClosed \/ SinkStop \/ SinkFails \/ CloseNext(Sink)
  <2>1. UNCHANGED <<chan, cur, out, terminal, refs>>
    BY <1>5 DEF SinkTop, SinkGetClosed, SinkStop, SinkFails, CloseNext, Move, others, stageState
  <2>2. /\ \A t \in Thread : t # Sink => pc'[t] = pc[t]
        /\ pc'[Sink] = pc[Sink] \/ pc'[Sink] \in {"closing", "finally"} \/ pc[Sink] = "top"
        /\ pc[Sink] # "done"
    BY <1>0, <1>5 DEF SinkTop, SinkGetClosed, SinkStop, SinkFails, CloseNext, Move, Goto, Fail,
       Cancel, ThreadsOK
  <2>3. Empty'
    BY <1>0, <2>1, <2>2 DEF CountInv, Empty
  <2> QED
    BY <2>1, <2>3, NothingMoves DEF CountInv
<1>6. CASE SinkFinishFails
  <2>1. /\ pc[Sink] = "get" /\ HasItem(N) /\ Dequeue(N) /\ Head(chan[N]) = EOS
        /\ UNCHANGED <<cur, out, terminal, refs>> /\ Goto(Sink, "closing")
    BY <1>6 DEF SinkFinishFails, Fail, stageState
  <2>2. Empty'
    BY <1>0, <2>1 DEF CountInv, Empty, ThreadsOK, Goto
  <2> QED
    BY <1>0, <2>1, <2>2, EosMoves DEF CountInv
<1> QED
  BY <1>1, <1>2, <1>3, <1>4, <1>5, <1>6 DEF SinkStep

\* The calling thread.
LEMMA MainCounted ==
  ASSUME TypeInv, OutcomeInv, CountInv, MainStep \/ MainFails \/ Close PROVE CountInv'
<1> USE DEF TypeInv, TypeOK
<1>0. /\ Main \in Thread /\ Sink \in Thread /\ Sink # Main /\ N \in Chan /\ terminal \in Seq(Lease)
      /\ \A j \in Stage : Worker(j) # Main /\ Worker(j) \in Thread /\ Worker(j) # Sink
  BY Threads, EndChannels DEF LeasesOK
<1>1. CASE HostPull
  <2>1. /\ pc[Main] = "idle" /\ Goto(Main, "get") /\ UNCHANGED <<chan, cur, out>>
        /\ IF HostHoldsLimit THEN Release(Head(terminal)) /\ terminal' = Tail(terminal)
                             ELSE UNCHANGED <<refs, terminal>>
    BY <1>1 DEF HostPull, stageState
  <2>2. HostHoldsLimit => terminal # <<>>
    <3>1. HostHoldsLimit => Len(terminal) >= 1
      BY DEF HostHoldsLimit
    <3> QED
      BY <1>0, <3>1
  <2>3. pc[Sink] = "done"
    BY <2>1 DEF OutcomeInv, Phases
  <2>4. Empty'
    BY <1>0, <2>1, <2>3 DEF CountInv, Empty, ThreadsOK, Goto
  <2>5. CASE HostHoldsLimit
    BY <2>1, <2>2, <2>4, <2>5, TerminalReleases DEF CountInv
  <2>6. CASE ~HostHoldsLimit
    BY <2>1, <2>4, <2>6, NothingMoves DEF CountInv
  <2> QED
    BY <2>5, <2>6
<1>2. CASE HostGetUnit
  <2> DEFINE m == Head(chan[N])
  <2>1. /\ pc[Main] = "get" /\ Goto(Main, "idle") /\ HasItem(N) /\ m # EOS /\ Dequeue(N)
        /\ terminal' = Append(terminal, m.lease) /\ UNCHANGED <<cur, out, refs>>
    BY <1>2 DEF HostGetUnit, stageState
  <2>2. m \in Envelope /\ m.lease \in Lease
    BY <1>0, <2>1, DequeueOK, Envelopes DEF Message
  <2>3. pc[Sink] = "done"
    BY <2>1 DEF OutcomeInv, Phases
  <2>4. Empty'
    BY <1>0, <2>1, <2>3 DEF CountInv, Empty, ThreadsOK, Goto
  <2>5. ASSUME NEW l \in Lease PROVE Counted(l)'
    <3>1. Counted(l) /\ refs[l] \in Int
      BY DEF CountInv, LeasesOK
    <3>2. /\ IsFiniteSet(Queued(l)')
          /\ Cardinality(Queued(l)') = Cardinality(Queued(l)) - One(On(m, l))
      BY <1>0, <2>1, <3>1, QueuedGet DEF Counted
    <3>3. One(On(m, l)) = One(m.lease = l) /\ One(m.lease = l) \in {0, 1}
      <4> HIDE DEF m
      <4> QED
        BY ONLY <2>2, OnWhat
    <3>4. IsFiniteSet(Kept(l)') /\ Cardinality(Kept(l)') = Cardinality(Kept(l)) + One(m.lease = l)
      <4>1. Kept(l) = Places(terminal, l) /\ Kept(l)' = Places(Append(terminal, m.lease), l)
        BY <2>1 DEF Kept, Places
      <4> QED
        BY <1>0, <3>1, <4>1, PlacesAppend DEF Counted
    <3> HIDE DEF m
    <3> QED
      BY <2>1, <3>1, <3>2, <3>3, <3>4, CountsAreNumbers, Unmoved, Balance
  <2> QED
    BY <2>4, <2>5 DEF CountInv
<1>3. CASE HostGetEos
  <2>1. /\ pc[Main] = "get" /\ HasItem(N) /\ Head(chan[N]) = EOS /\ Dequeue(N)
        /\ UNCHANGED <<cur, out, terminal, refs>>
        /\ \E label \in {"closing", "join"} : Goto(Main, label)
    BY <1>3 DEF HostGetEos, Cancel, stageState
  <2>2. Empty'
    BY <1>0, <2>1 DEF CountInv, Empty, ThreadsOK, Goto
  <2> QED
    BY <1>0, <2>1, <2>2, EosMoves DEF CountInv
<1>4. ASSUME NEW c \in Chan, Drain(c) PROVE CountInv'
  <2>1. HasItem(c) /\ Dequeue(c) /\ UNCHANGED <<pc, cur, out, terminal>>
    BY <1>4 DEF Drain, stageState
  <2>2. Empty'
    BY <2>1 DEF CountInv, Empty
  <2>3. CASE Head(chan[c]) = EOS
    <3>1. UNCHANGED refs
      BY <1>4, <2>3 DEF Drain
    <3> QED
      BY <2>1, <2>2, <2>3, <3>1, EosMoves DEF CountInv
  <2>4. CASE Head(chan[c]) # EOS
    <3>1. Release(Head(chan[c]).lease)
      BY <1>4, <2>4 DEF Drain
    <3>2. Head(chan[c]) \in Envelope
      BY <2>1, <2>4, DequeueOK DEF Message
    <3> QED
      BY <2>1, <2>2, <3>1, <3>2, ChannelReleases DEF CountInv
  <2> QED
    BY <2>3, <2>4
<1>5. CASE DropTerminal
  <2>1. /\ terminal # <<>> /\ Release(Head(terminal)) /\ terminal' = Tail(terminal)
        /\ UNCHANGED <<pc, chan, cur, out>>
    BY <1>5 DEF DropTerminal, stageState
  <2>2. Empty'
    BY <1>0, <2>1 DEF CountInv, Empty
  <2> QED
    BY <2>1, <2>2, TerminalReleases DEF CountInv
<1>6. CASE Start
  <2>1. UNCHANGED <<chan, cur, out, terminal, refs>> /\ pc[Main] = "new"
    BY <1>6 DEF Start, others, stageState
  <2>2. \A t \in Thread \ {Main} : pc[t] = "new"
    BY <2>1 DEF OutcomeInv, Phases
  <2>3. Empty'
    BY <1>0, <2>1, <2>2 DEF CountInv, Empty
  <2> QED
    BY <2>1, <2>3, NothingMoves DEF CountInv
<1>7. CASE \/ HostGetClosed \/ WaitReturns \/ CloseNext(Main) \/ Join \/ CloseAll
           \/ StartFails \/ HostRaises \/ HostInterrupted \/ Close
  <2>1. UNCHANGED <<chan, cur, out, terminal, refs>>
    BY <1>7 DEF HostGetClosed, WaitReturns, CloseNext, Join, CloseAll, StartFails, HostRaises,
       HostInterrupted, Close, Move,
       others, stageState
  <2>2. \A t \in Thread : t # Main => pc'[t] = pc[t]
    BY <1>7 DEF HostGetClosed, WaitReturns, CloseNext, Join, CloseAll, StartFails, HostRaises,
       HostInterrupted, Close, Move,
       Goto, Fail, Cancel, ThreadsOK
  <2>3. Empty'
    BY <1>0, <2>1, <2>2 DEF CountInv, Empty
  <2> QED
    BY <2>1, <2>3, NothingMoves DEF CountInv
<1>8. CASE HostUnitFails
  <2>1. /\ pc[Main] = "get" /\ Goto(Main, "raise") /\ HasItem(N) /\ Head(chan[N]) # EOS
        /\ Dequeue(N) /\ Release(Head(chan[N]).lease) /\ UNCHANGED <<cur, out, terminal>>
    BY <1>8 DEF HostUnitFails, stageState
  <2>2. Empty'
    BY <1>0, <2>1 DEF CountInv, Empty, ThreadsOK, Goto
  <2>3. Head(chan[N]) \in Envelope
    BY <1>0, <2>1, DequeueOK DEF Message
  <2> QED
    BY <1>0, <2>1, <2>2, <2>3, ChannelReleases DEF CountInv
<1> QED
  BY <1>1, <1>2, <1>3, <1>4, <1>5, <1>6, <1>7, <1>8 DEF MainStep, MainFails

\* The initial state has no lease.
LEMMA InitCounted == Init => CountInv
<1> SUFFICES ASSUME Init PROVE CountInv
  OBVIOUS
<1>1. Empty
  BY Threads DEF Init, Empty
<1>2. ASSUME NEW l \in Lease PROVE Counted(l)
  <2>1. Queued(l) = {} /\ Hands(l) = {} /\ Outs(l) = {} /\ Kept(l) = {} /\ refs[l] = 0
    BY <1>2 DEF Init, Queued, Hands, Outs, Kept, On
  <2> QED
    BY <2>1, FS_EmptySet DEF Counted
<1> QED
  BY <1>1, <1>2 DEF CountInv

\* Every step keeps the counts right.
LEMMA NextCounted == TypeInv /\ OutcomeInv /\ CountInv /\ [Next]_vars => CountInv'
<1> SUFFICES ASSUME TypeInv, OutcomeInv, CountInv, [Next]_vars PROVE CountInv'
  OBVIOUS
<1>1. CASE SourceStep
  BY <1>1, SourceCounted
<1>2. ASSUME NEW i \in Stage, StageStep(i) PROVE CountInv'
  BY <1>2, StageCounted
<1>3. ASSUME NEW i \in Stage, CourierStep(i) PROVE CountInv'
  BY <1>3, CourierCounted
<1>4. CASE SinkStep
  BY <1>4, SinkCounted
<1>5. CASE MainStep \/ MainFails \/ Close
  BY <1>5, MainCounted
<1>6. CASE Finished \/ UNCHANGED vars
  <2>1. UNCHANGED <<pc, chan, cur, out, terminal, refs>>
    BY <1>6 DEF Finished, vars, others, stageState
  <2>2. Empty'
    BY <2>1 DEF CountInv, Empty
  <2> QED
    BY <2>1, <2>2, NothingMoves DEF CountInv
<1> QED
  BY <1>1, <1>2, <1>3, <1>4, <1>5, <1>6 DEF Next
=============================================================================
