------------------------- MODULE MemAllocatorProofs -------------------------
(***************************************************************************)
(* CBaseAllocator and CMemAllocator: what holds of the pool for any number *)
(* of clients, any size of pool and any width of a LONG.                   *)
(***************************************************************************)
EXTENDS MemAllocator, FiniteSetTheorems, TLAPS

Layouts == [n : 0 .. MaxBuffers, stride : Int, prefix : Int, size : Int, block : Int]

Holders(s) == {c \in Clients : s \in holds[c]}

\* A sample that exists is on the free list, once, or somebody has a reference to it; no other is either.
SamplesInv ==
  /\ \A s \in Samples : cRef[s] = Cardinality(Holders(s))
  /\ \A i, j \in 1 .. Len(free) : free[i] = free[j] => i = j
  /\ \A i \in 1 .. Len(free) : free[i] <= layout.n /\ cRef[free[i]] = 0
  /\ \A s \in 1 .. layout.n : cRef[s] = 0 => \E i \in 1 .. Len(free) : free[i] = s
  /\ \A s \in Samples : cRef[s] > 0 => s <= layout.n
  /\ Len(free) + Cardinality(Outstanding) = layout.n

\* Whoever sleeps is counted in m_lWaiting or has a unit of the semaphore coming; nobody is counted without need.
WaitInv ==
  /\ Cardinality(Sleepers) <= sem + waiting
  /\ (free # <<>> \/ ~committed) => waiting = 0

\* A decommit is in progress only of a pool that is not committed and is waiting for a sample.
LifeInv ==
  /\ AliveWhileNeeded
  /\ inProgress => ~committed /\ Len(free) < layout.n

AllocInv == AllocTypeOK /\ SamplesInv /\ WaitInv /\ LifeInv /\ BuffersFit

USE DEF Layouts, poolVars, semVars, sampleVars, lifeVars, allocVars

-----------------------------------------------------------------------------
(* Counting.                                                               *)

\* The clients are finite, hence whoever is counted among them, and so are the samples.
LEMMA Finite ==
  /\ \A s : IsFiniteSet(Holders(s)) /\ Cardinality(Holders(s)) \in Nat
  /\ IsFiniteSet(Sleepers) /\ Cardinality(Sleepers) \in Nat
  /\ IsFiniteSet(Outstanding) /\ Cardinality(Outstanding) \in Nat
<1>1. \A s : IsFiniteSet(Holders(s))
  BY FS_Subset, ClientsAssumption DEF Holders
<1>2. IsFiniteSet(Sleepers)
  BY FS_Subset, ClientsAssumption DEF Sleepers
<1>3. IsFiniteSet(Samples)
  BY FS_Interval, BoundsAssumption DEF Samples
<1>4. Outstanding \in SUBSET Samples
  BY DEF Outstanding
<1>5. IsFiniteSet(Outstanding)
  BY <1>3, <1>4, FS_Subset
<1> QED BY <1>1, <1>2, <1>5, FS_CardinalityType

LEMMA FinitePrimed ==
  /\ \A s : IsFiniteSet(Holders(s)') /\ Cardinality(Holders(s)') \in Nat
  /\ IsFiniteSet(Sleepers') /\ Cardinality(Sleepers') \in Nat
  /\ IsFiniteSet(Outstanding') /\ Cardinality(Outstanding') \in Nat
<1>1. \A s : IsFiniteSet(Holders(s)')
  BY FS_Subset, ClientsAssumption DEF Holders
<1>2. IsFiniteSet(Sleepers')
  BY FS_Subset, ClientsAssumption DEF Sleepers
<1>3. IsFiniteSet(Samples)
  BY FS_Interval, BoundsAssumption DEF Samples
<1>4. Outstanding' \in SUBSET Samples
  BY DEF Outstanding, Samples
<1>5. IsFiniteSet(Outstanding')
  BY <1>3, <1>4, FS_Subset
<1> QED BY <1>1, <1>2, <1>5, FS_CardinalityType

\* The pool is whole exactly when nothing is out.
LEMMA AllBackMeansNoneOut ==
  ASSUME AllocTypeOK, SamplesInv
  PROVE  Len(free) <= layout.n /\ (Len(free) >= layout.n <=> Outstanding = {})
<1>1. Len(free) \in Nat /\ layout.n \in Nat
  BY BoundsAssumption DEF AllocTypeOK
<1>2. Cardinality(Outstanding) = 0 <=> Outstanding = {}
  BY Finite, FS_EmptySet
<1> QED BY <1>1, <1>2, Finite DEF SamplesInv

\* Whoever waits is asleep or not: the sleepers grow and shrink by the client that moves.
LEMMA OneSleeper ==
  ASSUME AllocTypeOK, NEW c \in Clients, NEW at \in {"idle", "sleeping", "woken"}, gpc' = [gpc EXCEPT ![c] = at]
  PROVE  Cardinality(Sleepers') = Cardinality(Sleepers) + (IF at = "sleeping" THEN 1 ELSE 0)
                                                        - (IF gpc[c] = "sleeping" THEN 1 ELSE 0)
<1>1. CASE at = "sleeping"
  <2>1. Sleepers' = Sleepers \cup {c}
    BY <1>1 DEF Sleepers, AllocTypeOK
  <2>2. c \in Sleepers <=> gpc[c] = "sleeping"
    BY DEF Sleepers
  <2>3. Cardinality(Sleepers') = IF c \in Sleepers THEN Cardinality(Sleepers) ELSE Cardinality(Sleepers) + 1
    BY <2>1, Finite, FS_AddElement
  <2> QED BY <1>1, <2>2, <2>3, Finite
<1>2. CASE at # "sleeping"
  <2>1. Sleepers' = Sleepers \ {c}
    BY <1>2 DEF Sleepers, AllocTypeOK
  <2>2. c \in Sleepers <=> gpc[c] = "sleeping"
    BY DEF Sleepers
  <2>3. Cardinality(Sleepers') = IF c \in Sleepers THEN Cardinality(Sleepers) - 1 ELSE Cardinality(Sleepers)
    BY <2>1, Finite, FS_RemoveElement
  <2> QED BY <1>2, <2>2, <2>3, Finite
<1> QED BY <1>1, <1>2

-----------------------------------------------------------------------------
(* Nobody sleeps for nothing.                                              *)

\* What leaves the clients where they are keeps their number.
LEMMA SameSleepers == gpc' = gpc => Cardinality(Sleepers') = Cardinality(Sleepers)
BY DEF Sleepers

\* The control of the pool: a Commit lets clients in while nobody waits, a Decommit lets everybody out.
LEMMA ControlWaits ==
  ASSUME AllocTypeOK, WaitInv, PoolControl
  PROVE  WaitInv'
<1>1. gpc' = gpc /\ Cardinality(Sleepers') = Cardinality(Sleepers) /\ Cardinality(Sleepers) \in Nat
  BY SameSleepers, Finite
     DEF PoolControl, SetProperties, CommitAllocates, CommitFails, CommitCancels, Decommit, ReleaseAllocator
<1>2. CASE Decommit
  BY <1>1, <1>2 DEF Decommit, NotifySample, WaitInv, AllocTypeOK
<1>3. CASE ~Decommit
  <2>1. sem' = sem /\ waiting' = waiting
    BY <1>3 DEF PoolControl, SetProperties, CommitAllocates, CommitFails, CommitCancels, ReleaseAllocator
  <2>2. ~committed \/ (committed' = committed /\ free' = free)
    BY <1>3 DEF PoolControl, SetProperties, CommitAllocates, CommitFails, CommitCancels, ReleaseAllocator
  <2> QED BY <1>1, <2>1, <2>2 DEF WaitInv, AllocTypeOK
<1> QED BY <1>2, <1>3

\* A client is counted before it sleeps and takes its unit when it wakes.
LEMMA ClientWaits ==
  ASSUME AllocTypeOK, WaitInv, NEW c \in Clients, Client(c)
  PROVE  WaitInv'
<1> DEFINE sleepers == Cardinality(Sleepers)
<1>1. sleepers \in Nat /\ Cardinality(Sleepers') \in Nat
  BY Finite, FinitePrimed
<1>2. CASE GetBuffer(c)
  <2>1. gpc' = [gpc EXCEPT ![c] = "idle"] /\ gpc[c] # "sleeping"
    BY <1>2 DEF GetBuffer
  <2>2. Cardinality(Sleepers') = sleepers + (IF "idle" = "sleeping" THEN 1 ELSE 0) - (IF gpc[c] = "sleeping" THEN 1 ELSE 0)
    BY <2>1, OneSleeper, Zenon
  <2>3. Cardinality(Sleepers') = sleepers
    BY <1>1, <2>1, <2>2
  <2> QED BY <1>1, <1>2, <2>3 DEF GetBuffer, WaitInv, AllocTypeOK
<1>3. CASE GetBufferNotCommitted(c)
  <2>1. gpc' = [gpc EXCEPT ![c] = "idle"] /\ gpc[c] # "sleeping"
    BY <1>3 DEF GetBufferNotCommitted
  <2>2. Cardinality(Sleepers') = sleepers + (IF "idle" = "sleeping" THEN 1 ELSE 0) - (IF gpc[c] = "sleeping" THEN 1 ELSE 0)
    BY <2>1, OneSleeper, Zenon
  <2>3. Cardinality(Sleepers') = sleepers
    BY <1>1, <2>1, <2>2
  <2> QED BY <1>1, <1>3, <2>3 DEF GetBufferNotCommitted, WaitInv, AllocTypeOK
<1>4. CASE GetBufferEmpty(c)
  <2>1. gpc' = [gpc EXCEPT ![c] = "sleeping"] /\ gpc[c] # "sleeping"
    BY <1>4 DEF GetBufferEmpty
  <2>2. Cardinality(Sleepers') = sleepers + (IF "sleeping" = "sleeping" THEN 1 ELSE 0) - (IF gpc[c] = "sleeping" THEN 1 ELSE 0)
    BY <2>1, OneSleeper, Zenon
  <2>3. Cardinality(Sleepers') = sleepers + 1
    BY <1>1, <2>1, <2>2
  <2> QED BY <1>1, <1>4, <2>3 DEF GetBufferEmpty, WaitInv, AllocTypeOK
<1>5. CASE GetBufferNoWait(c)
  <2>1. Cardinality(Sleepers') = sleepers
    BY <1>5, SameSleepers DEF GetBufferNoWait
  <2> QED BY <1>1, <1>5, <2>1 DEF GetBufferNoWait, WaitInv, AllocTypeOK
<1>6. CASE GetBufferWakes(c)
  <2>1. gpc' = [gpc EXCEPT ![c] = "woken"] /\ gpc[c] = "sleeping"
    BY <1>6 DEF GetBufferWakes
  <2>2. Cardinality(Sleepers') = sleepers + (IF "woken" = "sleeping" THEN 1 ELSE 0) - (IF gpc[c] = "sleeping" THEN 1 ELSE 0)
    BY <2>1, OneSleeper, Zenon
  <2>3. Cardinality(Sleepers') = sleepers - 1
    BY <1>1, <2>1, <2>2
  <2> QED BY <1>1, <1>6, <2>3 DEF GetBufferWakes, WaitInv, AllocTypeOK
<1> QED BY <1>2, <1>3, <1>4, <1>5, <1>6 DEF Client

\* A buffer that comes back wakes everybody.
LEMMA SampleWaits ==
  ASSUME AllocTypeOK, WaitInv, NEW c \in Clients, NEW s \in Samples, AddRef(c, s) \/ Release(c, s)
  PROVE  WaitInv'
<1>1. Cardinality(Sleepers') = Cardinality(Sleepers) /\ Cardinality(Sleepers) \in Nat /\ committed' = committed
  BY SameSleepers, Finite DEF AddRef, Release
<1>2. \/ sem' = sem /\ waiting' = waiting /\ free' = free
      \/ NotifySample
  BY DEF AddRef, Release, ReleaseBuffer
<1> QED BY <1>1, <1>2 DEF NotifySample, WaitInv, AllocTypeOK

\* The whole of it.
LEMMA WaitKeeps ==
  ASSUME AllocTypeOK, WaitInv, [AllocNext]_allocVars
  PROVE  WaitInv'
<1>1. CASE UNCHANGED allocVars
  BY <1>1 DEF WaitInv, Sleepers
<1> QED BY <1>1, ControlWaits, ClientWaits, SampleWaits DEF AllocNext

-----------------------------------------------------------------------------
(* The samples.                                                            *)

\* The control of the pool takes samples away or makes new ones only when none is out.
LEMMA ControlSamples ==
  ASSUME AllocTypeOK, SamplesInv, LifeInv, PoolControl
  PROVE  SamplesInv'
<1>1. cRef' = cRef /\ holds' = holds
  BY DEF PoolControl, SetProperties, CommitAllocates, CommitFails, CommitCancels, Decommit, ReleaseAllocator
<1>2. Outstanding' = Outstanding /\ \A s : Holders(s)' = Holders(s)
  BY <1>1 DEF Outstanding, Holders
<1>3. CASE free' = free /\ layout' = layout
  BY <1>1, <1>2, <1>3 DEF SamplesInv
<1>4. CASE ~(free' = free /\ layout' = layout)
  <2>1. /\ ~committed /\ ~inProgress
        /\ \/ \E n \in 0 .. props.count : AllocNew(n)
           \/ layout' = NoLayout /\ free' = <<>>
    BY <1>4 DEF PoolControl, SetProperties, CommitAllocates, CommitFails, CommitCancels, Decommit, ReleaseAllocator,
       AllocSame, AllocRefused, AllocNew, AllocTypeOK
  <2>2. Outstanding = {} /\ Cardinality(Outstanding) = 0
    BY <2>1, Finite, FS_EmptySet DEF LifeInv, AliveWhileNeeded
  <2>3. \A s \in Samples : cRef[s] = 0
    BY <2>2 DEF Outstanding, AllocTypeOK
  <2>4. CASE layout' = NoLayout /\ free' = <<>>
    BY <1>1, <1>2, <2>2, <2>3, <2>4 DEF SamplesInv, NoLayout
  <2>5. ASSUME NEW n \in 0 .. props.count, AllocNew(n) PROVE SamplesInv'
    <3>1. n \in Nat /\ n <= MaxBuffers
      BY BoundsAssumption DEF AllocTypeOK
    <3>2. layout'.n = n /\ free' = [i \in 1 .. n |-> n + 1 - i]
      BY <2>5 DEF AllocNew, LayoutOf
    <3>3. Len(free') = n /\ \A i \in 1 .. n : free'[i] = n + 1 - i /\ free'[i] \in 1 .. n
      BY <3>1, <3>2
    <3>4. 1 .. n \subseteq Samples
      BY <3>1, BoundsAssumption DEF Samples
    <3>5. \A i, j \in 1 .. n : free'[i] = free'[j] => i = j
      BY <3>1, <3>3
    <3>6. \A s \in 1 .. n : \E i \in 1 .. n : free'[i] = s
      <4> SUFFICES ASSUME NEW s \in 1 .. n PROVE \E i \in 1 .. n : free'[i] = s
        OBVIOUS
      <4>1. n + 1 - s \in 1 .. n
        BY <3>1
      <4>2. free'[n + 1 - s] = s
        BY <3>1, <3>3, <4>1
      <4> QED BY <4>1, <4>2
    <3>7. \A s \in Samples : cRef'[s] = Cardinality(Holders(s)')
      BY <1>1, <1>2 DEF SamplesInv
    <3> QED BY <1>1, <1>2, <2>2, <2>3, <3>1, <3>2, <3>3, <3>4, <3>5, <3>6, <3>7 DEF SamplesInv
  <2> QED BY <2>1, <2>4, <2>5
<1> QED BY <1>3, <1>4

\* References: of one sample, by one client, the holders of the others unmoved.
LEMMA OneHolder ==
  ASSUME AllocTypeOK, NEW c \in Clients, NEW s \in Samples
  PROVE  /\ holds' = [holds EXCEPT ![c] = @ \cup {s}] /\ s \notin holds[c] =>
              Cardinality(Holders(s)') = Cardinality(Holders(s)) + 1
         /\ holds' = [holds EXCEPT ![c] = @ \ {s}] /\ s \in holds[c] =>
              Cardinality(Holders(s)') = Cardinality(Holders(s)) - 1 /\ Cardinality(Holders(s)) > 0
         /\ holds' = [holds EXCEPT ![c] = @ \cup {s}] \/ holds' = [holds EXCEPT ![c] = @ \ {s}] =>
              \A t \in Samples \ {s} : Holders(t)' = Holders(t)
<1>1. ASSUME holds' = [holds EXCEPT ![c] = @ \cup {s}], s \notin holds[c]
      PROVE  Cardinality(Holders(s)') = Cardinality(Holders(s)) + 1
  <2>1. Holders(s)' = Holders(s) \cup {c} /\ c \notin Holders(s)
    BY <1>1 DEF Holders, AllocTypeOK
  <2> QED BY <2>1, Finite, FS_AddElement
<1>2. ASSUME holds' = [holds EXCEPT ![c] = @ \ {s}], s \in holds[c]
      PROVE  Cardinality(Holders(s)') = Cardinality(Holders(s)) - 1 /\ Cardinality(Holders(s)) > 0
  <2>1. Holders(s)' = Holders(s) \ {c} /\ c \in Holders(s)
    BY <1>2 DEF Holders, AllocTypeOK
  <2>2. Cardinality(Holders(s)') = Cardinality(Holders(s)) - 1
    BY <2>1, Finite, FS_RemoveElement
  <2>3. Cardinality(Holders(s)) # 0
    BY <2>1, Finite, FS_EmptySet
  <2> QED BY <2>2, <2>3, Finite
<1>3. ASSUME holds' = [holds EXCEPT ![c] = @ \cup {s}] \/ holds' = [holds EXCEPT ![c] = @ \ {s}], NEW t \in Samples \ {s}
      PROVE  Holders(t)' = Holders(t)
  BY <1>3, SMTT(20) DEF Holders, AllocTypeOK
<1> QED BY <1>1, <1>2, <1>3

\* GetBuffer takes the head of the free list, which nobody has.
LEMMA GetBufferSamples ==
  ASSUME AllocTypeOK, SamplesInv, NEW c \in Clients, GetBuffer(c)
  PROVE  SamplesInv'
<1>0. free \in Seq(Samples) /\ free # <<>> /\ Len(free) \in Nat /\ Len(free) > 0 /\ Head(free) \in Samples
  BY DEF GetBuffer, AllocTypeOK
<1> PICK s \in Samples : s = Head(free)
  BY <1>0
<1>1. /\ free # <<>> /\ Len(free) \in Nat /\ Len(free) > 0
      /\ s = free[1] /\ s \in Samples
      /\ free' = Tail(free) /\ Len(free') = Len(free) - 1
      /\ \A i \in 1 .. Len(free') : i + 1 \in 1 .. Len(free) /\ free'[i] = free[i + 1]
  BY <1>0 DEF GetBuffer
<1>2. /\ cRef' = [cRef EXCEPT ![s] = 1]
      /\ holds' = [holds EXCEPT ![c] = @ \cup {s}]
      /\ layout' = layout
  BY DEF GetBuffer
<1>3. cRef[s] = 0 /\ s <= layout.n /\ 1 \in 1 .. Len(free)
  BY <1>1 DEF SamplesInv
<1>4. s \notin holds[c]
  <2>1. Holders(s) = {}
    BY <1>1, <1>3, Finite, FS_EmptySet DEF SamplesInv
  <2> QED BY <2>1 DEF Holders
<1>5. cRef'[s] = 1 /\ \A t \in Samples : t # s => cRef'[t] = cRef[t]
  BY <1>1, <1>2 DEF AllocTypeOK
<1>6. \A t \in Samples : cRef'[t] = Cardinality(Holders(t)')
  <2>1. Cardinality(Holders(s)') = Cardinality(Holders(s)) + 1
    BY <1>2, <1>4, OneHolder, Zenon
  <2>2. \A t \in Samples \ {s} : Holders(t)' = Holders(t)
    BY <1>2, OneHolder, Zenon
  <2> QED BY <1>1, <1>3, <1>5, <2>1, <2>2 DEF SamplesInv
<1>7. \A i \in 1 .. Len(free') : free'[i] # s /\ free'[i] \in Samples
  BY <1>1 DEF SamplesInv, AllocTypeOK
<1>8. \A i, j \in 1 .. Len(free') : free'[i] = free'[j] => i = j
  <2> SUFFICES ASSUME NEW i \in 1 .. Len(free'), NEW j \in 1 .. Len(free'), free'[i] = free'[j] PROVE i = j
    OBVIOUS
  <2>1. i + 1 = j + 1
    BY <1>1 DEF SamplesInv
  <2> QED BY <1>1, <2>1
<1>9. \A i \in 1 .. Len(free') : free'[i] <= layout'.n /\ cRef'[free'[i]] = 0
  BY <1>1, <1>2, <1>5, <1>7 DEF SamplesInv
<1>10. \A t \in 1 .. layout'.n : cRef'[t] = 0 => \E i \in 1 .. Len(free') : free'[i] = t
  <2> SUFFICES ASSUME NEW t \in 1 .. layout.n, cRef'[t] = 0 PROVE \E i \in 1 .. Len(free') : free'[i] = t
    BY <1>2
  <2>0. t \in Samples
    BY BoundsAssumption DEF Samples, AllocTypeOK
  <2>1. t \in Samples /\ t # s /\ cRef[t] = 0
    BY <1>5, <2>0
  <2>2. PICK k \in 1 .. Len(free) : free[k] = t
    BY <2>1 DEF SamplesInv
  <2>3. k # 1 /\ k - 1 \in 1 .. Len(free')
    BY <1>1, <2>1, <2>2
  <2>4. free'[k - 1] = free[k]
    BY <1>1, <2>3
  <2> QED BY <2>2, <2>3, <2>4
<1>11. \A t \in Samples : cRef'[t] > 0 => t <= layout'.n
  BY <1>2, <1>3, <1>5 DEF SamplesInv
<1>12. Len(free') + Cardinality(Outstanding') = layout'.n
  <2>1. Outstanding' = Outstanding \cup {s} /\ s \notin Outstanding
    BY <1>1, <1>3, <1>5 DEF Outstanding, Samples
  <2>2. Cardinality(Outstanding') = Cardinality(Outstanding) + 1
    BY <2>1, Finite, FS_AddElement
  <2> QED BY <1>1, <1>2, <2>2, Finite DEF SamplesInv
<1> QED BY <1>6, <1>8, <1>9, <1>10, <1>11, <1>12 DEF SamplesInv

\* Another reference to a sample that is out.
LEMMA AddRefSamples ==
  ASSUME AllocTypeOK, SamplesInv, NEW c \in Clients, NEW s \in Samples, AddRef(c, s)
  PROVE  SamplesInv'
<1>1. /\ cRef' = [cRef EXCEPT ![s] = @ + 1] /\ holds' = [holds EXCEPT ![c] = @ \cup {s}]
      /\ free' = free /\ layout' = layout /\ cRef[s] > 0 /\ s \notin holds[c]
  BY DEF AddRef, Outstanding
<1>2. cRef'[s] = cRef[s] + 1 /\ (\A t \in Samples : t # s => cRef'[t] = cRef[t]) /\ cRef[s] \in Nat
  BY <1>1 DEF AllocTypeOK
<1>3. \A t \in Samples : cRef'[t] = Cardinality(Holders(t)')
  <2>1. Cardinality(Holders(s)') = Cardinality(Holders(s)) + 1
    BY <1>1, OneHolder, Zenon
  <2>2. \A t \in Samples \ {s} : Holders(t)' = Holders(t)
    BY <1>1, OneHolder, Zenon
  <2> QED BY <1>2, <2>1, <2>2 DEF SamplesInv
<1>4. Outstanding' = Outstanding
  BY <1>1, <1>2 DEF Outstanding
<1>5. \A i \in 1 .. Len(free) : free[i] # s /\ free[i] \in Samples
  BY <1>1 DEF SamplesInv, AllocTypeOK
<1>6. \A t \in 1 .. layout.n : t \in Samples
  BY BoundsAssumption DEF AllocTypeOK, Samples
<1> QED BY <1>1, <1>2, <1>3, <1>4, <1>5, <1>6 DEF SamplesInv

\* A reference is dropped; with the last one the sample goes back to the head of the free list.
LEMMA ReleaseSamples ==
  ASSUME AllocTypeOK, SamplesInv, NEW c \in Clients, NEW s \in Samples, Release(c, s)
  PROVE  SamplesInv'
<1>1. /\ cRef' = [cRef EXCEPT ![s] = @ - 1] /\ holds' = [holds EXCEPT ![c] = @ \ {s}]
      /\ layout' = layout /\ s \in holds[c]
      /\ IF cRef[s] = 1 THEN free' = <<s>> \o free ELSE free' = free
  BY DEF Release, ReleaseBuffer
<1>2. /\ cRef'[s] = cRef[s] - 1 /\ (\A t \in Samples : t # s => cRef'[t] = cRef[t]) /\ cRef[s] \in Nat
      /\ s \in Nat /\ free \in Seq(Samples) /\ Len(free) \in Nat /\ layout.n \in Nat
  BY <1>1, BoundsAssumption DEF AllocTypeOK, Samples
<1>3. /\ Cardinality(Holders(s)') = Cardinality(Holders(s)) - 1 /\ Cardinality(Holders(s)) > 0
      /\ \A t \in Samples \ {s} : Holders(t)' = Holders(t)
  BY <1>1, OneHolder, Zenon
<1>4. cRef[s] > 0 /\ s <= layout.n /\ \A t \in Samples : cRef'[t] = Cardinality(Holders(t)')
  BY <1>2, <1>3 DEF SamplesInv
<1>5. \A i \in 1 .. Len(free) : free[i] # s /\ free[i] \in Samples
  BY <1>2, <1>4 DEF SamplesInv
<1>6. \A t \in 1 .. layout.n : t \in Samples
  BY BoundsAssumption DEF AllocTypeOK, Samples
<1>7. CASE cRef[s] # 1
  <2>1. Outstanding' = Outstanding
    BY <1>1, <1>2, <1>4, <1>7 DEF Outstanding, Samples
  <2> QED BY <1>1, <1>2, <1>3, <1>4, <1>5, <1>6, <1>7, <2>1 DEF SamplesInv
<1>8. CASE cRef[s] = 1
  <2>1. /\ free' = <<s>> \o free /\ Len(free') = Len(free) + 1 /\ free'[1] = s
        /\ \A i \in 2 .. Len(free') : i - 1 \in 1 .. Len(free) /\ free'[i] = free[i - 1]
    BY <1>1, <1>2, <1>8
  <2>2. Outstanding' = Outstanding \ {s} /\ s \in Outstanding
    BY <1>1, <1>2, <1>8 DEF Outstanding, Samples
  <2>3. Len(free') + Cardinality(Outstanding') = layout'.n
    <3>1. Cardinality(Outstanding') = Cardinality(Outstanding) - 1
      BY <2>2, Finite, FS_RemoveElement
    <3> QED BY <1>1, <1>2, <2>1, <3>1, Finite DEF SamplesInv
  <2>4. \A i, j \in 1 .. Len(free') : free'[i] = free'[j] => i = j
    <3> SUFFICES ASSUME NEW i \in 1 .. Len(free'), NEW j \in 1 .. Len(free'), free'[i] = free'[j] PROVE i = j
      OBVIOUS
    <3>1. CASE i = 1 \/ j = 1
      BY <1>2, <1>5, <2>1, <3>1
    <3>2. CASE i # 1 /\ j # 1
      <4>1. i \in 2 .. Len(free') /\ j \in 2 .. Len(free')
        BY <1>2, <2>1, <3>2
      <4>2. i - 1 = j - 1
        BY <2>1, <4>1, SMTT(20) DEF SamplesInv
      <4> QED BY <1>2, <2>1, <4>1, <4>2
    <3> QED BY <3>1, <3>2
  <2>5. \A i \in 1 .. Len(free') : free'[i] <= layout'.n /\ cRef'[free'[i]] = 0
    <3> SUFFICES ASSUME NEW i \in 1 .. Len(free') PROVE free'[i] <= layout'.n /\ cRef'[free'[i]] = 0
      OBVIOUS
    <3>1. CASE i = 1
      BY <1>1, <1>2, <1>4, <1>8, <2>1, <3>1
    <3>2. CASE i # 1
      <4>1. i \in 2 .. Len(free')
        BY <1>2, <2>1, <3>2
      <4> QED BY <1>1, <1>2, <1>5, <2>1, <4>1 DEF SamplesInv
    <3> QED BY <3>1, <3>2
  <2>6. \A t \in 1 .. layout'.n : cRef'[t] = 0 => \E i \in 1 .. Len(free') : free'[i] = t
    <3> SUFFICES ASSUME NEW t \in 1 .. layout.n, cRef'[t] = 0 PROVE \E i \in 1 .. Len(free') : free'[i] = t
      BY <1>1
    <3>1. CASE t = s
      BY <1>2, <2>1, <3>1
    <3>2. CASE t # s
      <4>1. PICK k \in 1 .. Len(free) : free[k] = t
        BY <1>2, <1>6, <3>2 DEF SamplesInv
      <4>2. k + 1 \in 2 .. Len(free') /\ k + 1 \in 1 .. Len(free')
        BY <1>2, <2>1
      <4>3. free'[k + 1] = free[k]
        BY <1>2, <2>1, <4>2
      <4> QED BY <4>1, <4>2, <4>3
    <3> QED BY <3>1, <3>2
  <2>7. \A t \in Samples : cRef'[t] > 0 => t <= layout'.n
    BY <1>1, <1>2, <1>4 DEF SamplesInv
  <2> QED BY <1>4, <2>3, <2>4, <2>5, <2>6, <2>7 DEF SamplesInv
<1> QED BY <1>7, <1>8

\* The whole of it.
LEMMA SamplesKeep ==
  ASSUME AllocTypeOK, SamplesInv, LifeInv, [AllocNext]_allocVars
  PROVE  SamplesInv'
<1>1. CASE UNCHANGED allocVars
  BY <1>1 DEF SamplesInv, Outstanding, Holders
<1>2. ASSUME NEW c \in Clients, Client(c), ~GetBuffer(c) PROVE SamplesInv'
  <2>1. UNCHANGED <<free, layout, cRef, holds>>
    BY <1>2 DEF Client, GetBufferNotCommitted, GetBufferEmpty, GetBufferNoWait, GetBufferWakes
  <2> QED BY <2>1 DEF SamplesInv, Outstanding, Holders
<1> QED BY <1>1, <1>2, ControlSamples, GetBufferSamples, AddRefSamples, ReleaseSamples DEF AllocNext, Client

-----------------------------------------------------------------------------
(* The life of the allocator.                                              *)

\* Commit takes the reference, the end of the decommit gives it up: when the last buffer is back, if any is out.
LEMMA ControlLife ==
  ASSUME AllocTypeOK, SamplesInv, LifeInv, PoolControl
  PROVE  LifeInv'
<1>1. Outstanding' = Outstanding
  BY DEF PoolControl, SetProperties, CommitAllocates, CommitFails, CommitCancels, Decommit, ReleaseAllocator, Outstanding
<1>2. Len(free) <= layout.n /\ (Len(free) >= layout.n <=> Outstanding = {}) /\ Len(free) \in Nat /\ layout.n \in Nat
  BY AllBackMeansNoneOut, BoundsAssumption DEF AllocTypeOK
<1>3. CASE SetProperties \/ CommitFails
  BY <1>1, <1>3 DEF SetProperties, CommitFails, LifeInv, AliveWhileNeeded
<1>4. CASE CommitAllocates
  BY <1>1, <1>4 DEF CommitAllocates, LifeInv, AliveWhileNeeded, AllocTypeOK
<1>5. CASE CommitCancels
  BY <1>1, <1>5 DEF CommitCancels, LifeInv, AliveWhileNeeded, AllocTypeOK
<1>6. CASE Decommit
  BY <1>1, <1>2, <1>6 DEF Decommit, LifeInv, AliveWhileNeeded, AllocTypeOK
<1>7. CASE ReleaseAllocator
  BY <1>1, <1>7 DEF ReleaseAllocator, LifeInv, AliveWhileNeeded, AllocTypeOK
<1> QED BY <1>3, <1>4, <1>5, <1>6, <1>7 DEF PoolControl

\* A client gets a sample of a committed pool only.
LEMMA ClientLife ==
  ASSUME AllocTypeOK, LifeInv, NEW c \in Clients, Client(c)
  PROVE  LifeInv'
<1>1. UNCHANGED <<committed, inProgress, layout, selfRefs, releasing>>
  BY DEF Client, GetBuffer, GetBufferNotCommitted, GetBufferEmpty, GetBufferNoWait, GetBufferWakes
<1>2. CASE GetBuffer(c)
  BY <1>1, <1>2 DEF GetBuffer, LifeInv, AliveWhileNeeded
<1>3. CASE ~GetBuffer(c)
  <2>1. cRef' = cRef /\ free' = free
    BY <1>3 DEF Client, GetBufferNotCommitted, GetBufferEmpty, GetBufferNoWait, GetBufferWakes
  <2> QED BY <1>1, <2>1 DEF LifeInv, AliveWhileNeeded, Outstanding
<1> QED BY <1>2, <1>3

\* The last buffer back of a pool being decommitted passes the reference on to the thread that releases it.
LEMMA SampleLife ==
  ASSUME AllocTypeOK, SamplesInv, SamplesInv', AllocTypeOK', LifeInv, NEW c \in Clients, NEW s \in Samples,
         AddRef(c, s) \/ Release(c, s)
  PROVE  LifeInv'
<1>1. committed' = committed /\ selfRefs' = selfRefs /\ layout' = layout
  BY DEF AddRef, Release
<1>2. Outstanding # {}
  <2>1. CASE AddRef(c, s)
    BY <2>1 DEF AddRef
  <2>2. CASE Release(c, s)
    <3>1. cRef[s] > 0
      <4>1. Cardinality(Holders(s)) # 0
        <5>1. c \in Holders(s)
          BY <2>2 DEF Release, Holders
        <5> QED BY <5>1, Finite, FS_EmptySet
      <4> QED BY <4>1, Finite DEF SamplesInv
    <3> QED BY <3>1 DEF Outstanding
  <2> QED BY <2>1, <2>2
<1>3. committed \/ inProgress
  BY <1>2 DEF LifeInv, AliveWhileNeeded
<1>4. Len(free') <= layout.n /\ Len(free') \in Nat /\ layout.n \in Nat /\ (Len(free') >= layout.n <=> Outstanding' = {})
  <2>1. Len(free') + Cardinality(Outstanding') = layout.n /\ Len(free') \in Nat /\ layout.n \in Nat
    BY <1>1, BoundsAssumption DEF SamplesInv, AllocTypeOK
  <2>2. Cardinality(Outstanding') = 0 <=> Outstanding' = {}
    BY FinitePrimed, FS_EmptySet
  <2> QED BY <2>1, <2>2, FinitePrimed
<1>5. CASE UNCHANGED <<inProgress, releasing, free>>
  BY <1>1, <1>3, <1>5 DEF LifeInv, AliveWhileNeeded
<1>6. CASE ~UNCHANGED <<inProgress, releasing, free>>
  <2>1. IF inProgress /\ Len(free') = layout.n THEN inProgress' = FALSE /\ releasing' = releasing + 1
                                               ELSE UNCHANGED <<inProgress, releasing>>
    BY <1>6 DEF AddRef, Release, ReleaseBuffer
  <2>2. CASE inProgress /\ Len(free') = layout.n
    <3>1. ~committed /\ selfRefs = releasing + 1 /\ releasing \in Nat
      BY <2>2 DEF LifeInv, AliveWhileNeeded, AllocTypeOK
    <3> QED BY <1>1, <1>4, <2>1, <2>2, <3>1 DEF LifeInv, AliveWhileNeeded
  <2>3. CASE ~(inProgress /\ Len(free') = layout.n)
    BY <1>1, <1>3, <1>4, <2>1, <2>3 DEF LifeInv, AliveWhileNeeded
  <2> QED BY <2>2, <2>3
<1> QED BY <1>5, <1>6

-----------------------------------------------------------------------------
(* Sizes.                                                                  *)

\* A LONG stays one; two of them that are not negative add up or come out negative.
LEMMA WrapIsLong == \A n \in Int : Wrap(n) \in Longs
BY BoundsAssumption DEF Wrap, Longs

LEMMA WrapOfSum ==
  ASSUME NEW a \in 0 .. LongMax, NEW b \in 0 .. LongMax, Wrap(a + b) >= a
  PROVE  Wrap(a + b) = a + b
<1> DEFINE m == 2 * (LongMax + 1)
<1>1. a + b + LongMax + 1 \in Nat /\ m \in Nat /\ a + b + LongMax + 1 < 2 * m
  BY BoundsAssumption
<1>2. CASE a + b <= LongMax
  BY <1>1, <1>2, BoundsAssumption DEF Wrap
<1>3. CASE a + b > LongMax
  <2>1. (a + b + LongMax + 1) % m = a + b + LongMax + 1 - m
    BY <1>1, <1>3, BoundsAssumption
  <2>2. Wrap(a + b) = a + b - m
    BY <2>1, BoundsAssumption DEF Wrap
  <2> QED BY <2>2, BoundsAssumption
<1> QED BY <1>2, <1>3, BoundsAssumption

\* The stride is an integer whatever the sizes.
LEMMA RoundUpType == ASSUME NEW n \in Int, NEW a \in Nat \ {0} PROVE RoundUp(n, a) \in Int
<1>1. Remainder(n, a) \in Int
  BY DEF Remainder
<1> QED BY <1>1, WrapIsLong DEF RoundUp, Longs

\* What SetProperties keeps of a request are LONGs.
LEMMA RoundedType ==
  ASSUME NEW r \in Requests
  PROVE  /\ Rounded(r) \in [count : Int, size : Longs, prefix : Longs, align : Nat \ {0}]
         /\ Rounded(r).count <= MaxBuffers
<1>1. /\ r \in [count : Longs, size : Longs, prefix : Longs, align : Nat \ {0}]
      /\ r.count <= MaxBuffers
  BY RequestsAssumption, BoundsAssumption DEF Longs
<1>2. r.count \in Int /\ r.size \in Int /\ r.prefix \in Int
  BY <1>1, BoundsAssumption DEF Longs
<1>3. Wrap(r.size + r.prefix) \in Int
  BY <1>2, WrapIsLong, BoundsAssumption DEF Longs
<1>4. RoundUp(Wrap(r.size + r.prefix), r.align) \in Int
  BY <1>1, <1>3, RoundUpType
<1>5. Wrap(RoundUp(Wrap(r.size + r.prefix), r.align) - r.prefix) \in Longs
  BY <1>2, <1>4, WrapIsLong
<1> QED BY <1>1, <1>2, <1>5 DEF Rounded

\* The block holds the buffers, each with its prefix, whenever Alloc finds the sizes good.
LEMMA LayoutFits ==
  ASSUME AllocTypeOK, NEW n \in 0 .. props.count, AllocNew(n)
  PROVE  /\ layout' \in Layouts
         /\ BuffersFit'
<1> DEFINE sum == Wrap(props.size + props.prefix)
           stride == RoundUp(sum, props.align)
<1>1. /\ props.count \in Nat /\ props.count <= MaxBuffers
      /\ props.size \in 0 .. LongMax /\ props.size > 0 /\ props.prefix \in 0 .. LongMax
      /\ sum >= props.size /\ stride >= sum /\ props.count * stride <= LongMax
      /\ n \in Nat /\ n <= props.count
      /\ layout' = LayoutOf(props, n)
  BY BoundsAssumption DEF AllocNew, SizesSet, Allocatable, AllocTypeOK, Longs
<1>2. sum = props.size + props.prefix
  BY <1>1, WrapOfSum
<1>3. stride \in Nat
  <2>1. sum \in Nat /\ props.align \in Nat \ {0}
    BY <1>1, <1>2 DEF AllocNew, SizesSet, AllocTypeOK
  <2>2. stride \in Int
    BY <2>1, RoundUpType
  <2> HIDE DEF sum, stride
  <2> QED BY <1>1, <2>1, <2>2
<1>4. layout' = [n |-> n, stride |-> stride, prefix |-> props.prefix, size |-> props.size, block |-> props.count * stride]
  BY <1>1 DEF LayoutOf
<1> HIDE DEF sum, stride
<1>5. n * stride <= props.count * stride /\ props.count * stride \in Int
  BY <1>1, <1>3
<1>6. layout' \in Layouts
  BY <1>1, <1>3, <1>4, <1>5, BoundsAssumption
<1>7. BuffersFit'
  BY <1>1, <1>2, <1>3, <1>4, <1>5 DEF BuffersFit
<1> QED BY <1>6, <1>7

\* Nothing but Alloc lays memory out.
LEMMA FitKeeps ==
  ASSUME AllocTypeOK, BuffersFit, [AllocNext]_allocVars
  PROVE  /\ layout' \in Layouts
         /\ BuffersFit'
<1>1. CASE layout' = layout
  BY <1>1 DEF BuffersFit, AllocTypeOK
<1>2. CASE layout' = NoLayout
  BY <1>2, BoundsAssumption DEF BuffersFit, NoLayout
<1>3. ASSUME NEW n \in 0 .. props.count, AllocNew(n)
      PROVE  /\ layout' \in Layouts
             /\ BuffersFit'
  BY <1>3, LayoutFits
<1>4. \/ layout' = layout \/ layout' = NoLayout
      \/ \E n \in 0 .. props.count : AllocNew(n)
  <2>1. CASE CommitAllocates
    <3>1. AllocNew(props.count) => props.count \in 0 .. props.count
      BY DEF AllocNew, SizesSet, AllocTypeOK
    <3> QED BY <2>1, <3>1 DEF CommitAllocates, AllocSame
  <2>2. CASE CommitFails
    <3>1. 0 .. props.count - 1 \subseteq 0 .. props.count
      BY DEF AllocTypeOK
    <3> QED BY <2>2, <3>1 DEF CommitFails, AllocRefused
  <2>3. CASE ~CommitAllocates /\ ~CommitFails
    BY <2>3 DEF AllocNext, PoolControl, SetProperties, CommitCancels, Decommit, ReleaseAllocator,
       Client, GetBuffer, GetBufferNotCommitted, GetBufferEmpty, GetBufferNoWait, GetBufferWakes, AddRef, Release
  <2> QED BY <2>1, <2>2, <2>3
<1> QED BY <1>1, <1>2, <1>3, <1>4

-----------------------------------------------------------------------------
(* Types, and the invariant of every step.                                 *)

\* The control of the pool sets the flags, the requirements and the counts.
LEMMA ControlTypes ==
  ASSUME AllocTypeOK, SamplesInv, LifeInv, PoolControl,
         layout' \in Layouts
  PROVE  AllocTypeOK'
<1>1. CASE SetProperties
  <2>1. props' \in [count : Int, size : Longs, prefix : Longs, align : Nat] /\ props'.count <= MaxBuffers
    BY <1>1, RoundedType DEF SetProperties
  <2> QED BY <1>1, <2>1 DEF SetProperties, AllocTypeOK
<1>2. CASE CommitAllocates \/ CommitFails
  <2>1. /\ UNCHANGED <<props, inProgress, waiting, sem, cRef, holds, gpc, releasing>>
        /\ committed' \in BOOLEAN /\ selfRefs' \in Nat
    <3>1. CASE CommitAllocates
      BY <3>1 DEF CommitAllocates, AllocTypeOK
    <3>2. CASE CommitFails
      BY <3>2 DEF CommitFails, AllocTypeOK
    <3> QED BY <1>2, <3>1, <3>2
  <2>2. changed' \in BOOLEAN
    <3>1. changed' = changed \/ \E n \in 0 .. props.count : changed' = (n < props.count)
      <4>1. ASSUME NEW n, AllocNew(n) PROVE n \in 0 .. props.count /\ changed' = (n < props.count)
        BY <4>1 DEF AllocNew
      <4>2. AllocSame \/ AllocRefused => changed' = changed
        BY DEF AllocSame, AllocRefused
      <4>3. AllocSame \/ AllocRefused \/ \E n : AllocNew(n)
        BY <1>2 DEF CommitAllocates, CommitFails
      <4> QED BY <4>1, <4>2, <4>3
    <3>2. changed \in BOOLEAN
      BY DEF AllocTypeOK
    <3>3. \A n : (n < props.count) \in BOOLEAN
      OBVIOUS
    <3> QED BY <3>1, <3>2, <3>3
  <2>3. free' \in Seq(Samples)
    <3>1. ASSUME NEW n \in Nat, n <= MaxBuffers, AllocNew(n) PROVE free' \in Seq(Samples)
      <4>1. free' = [i \in 1 .. n |-> n + 1 - i]
        BY <3>1 DEF AllocNew
      <4>2. \A i \in 1 .. n : n + 1 - i \in Samples
        BY <3>1, BoundsAssumption DEF Samples
      <4> QED BY <4>1, <4>2
    <3>2. AllocNew(props.count) => props.count \in Nat /\ props.count <= MaxBuffers
      BY DEF AllocNew, SizesSet, AllocTypeOK
    <3>3. \A n \in 0 .. props.count - 1 : n \in Nat /\ n <= MaxBuffers
      BY BoundsAssumption, SMTT(20) DEF AllocTypeOK
    <3>4. free' = free \/ free' = <<>> \/ AllocNew(props.count) \/ \E n \in 0 .. props.count - 1 : AllocNew(n)
      BY <1>2 DEF CommitAllocates, CommitFails, AllocSame, AllocRefused
    <3>5. AllocNew(props.count) => free' \in Seq(Samples)
      BY <3>1, <3>2
    <3>6. \A n \in 0 .. props.count - 1 : AllocNew(n) => free' \in Seq(Samples)
      BY <3>1, <3>3
    <3>7. free \in Seq(Samples) /\ <<>> \in Seq(Samples)
      BY DEF AllocTypeOK
    <3> QED BY <3>4, <3>5, <3>6, <3>7
  <2> QED BY <2>1, <2>2, <2>3 DEF AllocTypeOK
<1>3. CASE CommitCancels
  BY <1>3 DEF CommitCancels, AllocTypeOK
<1>4. CASE Decommit
  <2>1. /\ UNCHANGED <<props, changed, layout, free, cRef, holds, gpc, selfRefs>>
        /\ committed' = FALSE /\ inProgress' = (Len(free) < layout.n)
    BY <1>4 DEF Decommit
  <2>2. committed' \in BOOLEAN /\ inProgress' \in BOOLEAN
    <3>1. (Len(free) < layout.n) \in BOOLEAN
      BY BoundsAssumption DEF AllocTypeOK
    <3>2. inProgress' \in BOOLEAN
      BY <2>1, <3>1, Zenon
    <3> QED BY <2>1, <3>2, Zenon
  <2>3. sem' \in Nat /\ waiting' \in Nat /\ releasing' \in Nat
    BY <1>4 DEF Decommit, NotifySample, AllocTypeOK
  <2> QED BY <2>1, <2>2, <2>3 DEF AllocTypeOK
<1>5. CASE ReleaseAllocator
  BY <1>5 DEF ReleaseAllocator, AllocTypeOK, LifeInv, AliveWhileNeeded
<1> QED BY <1>1, <1>2, <1>3, <1>4, <1>5 DEF PoolControl

\* The clients move samples and references about.
LEMMA ClientTypes ==
  ASSUME AllocTypeOK, SamplesInv, NEW c \in Clients, Client(c) \/ \E s \in Samples : AddRef(c, s) \/ Release(c, s)
  PROVE  AllocTypeOK'
<1>1. CASE GetBuffer(c)
  <2>1. Head(free) \in Samples /\ Tail(free) \in Seq(Samples)
    BY <1>1 DEF GetBuffer, AllocTypeOK
  <2>2. cRef' \in [Samples -> Nat] /\ holds' \in [Clients -> SUBSET Samples]
    BY <1>1, <2>1 DEF GetBuffer, AllocTypeOK
  <2> QED BY <1>1, <2>1, <2>2 DEF GetBuffer, AllocTypeOK
<1>2. CASE GetBufferNotCommitted(c)
  BY <1>2 DEF GetBufferNotCommitted, AllocTypeOK
<1>3. CASE GetBufferEmpty(c)
  BY <1>3 DEF GetBufferEmpty, AllocTypeOK
<1>4. CASE GetBufferNoWait(c)
  BY <1>4 DEF GetBufferNoWait, AllocTypeOK
<1>5. CASE GetBufferWakes(c)
  BY <1>5 DEF GetBufferWakes, AllocTypeOK
<1>6. ASSUME NEW s \in Samples, AddRef(c, s) PROVE AllocTypeOK'
  BY <1>6 DEF AddRef, AllocTypeOK
<1>7. ASSUME NEW s \in Samples, Release(c, s) PROVE AllocTypeOK'
  <2>1. cRef[s] # 0
    <3>1. c \in Holders(s)
      BY <1>7 DEF Release, Holders
    <3> QED BY <3>1, Finite, FS_EmptySet DEF SamplesInv
  <2>2. cRef' \in [Samples -> Nat] /\ holds' \in [Clients -> SUBSET Samples]
    BY <1>7, <2>1 DEF Release, AllocTypeOK
  <2>3. /\ free' \in Seq(Samples) /\ sem' \in Nat /\ waiting' \in Nat
        /\ inProgress' \in BOOLEAN /\ releasing' \in Nat
    <3>1. CASE cRef[s] = 1
      <4>1. ReleaseBuffer(s)
        BY <1>7, <3>1 DEF Release
      <4>2. free' = <<s>> \o free /\ free \in Seq(Samples)
        BY <4>1 DEF ReleaseBuffer, AllocTypeOK
      <4>3. sem' \in Nat /\ waiting' \in Nat
        BY <4>1 DEF ReleaseBuffer, NotifySample, AllocTypeOK
      <4>4. inProgress' \in BOOLEAN /\ releasing' \in Nat
        <5>1. inProgress \in BOOLEAN /\ releasing \in Nat
          BY DEF AllocTypeOK
        <5>2. CASE inProgress /\ Len(free') = layout.n
          <6>1. inProgress' = FALSE /\ releasing' = releasing + 1
            BY <4>1, <5>2 DEF ReleaseBuffer
          <6>2. inProgress' \in BOOLEAN
            BY <6>1, Zenon
          <6> QED BY <5>1, <6>1, <6>2
        <5>3. CASE ~(inProgress /\ Len(free') = layout.n)
          BY <4>1, <5>1, <5>3 DEF ReleaseBuffer
        <5> QED BY <5>2, <5>3
      <4>5. free' \in Seq(Samples)
        BY <4>2
      <4> QED BY <4>3, <4>4, <4>5
    <3>2. CASE cRef[s] # 1
      BY <1>7, <3>2 DEF Release, AllocTypeOK
    <3> QED BY <3>1, <3>2
  <2> QED BY <1>7, <2>2, <2>3 DEF Release, AllocTypeOK
<1> QED BY <1>1, <1>2, <1>3, <1>4, <1>5, <1>6, <1>7 DEF Client

\* Initially there is nothing.
LEMMA AllocStart == AllocInit => AllocInv
<1> SUFFICES ASSUME AllocInit PROVE AllocInv
  OBVIOUS
<1>1. Outstanding = {} /\ Sleepers = {} /\ \A s : Holders(s) = {}
  BY DEF AllocInit, Outstanding, Sleepers, Holders
<1>2. AllocTypeOK
  <2>1. props \in [count : Int, size : Longs, prefix : Longs, align : Nat] /\ props.count <= MaxBuffers
    BY BoundsAssumption DEF AllocInit, Longs
  <2>2. layout \in Layouts
    BY BoundsAssumption DEF AllocInit, NoLayout
  <2>3. free \in Seq(Samples) /\ cRef \in [Samples -> Nat] /\ holds \in [Clients -> SUBSET Samples]
    BY DEF AllocInit
  <2> QED BY <2>1, <2>2, <2>3 DEF AllocInit, AllocTypeOK
<1>3. SamplesInv
  <2>1. \A s \in Samples : cRef[s] = 0 /\ cRef[s] = Cardinality(Holders(s))
    BY <1>1, FS_EmptySet DEF AllocInit
  <2>2. Len(free) = 0 /\ layout.n = 0 /\ Cardinality(Outstanding) = 0
    BY <1>1, FS_EmptySet DEF AllocInit, NoLayout
  <2> QED BY <2>1, <2>2 DEF SamplesInv
<1>4. WaitInv
  BY <1>1, FS_EmptySet DEF AllocInit, WaitInv
<1>5. LifeInv
  BY <1>1 DEF AllocInit, LifeInv, AliveWhileNeeded
<1>6. BuffersFit
  BY DEF AllocInit, BuffersFit, NoLayout
<1> QED BY <1>2, <1>3, <1>4, <1>5, <1>6 DEF AllocInv

\* Every step keeps the invariant.
LEMMA AllocStepKeeps == AllocInv /\ [AllocNext]_allocVars => AllocInv'
<1> SUFFICES ASSUME AllocInv, [AllocNext]_allocVars PROVE AllocInv'
  OBVIOUS
<1>1. AllocTypeOK /\ SamplesInv /\ WaitInv /\ LifeInv /\ BuffersFit
  BY DEF AllocInv
<1>2. /\ layout' \in Layouts
      /\ BuffersFit' /\ WaitInv' /\ SamplesInv'
  BY <1>1, FitKeeps, WaitKeeps, SamplesKeep
<1>3. AllocTypeOK'
  <2>1. CASE UNCHANGED allocVars
    BY <1>1, <2>1 DEF AllocTypeOK
  <2> QED BY <1>1, <1>2, <2>1, ControlTypes, ClientTypes DEF AllocNext
<1>4. LifeInv'
  <2>1. CASE UNCHANGED allocVars
    BY <1>1, <2>1 DEF LifeInv, AliveWhileNeeded, Outstanding
  <2> QED BY <1>1, <1>2, <1>3, <2>1, ControlLife, ClientLife, SampleLife DEF AllocNext
<1> QED BY <1>2, <1>3, <1>4 DEF AllocInv

LEMMA AllocInvariant == AllocSpec => []AllocInv
BY AllocStart, AllocStepKeeps, PTL DEF AllocSpec

LEMMA InvIsSafe == AllocInv => AllocatorSafe
<1>1. AllocInv => NoSleeperForgotten
  BY Finite DEF AllocInv, WaitInv, NoSleeperForgotten, AllocTypeOK
<1> QED BY <1>1 DEF AllocInv, LifeInv, AllocatorSafe

LEMMA InvConserves == AllocInv => SamplesConserved
<1>1. ASSUME AllocTypeOK, SamplesInv PROVE SamplesConserved
  <2>1. layout.n \in Nat /\ layout.n <= MaxBuffers /\ free \in Seq(Samples)
    BY <1>1, BoundsAssumption DEF AllocTypeOK
  <2>2. ToSet(free) = {free[i] : i \in 1 .. Len(free)}
    BY <2>1 DEF ToSet
  <2>3. ASSUME NEW s PROVE s \in ToSet(free) \cup Outstanding <=> s \in 1 .. layout.n
    <3>1. s \in ToSet(free) => s \in 1 .. layout.n
      BY <1>1, <2>1, <2>2, BoundsAssumption DEF SamplesInv, Samples
    <3>2. s \in Outstanding => s \in 1 .. layout.n
      BY <1>1, <2>1, BoundsAssumption DEF SamplesInv, Outstanding, Samples
    <3>3. s \in 1 .. layout.n /\ s \notin Outstanding => s \in ToSet(free)
      <4>1. s \in 1 .. layout.n => s \in Samples
        BY <2>1, BoundsAssumption DEF Samples
      <4>2. s \in Samples /\ s \notin Outstanding => cRef[s] = 0
        BY <1>1 DEF Outstanding, AllocTypeOK
      <4> QED BY <1>1, <2>2, <4>1, <4>2 DEF SamplesInv
    <3> QED BY <3>1, <3>2, <3>3
  <2> QED BY <1>1, <2>3 DEF SamplesInv, SamplesConserved, Holders
<1> QED BY <1>1 DEF AllocInv

(***************************************************************************)
(* CMemAllocator: nobody sleeps in GetBuffer while a buffer is free or the *)
(* pool decommitted, the object lives while its samples do, and no buffer  *)
(* reaches into another or out of the block.                               *)
(***************************************************************************)
THEOREM AllocatorIsSafe == AllocSpec => []AllocatorSafe
BY InvIsSafe, AllocInvariant, PTL

(***************************************************************************)
(* Every sample that exists is free or held, once: what Decommit and       *)
(* ReleaseBuffer conclude from two counts is true of the samples.          *)
(***************************************************************************)
THEOREM NoSampleLost == AllocSpec => []SamplesConserved
BY InvConserves, AllocInvariant, PTL
=============================================================================
