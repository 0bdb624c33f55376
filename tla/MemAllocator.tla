---------------------------- MODULE MemAllocator ----------------------------
(***************************************************************************)
(* CBaseAllocator and CMemAllocator (libmonodshow/src/amfilter.cpp), with  *)
(* the reference counting of CMediaSample: a pool of buffers handed out by *)
(* GetBuffer and put back by the last Release of each sample.              *)
(*                                                                         *)
(* Clients are the threads that hold samples.  Everything but the wait for *)
(* the semaphore and the final Release of the allocator runs under the     *)
(* lock of the allocator.  CMemAllocatorEx differs only in the class of    *)
(* the samples it creates (see MediaSample).                               *)
(***************************************************************************)
EXTENDS Integers, Sequences, FiniteSets, SequencesExt

CONSTANTS
  Clients,     \* the threads and components that may hold samples
  MaxBuffers,  \* the largest count asked for
  Requests,    \* the ALLOCATOR_PROPERTIES asked for, [count, size, prefix, align]
  LongMax,     \* MAXLONG, scaled down
  MaxSem,      \* bound on the count of the semaphore and of m_lWaiting
  MaxReleasing \* bound on the threads about to release the allocator

Longs == -LongMax - 1 .. LongMax

ASSUME BoundsAssumption == MaxBuffers \in Nat /\ LongMax \in Nat
ASSUME ClientsAssumption == IsFiniteSet(Clients)

(* LONGs, of which SetProperties checks the alignment only.                *)
ASSUME RequestsAssumption ==
  /\ Requests \subseteq [count : Longs, size : Longs, prefix : Longs,
                         align : 1 .. LongMax]
  /\ \A r \in Requests : r.count <= MaxBuffers

VARIABLES
  props,       \* m_lCount, m_lSize, m_lPrefix, m_lAlignment
  changed,     \* m_bChanged
  committed,   \* m_bCommitted
  inProgress,  \* m_bDecommitInProgress
  layout,      \* m_lAllocated and how the block of memory is divided
  free,        \* m_lFree, a stack
  waiting,     \* m_lWaiting
  sem,         \* the count of m_hSem
  cRef,        \* m_cRef of each sample
  holds,       \* the samples each client has a reference to
  gpc,         \* where each client is in GetBuffer
  selfRefs,    \* references the allocator holds on itself
  releasing    \* threads between the unlock and the Release() of the allocator

poolVars == <<props, changed, committed, inProgress, layout>>
semVars == <<waiting, sem>>
sampleVars == <<cRef, holds>>
lifeVars == <<selfRefs, releasing>>
allocVars == <<poolVars, free, semVars, sampleVars, gpc, lifeVars>>

Samples == 1 .. MaxBuffers
NoLayout == [n |-> 0, stride |-> 0, prefix |-> 0, size |-> 0, block |-> 0]

Outstanding == {s \in Samples : cRef[s] > 0}
Sleepers == {c \in Clients : gpc[c] = "sleeping"}

AllocInit ==
  /\ props = [count |-> 0, size |-> 0, prefix |-> 0, align |-> 0]
  /\ changed = FALSE /\ committed = FALSE /\ inProgress = FALSE
  /\ layout = NoLayout
  /\ free = <<>>
  /\ waiting = 0 /\ sem = 0
  /\ cRef = [s \in Samples |-> 0]
  /\ holds = [c \in Clients |-> {}]
  /\ gpc = [c \in Clients |-> "idle"]
  /\ selfRefs = 0 /\ releasing = 0

-----------------------------------------------------------------------------
(* Sizes.  A LONG wraps: the sum of two of them may come out negative.     *)

Wrap(n) == ((n + LongMax + 1) % (2 * (LongMax + 1))) - LongMax - 1

(* The remainder of C: its sign is that of the dividend.                   *)
Remainder(n, d) == IF n < 0 THEN -((-n) % d) ELSE n % d

RoundUp(n, align) ==
  IF Remainder(n, align) = 0 THEN n
  ELSE Wrap(n - Remainder(n, align) + align)

(* What SetProperties makes of a request: the length, prefix included, is  *)
(* rounded up to the alignment.                                            *)
Rounded(r) ==
  [r EXCEPT !.size = Wrap(RoundUp(Wrap(r.size + r.prefix), r.align) - r.prefix)]

(* Faulty variant: the aligned size may have wrapped.                      *)
AllocatableUnchecked(p) ==
  /\ p.size >= 0 /\ p.prefix >= 0 /\ p.count >= 0
  /\ p.count * RoundUp(Wrap(p.size + p.prefix), p.align) <= LongMax

(* The overflow checks of Alloc.                                           *)
Allocatable(p) ==
  LET sum == Wrap(p.size + p.prefix)
      stride == RoundUp(sum, p.align)
  IN /\ p.size >= 0 /\ p.prefix >= 0 /\ p.count >= 0
     /\ sum >= p.size
     /\ stride >= sum
     /\ p.count * stride <= LongMax

LayoutOf(p, n) ==
  LET stride == RoundUp(Wrap(p.size + p.prefix), p.align)
  IN [n |-> n, stride |-> stride, prefix |-> p.prefix, size |-> p.size,
      block |-> p.count * stride]

-----------------------------------------------------------------------------
(* The control of the pool.                                                *)

SetProperties ==
  /\ ~committed
  /\ Len(free) >= layout.n
  /\ \E r \in Requests : props' = Rounded(r)
  /\ changed' = TRUE
  /\ UNCHANGED <<committed, inProgress, layout, free, semVars, sampleVars, gpc,
                 lifeVars>>

(***************************************************************************)
(* Alloc: what is there is kept if the requirements have not changed.      *)
(* Otherwise the old samples are deleted and new ones created; creating    *)
(* them may stop after n < count for want of memory, which leaves changed  *)
(* set for the next Commit.                                                *)
(***************************************************************************)
SizesSet == props.count > 0 /\ props.size > 0 /\ props.align > 0

AllocSame ==
  /\ SizesSet
  /\ ~changed
  /\ UNCHANGED <<layout, free, changed>>

AllocNew(n) ==
  /\ SizesSet
  /\ changed
  /\ Allocatable(props)
  /\ n \in 0 .. props.count
  /\ layout' = LayoutOf(props, n)
  /\ free' = [i \in 1 .. n |-> n + 1 - i]
  /\ changed' = (n < props.count)

(* Nothing was asked for, or the sizes are refused: ReallyFree has run.    *)
AllocRefused ==
  \/ /\ ~SizesSet
     /\ UNCHANGED <<layout, free, changed>>
  \/ /\ SizesSet
     /\ changed
     /\ ~Allocatable(props)
     /\ layout' = NoLayout
     /\ free' = <<>>
     /\ UNCHANGED changed

CommitAllocates ==
  /\ ~committed /\ ~inProgress
  /\ AllocSame \/ AllocNew(props.count)
  /\ committed' = TRUE
  /\ selfRefs' = selfRefs + 1
  /\ UNCHANGED <<props, inProgress, semVars, sampleVars, gpc, releasing>>

CommitFails ==
  /\ ~committed /\ ~inProgress
  /\ AllocRefused \/ \E n \in 0 .. props.count - 1 : AllocNew(n)
  /\ UNCHANGED <<props, committed, inProgress, semVars, sampleVars, gpc,
                 lifeVars>>

(* Faulty variant: the reference held since the last Commit is counted twice. *)
CommitCancelsAddRef ==
  /\ ~committed /\ inProgress
  /\ committed' = TRUE
  /\ inProgress' = FALSE
  /\ selfRefs' = selfRefs + 1
  /\ UNCHANGED <<props, changed, layout, free, semVars, sampleVars, gpc,
                 releasing>>

(* A Commit while buffers of the last one are out only cancels the decommit. *)
CommitCancels ==
  /\ ~committed /\ inProgress
  /\ committed' = TRUE
  /\ inProgress' = FALSE
  /\ UNCHANGED <<props, changed, layout, free, semVars, sampleVars, gpc,
                 lifeVars>>

(* Faulty variant: one waiter is woken, the others are forgotten.          *)
NotifySampleOne ==
  /\ sem' = IF waiting > 0 THEN sem + 1 ELSE sem
  /\ waiting' = 0

(* NotifySample releases everyone who waits.                               *)
NotifySample ==
  /\ sem' = sem + waiting
  /\ waiting' = 0

Decommit ==
  /\ committed \/ inProgress
  /\ releasing < MaxReleasing
  /\ committed' = FALSE
  /\ inProgress' = (Len(free) < layout.n)
  /\ releasing' = IF inProgress' THEN releasing ELSE releasing + 1
  /\ NotifySample
  /\ UNCHANGED <<props, changed, layout, free, sampleVars, gpc, selfRefs>>

(* Decommit and ReleaseBuffer drop the reference after the unlock.         *)
ReleaseAllocator ==
  /\ releasing > 0
  /\ releasing' = releasing - 1
  /\ selfRefs' = selfRefs - 1
  /\ UNCHANGED <<poolVars, free, semVars, sampleVars, gpc>>

-----------------------------------------------------------------------------
(* The users of samples.                                                   *)

(* Another turn of GetBuffer's loop, under the lock, that gets a sample.   *)
GetBuffer(c) ==
  /\ gpc[c] \in {"idle", "woken"}
  /\ committed
  /\ free # <<>>
  /\ LET s == Head(free)
     IN /\ cRef' = [cRef EXCEPT ![s] = 1]
        /\ holds' = [holds EXCEPT ![c] = @ \cup {s}]
  /\ free' = Tail(free)
  /\ gpc' = [gpc EXCEPT ![c] = "idle"]
  /\ UNCHANGED <<poolVars, semVars, lifeVars>>

GetBufferNotCommitted(c) ==
  /\ gpc[c] = "woken"
  /\ ~committed
  /\ gpc' = [gpc EXCEPT ![c] = "idle"]
  /\ UNCHANGED <<poolVars, free, semVars, sampleVars, lifeVars>>

(* No sample: the caller is counted before the lock is left, then waits.   *)
GetBufferEmpty(c) ==
  /\ gpc[c] \in {"idle", "woken"}
  /\ committed
  /\ free = <<>>
  /\ waiting + sem < MaxSem
  /\ waiting' = waiting + 1
  /\ gpc' = [gpc EXCEPT ![c] = "sleeping"]
  /\ UNCHANGED <<poolVars, free, sem, sampleVars, lifeVars>>

(* With AM_GBF_NOWAIT it is counted all the same and returns VFW_E_TIMEOUT. *)
GetBufferNoWait(c) ==
  /\ gpc[c] = "idle"
  /\ committed
  /\ free = <<>>
  /\ waiting + sem < MaxSem
  /\ waiting' = waiting + 1
  /\ UNCHANGED <<poolVars, free, sem, sampleVars, gpc, lifeVars>>

GetBufferWakes(c) ==
  /\ gpc[c] = "sleeping"
  /\ sem > 0
  /\ sem' = sem - 1
  /\ gpc' = [gpc EXCEPT ![c] = "woken"]
  /\ UNCHANGED <<poolVars, free, waiting, sampleVars, lifeVars>>

(* A client takes a reference to a sample another one shows it.            *)
AddRef(c, s) ==
  /\ s \in Outstanding
  /\ s \notin holds[c]
  /\ cRef' = [cRef EXCEPT ![s] = @ + 1]
  /\ holds' = [holds EXCEPT ![c] = @ \cup {s}]
  /\ UNCHANGED <<poolVars, free, semVars, gpc, lifeVars>>

(* ReleaseBuffer: back on the free list; the last one completes a decommit. *)
ReleaseBuffer(s) ==
  /\ free' = <<s>> \o free
  /\ NotifySample
  /\ IF inProgress /\ Len(free') = layout.n
       THEN inProgress' = FALSE /\ releasing' = releasing + 1
       ELSE UNCHANGED <<inProgress, releasing>>

Release(c, s) ==
  /\ s \in holds[c]
  /\ releasing < MaxReleasing
  /\ cRef' = [cRef EXCEPT ![s] = @ - 1]
  /\ holds' = [holds EXCEPT ![c] = @ \ {s}]
  /\ IF cRef[s] = 1
       THEN ReleaseBuffer(s)
       ELSE UNCHANGED <<free, semVars, inProgress, releasing>>
  /\ UNCHANGED <<props, changed, committed, layout, gpc, selfRefs>>

PoolControl ==
  \/ SetProperties \/ CommitAllocates \/ CommitFails \/ CommitCancels
  \/ Decommit \/ ReleaseAllocator

Client(c) ==
  \/ GetBuffer(c) \/ GetBufferNotCommitted(c) \/ GetBufferEmpty(c)
  \/ GetBufferNoWait(c) \/ GetBufferWakes(c)

AllocNext ==
  \/ PoolControl
  \/ \E c \in Clients :
       Client(c) \/ \E s \in Samples : AddRef(c, s) \/ Release(c, s)

AllocSpec == AllocInit /\ [][AllocNext]_allocVars

-----------------------------------------------------------------------------
AllocTypeOK ==
  /\ changed \in BOOLEAN /\ committed \in BOOLEAN /\ inProgress \in BOOLEAN
  /\ props \in [count : Int, size : Longs, prefix : Longs, align : Nat]
  /\ props.count <= MaxBuffers
  /\ layout \in [n : 0 .. MaxBuffers, stride : Int, prefix : Int, size : Int,
                 block : Int]
  /\ free \in Seq(Samples)
  /\ waiting \in Nat /\ sem \in Nat
  /\ cRef \in [Samples -> Nat]
  /\ holds \in [Clients -> SUBSET Samples]
  /\ gpc \in [Clients -> {"idle", "sleeping", "woken"}]
  /\ selfRefs \in Nat /\ releasing \in Nat

(***************************************************************************)
(* The argument of amfilter.h against a deadlock of GetBuffer: with a free *)
(* sample, or once the pool is decommitted, nobody is left uncounted -     *)
(* every sleeper has its unit of the semaphore waiting for it, whoever     *)
(* took samples, gave up waiting or decommitted in between.                *)
(***************************************************************************)
NoSleeperForgotten ==
  (free # <<>> \/ ~committed) => waiting = 0 /\ Cardinality(Sleepers) <= sem

(***************************************************************************)
(* The allocator keeps itself alive exactly as long as it is committed or  *)
(* a sample is out ("we must leave it to the allocator to hold an addref   *)
(* on our behalf"), through every order of Commit, Decommit and Release.   *)
(***************************************************************************)
AliveWhileNeeded ==
  /\ selfRefs = releasing + (IF committed \/ inProgress THEN 1 ELSE 0)
  /\ Outstanding # {} => committed \/ inProgress

(***************************************************************************)
(* Every sample that exists is free or held, once: Len(free) and           *)
(* m_lAllocated, which decide when a decommit is complete, can be trusted. *)
(***************************************************************************)
SamplesConserved ==
  /\ Len(free) + Cardinality(Outstanding) = layout.n
  /\ ToSet(free) \cup Outstanding = 1 .. layout.n
  /\ \A s \in Samples : cRef[s] = Cardinality({c \in Clients : s \in holds[c]})

(***************************************************************************)
(* No buffer reaches outside the block or into its neighbour, whatever was *)
(* requested: the sums are LONGs that may wrap, before and after the       *)
(* rounding.                                                               *)
(***************************************************************************)
BuffersFit ==
  layout.n > 0 =>
    /\ layout.prefix >= 0 /\ layout.size > 0
    /\ layout.prefix + layout.size <= layout.stride
    /\ layout.n * layout.stride <= layout.block
    /\ layout.block <= LongMax

(***************************************************************************)
(* CMemAllocator and CMemAllocatorEx: nobody sleeps for a buffer that is   *)
(* there, the object lives as long as its samples, and buffers do not      *)
(* overlap.                                                                *)
(***************************************************************************)
AllocatorSafe == AllocTypeOK /\ NoSleeperForgotten /\ AliveWhileNeeded /\ BuffersFit
=============================================================================
