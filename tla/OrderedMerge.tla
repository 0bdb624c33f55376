---------------------------- MODULE OrderedMerge ----------------------------
(***************************************************************************)
(* What the interleaver promises, with no events, threads or limits: each  *)
(* source has a line of pending packets; the merged sequence grows only by *)
(* the earliest head, and only while every required source has a packet    *)
(* to compare with.                                                        *)
(***************************************************************************)
EXTENDS Integers, Sequences

CONSTANTS
  Sources,  \* the sources, ordered integers: the lower wins a tie
  Packet    \* what they send; a packet has a time

VARIABLES
  required,  \* the sources that must have a packet before one is taken
  pending,   \* what each source has put and nobody has taken
  merged     \* what has been taken, in order

mvars == <<required, pending, merged>>

Waiting == {s \in Sources : pending[s] # <<>>}

Earliest(s) ==
  /\ s \in Waiting
  /\ \A t \in Waiting :
       \/ Head(pending[s]).time < Head(pending[t]).time
       \/ Head(pending[s]).time = Head(pending[t]).time /\ s <= t

Nothing == [s \in Sources |-> <<>>]

Init ==
  /\ required = {}
  /\ pending = Nothing
  /\ merged = <<>>

(* A new session begins, with its own required sources.                    *)
Begin ==
  /\ required' \in SUBSET Sources
  /\ pending' = Nothing
  /\ merged' = <<>>

Put(s) ==
  /\ \E p \in Packet : pending' = [pending EXCEPT ![s] = Append(@, p)]
  /\ UNCHANGED <<required, merged>>

Take(s) ==
  /\ required \subseteq Waiting
  /\ Earliest(s)
  /\ pending' = [pending EXCEPT ![s] = Tail(@)]
  /\ merged' = Append(merged, Head(pending[s]))
  /\ UNCHANGED required

(* What the sources in D have pending is thrown away.                      *)
Discard(D) ==
  /\ pending' = [s \in Sources |-> IF s \in D THEN <<>> ELSE pending[s]]
  /\ merged' = <<>>
  /\ UNCHANGED required

Next ==
  \/ Begin
  \/ \E s \in Sources : Put(s) \/ Take(s)
  \/ \E D \in SUBSET Sources : Discard(D)

Spec == Init /\ [][Next]_mvars
=============================================================================
