---------------------------- MODULE TransInPlace ----------------------------
(***************************************************************************)
(* CTransInPlaceFilter (transip.cpp): a filter that works on the samples   *)
(* it is given when both its pins use one allocator, and copies them when  *)
(* they do not.  Which allocator each pin uses comes out of connections,   *)
(* disconnections and the reconnections the filter asks the graph for.     *)
(* The filters on both sides are external; the upstream one keeps to one   *)
(* policy as long as it is connected ("NOT allowable", transip.cpp:143).   *)
(***************************************************************************)
EXTENDS FiniteSets

VARIABLES modifies,      \* m_bModifiesData
          inPin,         \* allocator of the input pin, m_bReadOnly, and upstream's policy
          outPin,        \* allocator of the output pin, whether downstream offers one, and what downstream was told
          reconnect      \* the graph has been asked to reconnect the input

tipvars == <<modifies, inPin, outPin, reconnect>>

\* "up": upstream's; "down": downstream's; "own": the output pin's; "temp": the input pin's;
\* "old": that of an upstream filter which is gone.
NoInput == [connected |-> FALSE, alloc |-> "none", readOnly |-> FALSE, ro |-> FALSE, insists |-> FALSE]
NoOutput == [connected |-> FALSE, alloc |-> "none", offers |-> FALSE, told |-> "none", toldRO |-> FALSE]

TipInit ==
    /\ modifies \in BOOLEAN
    /\ inPin = NoInput /\ outPin = NoOutput /\ reconnect = FALSE

\* GetAllocator of the input pin: what downstream offers, which the output pin takes at once; a temporary one when
\* there is no downstream.
OfferedUpstream(out) == IF ~out.connected THEN "temp" ELSE IF out.offers THEN "down" ELSE "none"
AfterOffer(out) == IF out.connected /\ out.offers THEN [out EXCEPT !.alloc = "down"] ELSE out

\* Mutant: a read-only allocator is passed on as any other.
InputNotifyAllocatorPassesOn(out, a, ro) ==
    IF ~out.connected THEN [ok |-> TRUE, out |-> out]
    ELSE [ok |-> TRUE, out |-> [out EXCEPT !.alloc = a, !.told = a, !.toldRO = ro]]

\* NotifyAllocator of the input pin: accepted as it is without a downstream, passed on when it may be written or will not
\* be, and otherwise kept apart from the output pin's, which is found or made, given the same properties, and told.
InputNotifyAllocator(out, a, ro) ==
    LET apart == IF out.alloc # "none" THEN out.alloc ELSE IF out.offers THEN "down" ELSE "own" IN
    IF ~out.connected THEN [ok |-> TRUE, out |-> out]
    ELSE IF ro /\ modifies
         THEN IF a = apart THEN [ok |-> FALSE, out |-> [out EXCEPT !.alloc = apart]]
              ELSE [ok |-> TRUE, out |-> [out EXCEPT !.alloc = apart, !.told = apart, !.toldRO = FALSE]]
         ELSE [ok |-> TRUE, out |-> [out EXCEPT !.alloc = a, !.told = a, !.toldRO = ro]]

\* Upstream asks for an allocator, uses it unless it insists on its own, and falls back to its own.
Negotiated(out, policy) ==
    LET offered == OfferedUpstream(out)
        asked == AfterOffer(out)
        theirs == InputNotifyAllocator(asked, offered, FALSE)
        first == offered # "none" /\ ~policy.insists /\ theirs.ok
        own == InputNotifyAllocator(asked, "up", policy.ro)
    IN  IF first THEN [ok |-> TRUE, alloc |-> offered, readOnly |-> FALSE, out |-> theirs.out]
        ELSE [ok |-> own.ok, alloc |-> "up", readOnly |-> policy.ro, out |-> own.out]

\* The input pin is connected, or reconnected with the same policy; the sizes may turn out not to suit the output's
\* allocator, and the connection then fails.
JoinInput(policy) ==
    LET n == Negotiated(outPin, policy) IN
    \/ /\ n.ok
       /\ inPin' = [connected |-> TRUE, alloc |-> n.alloc, readOnly |-> n.readOnly, ro |-> policy.ro, insists |-> policy.insists]
       /\ outPin' = n.out
    \/ /\ ~n.ok \/ (n.readOnly /\ modifies /\ outPin.connected)
       /\ inPin' = NoInput
       /\ outPin' = AfterOffer(outPin)

ConnectInput(ro, insists) ==
    /\ ~inPin.connected
    /\ JoinInput([ro |-> ro, insists |-> insists])
    /\ UNCHANGED <<modifies, reconnect>>

\* DecideAllocator of the output pin: downstream's, else the pin's own; the input is then reconnected, always.
ConnectOutput(offers) ==
    LET a == IF offers THEN "down" ELSE "own" IN
    /\ ~outPin.connected
    /\ outPin' = [connected |-> TRUE, alloc |-> a, offers |-> offers, told |-> a, toldRO |-> FALSE]
    /\ reconnect' = inPin.connected
    /\ UNCHANGED <<modifies, inPin>>

\* External: the graph carries out the reconnection.
ReconnectInput ==
    /\ reconnect
    /\ reconnect' = FALSE
    /\ IF inPin.connected THEN JoinInput([ro |-> inPin.ro, insists |-> inPin.insists]) ELSE UNCHANGED <<inPin, outPin>>
    /\ UNCHANGED modifies

\* BreakConnect: each pin lets go of its own pointer and leaves the other's alone.
DisconnectInput ==
    /\ inPin.connected
    /\ inPin' = NoInput
    /\ reconnect' = FALSE
    /\ outPin' = [outPin EXCEPT !.alloc = IF @ = "up" THEN "old" ELSE @, !.told = IF @ = "up" THEN "old" ELSE @]
    /\ UNCHANGED modifies

DisconnectOutput ==
    /\ outPin.connected
    /\ outPin' = NoOutput
    /\ UNCHANGED <<modifies, inPin, reconnect>>

TipNext ==
    \/ \E ro, insists \in BOOLEAN : ConnectInput(ro, insists)
    \/ \E offers \in BOOLEAN : ConnectOutput(offers)
    \/ ReconnectInput \/ DisconnectInput \/ DisconnectOutput

TipSpec == TipInit /\ [][TipNext]_tipvars

-----------------------------------------------------------------------------
(* Properties.                                                             *)

Settled == inPin.connected /\ outPin.connected /\ ~reconnect

\* Receive copies exactly when the pins' allocators differ: a filter that modifies its data never works on a sample of a
\* read-only allocator, whichever way its connections were made.
ReadOnlyIsCopied == modifies /\ inPin.connected /\ outPin.connected /\ inPin.readOnly => inPin.alloc # outPin.alloc

\* Downstream gets its samples from the allocator it was told of, as read-only as they are.
DownstreamKnows == Settled => outPin.told = outPin.alloc /\ (inPin.readOnly /\ inPin.alloc = outPin.alloc => outPin.toldRO)

\* "The object of the exercise is to ensure that we finish up in states 10 or 11 whenever possible" (transip.cpp:105):
\* one allocator for both pins, when upstream's can be written or when downstream's is offered and upstream will take it.
InPlaceWhenPossible ==
    Settled /\ (~inPin.ro \/ ~modifies \/ (outPin.offers /\ ~inPin.insists)) => inPin.alloc = outPin.alloc

\* CTransInPlaceFilter: in whatever order its pins connect, reconnect and disconnect, the allocators end up such that no
\* read-only sample is written, the next filter knows what it gets, and nothing is copied that need not be.
TransInPlaceSafe == ReadOnlyIsCopied /\ DownstreamKnows /\ InPlaceWhenPossible
=============================================================================
