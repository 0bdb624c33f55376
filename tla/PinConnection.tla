---------------------------- MODULE PinConnection ----------------------------
(***************************************************************************)
(* Connecting an output pin to an input pin (amfilter.cpp: CBasePin,       *)
(* CBaseOutputPin, CBaseInputPin) and starting and stopping the two        *)
(* filters that own them (CBaseFilter).                                    *)
(*                                                                         *)
(* The graph manager makes its calls one at a time, each under the         *)
(* filters' locks: a call is one step, but for Stop, which tells the pin   *)
(* before it changes the filter's state.  What can go wrong inside a call  *)
(* is explicit: `fails' is the set of calls that fail on the way, and the  *)
(* error paths undo what was done.  Allocators are counted references.     *)
(* The source's streaming thread calls Receive, which takes no lock: it    *)
(* tests the flags and later sets one, with anything in between.  The      *)
(* source waits for that thread before it is stopped, as CSourceStream     *)
(* does; a flush is begun and ended by whoever seeks.                      *)
(***************************************************************************)
EXTENDS Integers, Sequences, FiniteSets, SequencesExt

CONSTANTS Types,         \* media types
          Dynamic        \* whether pins may be connected while the filters are active (m_bCanReconnectWhenActive)

ASSUME TypesAssumption == IsFiniteSet(Types) /\ Dynamic \in BOOLEAN

None == "none"
Allocators == {"theirs", "ours"}     \* the one the input pin creates, the one the output pin creates
Faults == {"check", "set_out", "set_in", "complete_in", "get", "size_theirs", "size_ours",
           "notify_theirs", "notify_ours", "init"}

VARIABLES g,             \* the two pins, their allocators and their filters
          graph,         \* the graph manager: "rest", "unplugging", "starting", "active", "halting", "stopping"
          offer,         \* the types each pin accepts and proposes, and the partial type asked for
          receiving,     \* Receive: "none", it has "passed" its tests, or was "overtaken" by a stop or a flush since
          flush,         \* whether whoever seeks is between BeginFlush and EndFlush
          outlived       \* history, what may outlive its session: an "error" of an overtaken call, a "flush" whose
                         \* connection was broken in the middle

nvars == <<g, graph, offer, receiving, flush, outlived>>

Unplugged == [out |-> [conn |-> FALSE, type |-> None, alloc |-> None, iface |-> FALSE],
              in |-> [conn |-> FALSE, type |-> None, alloc |-> None, flushing |-> FALSE, error |-> FALSE],
              refs |-> [a \in Allocators |-> 0], committed |-> {}, src |-> "stopped", dst |-> "stopped"]

ConnInit ==
    /\ g = Unplugged
    /\ graph = "rest"
    /\ offer \in [out : SUBSET Types, in : SUBSET Types, partial : SUBSET Types, mineFirst : BOOLEAN]
    /\ receiving = "none" /\ flush = FALSE /\ outlived = {}

pushvars == <<receiving, flush, outlived>>

-----------------------------------------------------------------------------
(* Reference counts.  NotifyAllocator takes the new reference before it    *)
(* drops the old one.                                                      *)

Release(s, a) ==
    IF a = None THEN s
    ELSE [s EXCEPT !.refs[a] = @ - 1, !.committed = IF s.refs[a] = 1 THEN @ \ {a} ELSE @]

NotifyAllocator(s, a) ==
    Release([s EXCEPT !.refs[a] = @ + 1, !.in.alloc = a], s.in.alloc)

\* GetAllocator creates the input pin's allocator the first time; the caller gets a reference of its own.
GetAllocator(s) ==
    LET has == IF s.in.alloc # None THEN s
               ELSE [s EXCEPT !.in.alloc = "theirs", !.refs["theirs"] = 1]
    IN  [has EXCEPT !.out.alloc = has.in.alloc, !.refs[has.in.alloc] = @ + 1]

DropOut(s) == [Release(s, s.out.alloc) EXCEPT !.out.alloc = None]

\* DecideBufferSize and NotifyAllocator on the allocator the output pin holds.
Agreed(s, fails, size, notify) == s.out.alloc # None /\ size \notin fails /\ notify \notin fails

DecideAllocator(s, fails) ==
    LET first  == IF "get" \in fails THEN s ELSE GetAllocator(s)
        second == IF "init" \in fails THEN DropOut(first)
                  ELSE [DropOut(first) EXCEPT !.out.alloc = "ours", !.refs["ours"] = @ + 1]
    IN  IF Agreed(first, fails, "size_theirs", "notify_theirs")
        THEN [ok |-> TRUE, s |-> NotifyAllocator(first, first.out.alloc)]
        ELSE IF Agreed(second, fails, "size_ours", "notify_ours")
        THEN [ok |-> TRUE, s |-> NotifyAllocator(second, "ours")]
        ELSE [ok |-> FALSE, s |-> DropOut(second)]

\* Decommit, release the allocator and the interface of the other pin.
BreakConnectOut(s) ==
    [DropOut([s EXCEPT !.committed = @ \ {s.out.alloc}]) EXCEPT !.out.iface = FALSE]

BreakConnectIn(s) ==
    [Release([s EXCEPT !.committed = @ \ {s.in.alloc}], s.in.alloc) EXCEPT !.in.alloc = None]

-----------------------------------------------------------------------------
(* One attempt with a fully specified type.                                *)

MayConnect(state) == state = "stopped" \/ Dynamic

ReceiveConnection(s, t, fails) ==
    IF s.in.conn \/ ~MayConnect(s.dst) THEN [ok |-> FALSE, s |-> s]
    ELSE IF t \notin offer.in THEN [ok |-> FALSE, s |-> BreakConnectIn(s)]
    ELSE LET set == [s EXCEPT !.in.conn = TRUE, !.in.type = IF "set_in" \in fails THEN @ ELSE t]
         IN  IF fails \cap {"set_in", "complete_in"} = {} THEN [ok |-> TRUE, s |-> set]
             ELSE [ok |-> FALSE, s |-> BreakConnectIn([set EXCEPT !.in.conn = FALSE])]

\* Mutant: the other pin is left connected when the connection cannot be completed.
DisconnectInSkipped(s) == s

\* CBasePin::Disconnect is refused unless the filter is stopped.
DisconnectIn(s) ==
    IF s.dst # "stopped" \/ ~s.in.conn THEN s ELSE [BreakConnectIn(s) EXCEPT !.in.conn = FALSE]

\* CDynamicOutputPin also commits the allocator when the filter is active.
CompleteConnectOut(s, fails) ==
    LET d == DecideAllocator(s, fails)
    IN  IF d.ok /\ d.s.src # "stopped" THEN [d EXCEPT !.s.committed = @ \cup {d.s.out.alloc}] ELSE d

Undo(s) == [BreakConnectOut(s) EXCEPT !.out.conn = FALSE]

AttemptConnection(s, t, fails) ==
    IF "check" \in fails THEN [ok |-> FALSE, s |-> BreakConnectOut(s)]
    ELSE IF t \notin offer.out THEN [ok |-> FALSE, s |-> Undo([s EXCEPT !.out.iface = TRUE])]
    ELSE LET mine  == [s EXCEPT !.out.iface = TRUE, !.out.conn = TRUE,
                                !.out.type = IF "set_out" \in fails THEN @ ELSE t]
             other == ReceiveConnection(mine, t, fails)
             whole == CompleteConnectOut(other.s, fails)
         IN  IF "set_out" \in fails THEN [ok |-> FALSE, s |-> Undo(mine)]
             ELSE IF ~other.ok THEN [ok |-> FALSE, s |-> Undo(other.s)]
             ELSE IF whole.ok THEN whole
             ELSE [ok |-> FALSE, s |-> Undo(DisconnectIn(whole.s))]

\* AgreeMediaType: the other pin's types that match the partial type, then ours (or the reverse), until one works.
Proposals ==
    LET listed(S) == SetToSeq(S \cap offer.partial)
    IN  IF offer.mineFirst THEN listed(offer.out) \o listed(offer.in)
                           ELSE listed(offer.in) \o listed(offer.out)

TryNext(last, t, fails) == IF last.ok THEN last ELSE AttemptConnection(last.s, t, fails)

AgreeMediaType(s, types, fails) ==
    LET after[i \in 0 .. Len(types)] ==
            IF i = 0 THEN [ok |-> FALSE, s |-> s] ELSE TryNext(after[i - 1], types[i], fails)
    IN  after[Len(types)]

-----------------------------------------------------------------------------
(* The graph manager.                                                      *)

Connect(types) ==
    \E fails \in SUBSET Faults :
        /\ Cardinality(fails) <= 2
        /\ ~g.out.conn /\ ~g.in.conn /\ MayConnect(g.src)
        /\ graph = "rest" \/ (Dynamic /\ graph = "active")
        /\ g' = AgreeMediaType(g, types, fails).s
        /\ UNCHANGED <<graph, offer, pushvars>>

ConnectType == \E t \in Types : Connect(<<t>>)
ConnectAny == Connect(Proposals)

\* The graph disconnects both ends, one after the other; an EndFlush that comes later finds no pin.
Unplug ==
    /\ graph = "rest" /\ g.src = "stopped" /\ g.out.conn
    /\ g' = [BreakConnectOut(g) EXCEPT !.out.conn = FALSE]
    /\ graph' = "unplugging"
    /\ outlived' = IF g.in.flushing THEN outlived \cup {"flush"} ELSE outlived
    /\ UNCHANGED <<offer, receiving, flush>>

UnplugOther ==
    /\ graph = "unplugging"
    /\ g' = DisconnectIn(g)
    /\ graph' = "rest"
    /\ UNCHANGED <<offer, pushvars>>

\* Pause: the receiving filter first.  Active commits the allocator of a connected output pin; when that of a later
\* pin of the filter fails, Pause returns and the filter stays stopped, with this pin active.
PauseReceiver ==
    /\ graph = "rest"
    /\ g' = [g EXCEPT !.dst = "paused"]
    /\ graph' = "starting"
    /\ UNCHANGED <<offer, pushvars>>

PauseSource ==
    /\ graph = "starting"
    /\ \/ /\ g' = [g EXCEPT !.src = "paused", !.committed = IF g.out.conn THEN @ \cup {g.out.alloc} ELSE @]
          /\ graph' = "active"
       \/ /\ g' \in {g, [g EXCEPT !.committed = IF g.out.conn THEN @ \cup {g.out.alloc} ELSE @]}
          /\ graph' = "stopping"
    /\ UNCHANGED <<offer, pushvars>>

Run ==
    /\ graph = "active" /\ g.src = "paused"
    /\ g' = [g EXCEPT !.src = "running", !.dst = "running"]
    /\ UNCHANGED <<graph, offer, pushvars>>

InactiveIn(s) ==
    [s EXCEPT !.in.error = IF s.in.conn THEN FALSE ELSE @,
              !.in.flushing = IF s.in.conn /\ s.in.alloc # None THEN FALSE ELSE @,
              !.committed = IF s.in.conn THEN @ \ {s.in.alloc} ELSE @]

Overtaken == IF receiving = "none" THEN "none" ELSE "overtaken"

\* Stop makes the pins inactive first and changes the filter's state afterwards.
StopReceiver ==
    /\ graph \in {"active", "stopping"} /\ g.dst # "stopped"
    /\ g' = InactiveIn(g)
    /\ graph' = "halting"
    /\ receiving' = Overtaken
    /\ outlived' = IF g.in.conn THEN {} ELSE outlived
    /\ UNCHANGED <<offer, flush>>

ReceiverStopped ==
    /\ graph = "halting"
    /\ g' = [g EXCEPT !.dst = "stopped"]
    /\ graph' = "stopping"
    /\ UNCHANGED <<offer, pushvars>>

StopSource ==
    /\ graph = "stopping" /\ g.dst = "stopped" /\ receiving = "none"
    /\ g' = [g EXCEPT !.src = "stopped",
                      !.committed = IF g.out.conn /\ g.src # "stopped" THEN @ \ {g.out.alloc} ELSE @]
    /\ graph' = "rest"
    /\ UNCHANGED <<offer, pushvars>>

-----------------------------------------------------------------------------
(* The streaming thread and whoever seeks.                                 *)

CheckStreaming == g.dst # "stopped" /\ ~g.in.flushing /\ ~g.in.error

Receive ==
    /\ g.out.iface /\ g.in.conn /\ g.src # "stopped" /\ receiving = "none" /\ CheckStreaming
    /\ receiving' = IF graph = "halting" THEN "overtaken" ELSE "passed"
    /\ UNCHANGED <<g, graph, offer, flush, outlived>>

\* A sample may announce a new type: one the input pin does not accept is a run-time error.
ReceiveRefused ==
    /\ receiving # "none" /\ Types \ offer.in # {}
    /\ g' = [g EXCEPT !.in.error = TRUE]
    /\ outlived' = IF receiving = "overtaken" THEN outlived \cup {"error"} ELSE outlived
    /\ receiving' = "none"
    /\ UNCHANGED <<graph, offer, flush>>

ReceiveDone ==
    /\ receiving # "none"
    /\ receiving' = "none"
    /\ UNCHANGED <<g, graph, offer, flush, outlived>>

\* Both take the filter's lock, which Stop holds; an output pin that is not connected passes neither on.
BeginFlush ==
    /\ g.out.conn /\ ~flush /\ graph # "halting"
    /\ g' = [g EXCEPT !.in.flushing = TRUE]
    /\ flush' = TRUE
    /\ UNCHANGED <<graph, offer, receiving, outlived>>

EndFlush ==
    /\ flush /\ graph # "halting"
    /\ flush' = FALSE
    /\ IF g.out.conn THEN /\ g' = [g EXCEPT !.in.flushing = FALSE, !.in.error = FALSE]
                          /\ receiving' = Overtaken /\ outlived' = {}
                     ELSE UNCHANGED <<g, receiving, outlived>>
    /\ UNCHANGED <<graph, offer>>

ConnNext ==
    \/ ConnectType \/ ConnectAny \/ Unplug \/ UnplugOther
    \/ PauseReceiver \/ PauseSource \/ Run \/ StopReceiver \/ ReceiverStopped \/ StopSource
    \/ Receive \/ ReceiveRefused \/ ReceiveDone \/ BeginFlush \/ EndFlush

ConnSpec == ConnInit /\ [][ConnNext]_nvars

-----------------------------------------------------------------------------
(* Properties.                                                             *)

\* However an attempt fails, the error paths leave both pins connected to each other, with one type both accept and
\* one allocator, or both free with no allocator held by either.
ConnectionsAgree ==
    /\ graph # "unplugging" => (g.out.conn <=> g.in.conn)
    /\ g.out.conn => /\ g.out.type = g.in.type /\ g.out.type \in offer.out \cap offer.in
                     /\ g.out.alloc = g.in.alloc /\ g.out.alloc # None /\ g.out.iface
    /\ ~g.out.conn => g.out.alloc = None /\ ~g.out.iface
    /\ ~g.in.conn => g.in.alloc = None

\* No reference to an allocator is leaked or dropped twice.
ReferencesCounted ==
    \A a \in Allocators : g.refs[a] = Cardinality({p \in {"out", "in"} : g[p].alloc = a})

\* The buffers of an active connection exist, and none are left when the graph has stopped, though a failed Pause
\* leaves a pin active that Stop then passes over: the other end's Inactive frees them.  A stopped filter is not
\* still in a flush or an error of its last session, unless a Receive that Stop overtook flagged the error after it,
\* which nothing in the base class prevents, or the flush goes on or lost its connection.
CommittedWhileActive ==
    /\ graph = "active" /\ g.out.conn => g.out.alloc \in g.committed
    /\ graph = "rest" => g.committed = {}
    /\ g.dst = "stopped" /\ g.in.error => "error" \in outlived
    /\ g.dst = "stopped" /\ g.in.flushing => flush \/ "flush" \in outlived

\* However connections are made, refused, changed and broken, and the graph is started and stopped, both ends tell the
\* same story and the allocator between them is owned and committed as their states say (CBasePin, CBaseOutputPin,
\* CBaseInputPin).
PinsSafe == ConnectionsAgree /\ ReferencesCounted /\ CommittedWhileActive
=============================================================================
