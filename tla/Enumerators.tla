----------------------------- MODULE Enumerators -----------------------------
(***************************************************************************)
(* CEnumPins and CEnumMediaTypes (amfilter.cpp): enumerators that walk a   *)
(* list their owner may change meanwhile, told by a version number.  A     *)
(* call of either takes no lock: the enumerator has one user, its owner    *)
(* changes the list between two calls.                                     *)
(***************************************************************************)
EXTENDS Integers, Sequences, FiniteSets, SequencesExt

CONSTANTS Pins,         \* what a filter's list may hold
          MaxChanges,   \* bound: changes of the list
          MaxGrab       \* bound: how many one call of Next asks for

ASSUME EnumBounds == IsFiniteSet(Pins) /\ MaxChanges \in Nat /\ MaxGrab \in Nat

VARIABLES listing,         \* the owner's list and its version
          pinEnum,      \* CEnumPins: position, count, version and the cache of pins already returned
          typeEnum,     \* CEnumMediaTypes: position and version
          told          \* what the user has been told since the last Reset: pins, types, whether Next said it was done

evars == <<listing, pinEnum, typeEnum, told>>

Synced(e) == [e EXCEPT !.position = 0, !.count = Len(listing.items), !.version = listing.version]

EnumInit ==
    /\ listing \in [items : {SetToSeq(S) : S \in SUBSET Pins}, version : {1}]
    /\ pinEnum = [position |-> 0, count |-> Len(listing.items), version |-> 1, cache |-> {}]
    /\ typeEnum = [position |-> 0, version |-> 1]
    /\ told = [pins |-> <<>>, types |-> <<>>, skipped |-> FALSE, pinsDone |-> FALSE, typesDone |-> FALSE]

InSync(e) == e.version = listing.version

\* The owner adds or removes an element and increments the version.
ChangeList ==
    /\ listing.version <= MaxChanges
    /\ \E S \in SUBSET Pins \ {Range(listing.items)} : listing' = [items |-> SetToSeq(S), version |-> listing.version + 1]
    /\ UNCHANGED <<pinEnum, typeEnum, told>>

-----------------------------------------------------------------------------
(* Pins.                                                                   *)

Fresh(e, upTo) == {k \in e.position + 1 .. upTo : listing.items[k] \notin e.cache}

Refresh == Synced(pinEnum)

Ascending(at) == \A i, j \in DOMAIN at : i < j => at[i] < at[j]

\* Returns the following pins that are not in the cache, as many as asked for, after a Refresh when the list has
\* changed: the enumerator stops behind the last one it was asked for, or at the end.
NextPins ==
    \E n \in 1..MaxGrab, m \in 0..MaxGrab :
        LET e == IF InSync(pinEnum) THEN pinEnum ELSE Refresh
        IN  \E at \in [1..m -> Fresh(e, e.count)] :
               LET to  == IF m = n THEN at[n] ELSE e.count
                   got == [i \in 1..m |-> listing.items[at[i]]]
               IN  /\ m <= n /\ Ascending(at) /\ Range(at) = Fresh(e, to)
                   /\ pinEnum' = [e EXCEPT !.position = to, !.cache = @ \cup Range(got)]
                   /\ told' = [told EXCEPT !.pins = @ \o got, !.pinsDone = m < n]
                   /\ UNCHANGED <<listing, typeEnum>>

\* Skip refuses to go past the end, and to work on a list that has changed.
SkipPins ==
    \E n \in 1..MaxGrab :
        /\ InSync(pinEnum) /\ n <= pinEnum.count - pinEnum.position
        /\ pinEnum' = [pinEnum EXCEPT !.position = @ + n]
        /\ told' = [told EXCEPT !.skipped = TRUE, !.pinsDone = FALSE]
        /\ UNCHANGED <<listing, typeEnum>>

ResetPins ==
    /\ pinEnum' = [Synced(pinEnum) EXCEPT !.cache = {}]
    /\ told' = [told EXCEPT !.pins = <<>>, !.skipped = FALSE, !.pinsDone = FALSE]
    /\ UNCHANGED <<listing, typeEnum>>

-----------------------------------------------------------------------------
(* Media types: no cache; a changed list ends the enumeration until Reset. *)

\* Not called again once it has said there are no more.
NextTypes ==
    \E n \in 1..MaxGrab :
        LET left == Len(listing.items) - typeEnum.position
            got  == SubSeq(listing.items, typeEnum.position + 1, typeEnum.position + (IF n <= left THEN n ELSE left))
        IN  /\ InSync(typeEnum) /\ left >= 0
            /\ typeEnum' = [typeEnum EXCEPT !.position = @ + (IF n <= left THEN n ELSE left + 1)]
            /\ told' = [told EXCEPT !.types = @ \o got, !.typesDone = left < n]
            /\ UNCHANGED <<listing, pinEnum>>

ResetTypes ==
    /\ typeEnum' = [position |-> 0, version |-> listing.version]
    /\ told' = [told EXCEPT !.types = <<>>, !.typesDone = FALSE]
    /\ UNCHANGED <<listing, pinEnum>>

EnumNext == ChangeList \/ NextPins \/ SkipPins \/ ResetPins \/ NextTypes \/ ResetTypes

EnumSpec == EnumInit /\ [][EnumNext]_evars

-----------------------------------------------------------------------------
(* Properties.                                                             *)

\* Whatever happened to the list meanwhile, no pin is returned twice, and when Next says there are no more a user that
\* skipped nothing has been given every pin the filter has.  The types told so far are the head of the list they were
\* taken from.
EnumerationsSound ==
    /\ Cardinality(Range(told.pins)) = Len(told.pins)
    /\ told.pinsDone /\ InSync(pinEnum) /\ ~told.skipped => Range(listing.items) \subseteq Range(told.pins)
    /\ InSync(typeEnum) => IsPrefix(told.types, listing.items)
    /\ InSync(typeEnum) /\ told.typesDone => told.types = listing.items
=============================================================================
