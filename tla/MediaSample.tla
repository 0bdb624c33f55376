----------------------------- MODULE MediaSample -----------------------------
(***************************************************************************)
(* CMediaSample (amfilter.cpp) and CMediaSampleEx (mediasample_ex.cpp):    *)
(* the properties of a sample while its buffer is filled, passed on and    *)
(* used again, and the two ways an input pin reads them.                   *)
(*                                                                         *)
(* AM_SAMPLE2_PROPERTIES is read as far as the caller's byte count         *)
(* reaches: a call gives the first n of its Fields.                        *)
(***************************************************************************)
EXTENDS Integers, SequencesExt

CONSTANTS Times       \* bound: time stamps

NoType == "none"
Flags == {"time", "stop", "media", "sync", "type"}     \* sync also stands for discontinuity and preroll
Fields == <<"cbData", "typeFlags", "flags", "actual", "tStart", "tStop", "stream", "mediaType", "pbBuffer", "cbBuffer">>
Given(f, n) == \E i \in 1..n : Fields[i] = f

VARIABLE sample     \* the CMediaSampleEx object; refs = 0 when it is in its allocator's free list

mvars == sample

SampleInit ==
    sample = [refs |-> 0, flags |-> {}, mt |-> NoType, stream |-> "media", start |-> 0, end |-> 0, ex |-> 0]

Marked(s, f, on) == [s EXCEPT !.flags = IF on THEN @ \cup {f} ELSE @ \ {f}]

-----------------------------------------------------------------------------
GetSample ==
    /\ sample.refs = 0
    /\ sample' = [sample EXCEPT !.refs = 1]

AddRefSample == sample.refs = 1 /\ sample' = [sample EXCEPT !.refs = 2]

\* The last Release frees the type and clears the flags; times, length and the extended times stay as they are.
Freed(s) == [s EXCEPT !.refs = 0, !.flags = {}, !.mt = NoType, !.stream = "media"]

ReleaseSample ==
    /\ sample.refs > 0
    /\ sample' = IF sample.refs = 1 THEN Freed(sample) ELSE [sample EXCEPT !.refs = @ - 1]

SetTime ==
    \/ sample' = [sample EXCEPT !.flags = @ \ {"time", "stop"}]
    \/ \E a \in Times : sample' = [sample EXCEPT !.start = a, !.flags = (@ \ {"stop"}) \cup {"time"}]
    \/ \E a, b \in Times :
         b >= a /\ sample' = [sample EXCEPT !.start = a, !.end = b, !.flags = @ \cup {"time", "stop"}]

\* SetMediaTime, SetSyncPoint, SetDiscontinuity, SetPreroll.
SetFlag == \E f \in {"media", "sync"}, on \in BOOLEAN : sample' = Marked(sample, f, on)

SetMediaType == \E t \in {NoType, "new"} : sample' = [Marked(sample, "type", t # NoType) EXCEPT !.mt = t]

SetTimeEx == \E t \in Times : sample' = [sample EXCEPT !.ex = t]

\* Checked before anything is assigned.
Accepted(n, flags) ==
    Given("flags", n) => /\ "media" \notin flags
                         /\ ("time" \in flags /\ "time" \notin sample.flags) => Given("tStop", n)

\* Mutant: the type-changed flag is taken from the caller.
FixedUpTrusting(s) == s

FixedUp(s) == Marked(s, "type", s.mt # NoType)

SetProperties ==
    \E n \in 1..Len(Fields), flags \in SUBSET (Flags \ {"media"}), a, b \in Times :
        /\ Accepted(n, flags)
        /\ b >= a
        /\ sample' = FixedUp(
              [sample EXCEPT
                 !.stream = IF Given("stream", n) THEN "other" ELSE @,
                 !.flags = IF Given("flags", n) THEN flags \cup (@ \cap {"media"}) ELSE @,
                 !.end = IF Given("tStop", n) THEN b ELSE @,
                 !.start = IF Given("tStart", n) THEN a ELSE @,
                 !.mt = IF Given("mediaType", n) /\ "type" \in flags THEN "new" ELSE @])

SampleNext ==
    \/ GetSample
    \/ AddRefSample
    \/ ReleaseSample
    \/ sample.refs = 1 /\ (SetTime \/ SetFlag \/ SetMediaType \/ SetTimeEx \/ SetProperties)

SampleSpec == SampleInit /\ [][SampleNext]_mvars

-----------------------------------------------------------------------------
(* CBaseInputPin::Receive reads the properties through IMediaSample2, or   *)
(* one by one from a sample that has no such interface.                    *)

GetProperties ==
    [flags |-> sample.flags \ {"media"}, start |-> sample.start, stop |-> sample.end,
     mt |-> IF "type" \in sample.flags THEN sample.mt ELSE NoType]

\* GetTime invents a stop time when there is none.
GetTime ==
    IF "stop" \in sample.flags THEN <<sample.start, sample.end>> ELSE <<sample.start, sample.start + 1>>

TheHardWay ==
    LET timed == sample.flags \cap {"time", "stop"} # {}
    IN  [flags |-> (sample.flags \cap {"sync", "type"}) \cup (IF timed THEN {"time", "stop"} ELSE {}),
         start |-> GetTime[1], stop |-> GetTime[2],
         mt |-> IF "type" \in sample.flags THEN sample.mt ELSE NoType]

-----------------------------------------------------------------------------
(* Properties.                                                             *)

\* After any sequence of calls a sample that announces a type has one, whatever part of the structure a caller gave;
\* a buffer handed out again announces nothing of its last use; and an input pin sees the same flags, type and times
\* whichever way it reads them, but for the stop time that GetTime invents.
SampleConsistent ==
    /\ "type" \in sample.flags <=> sample.mt # NoType
    /\ sample.refs = 0 => sample.flags = {} /\ sample.mt = NoType /\ sample.stream = "media"
    /\ LET p == GetProperties
           h == TheHardWay
       IN  /\ p.mt = h.mt /\ p.flags \ {"time", "stop"} = h.flags \ {"time", "stop"}
           /\ "time" \in p.flags => "time" \in h.flags /\ p.start = h.start
           /\ "stop" \in p.flags => "stop" \in h.flags /\ p.stop = h.stop
=============================================================================
