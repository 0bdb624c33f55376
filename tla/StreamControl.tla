-------------------------- MODULE StreamControl --------------------------
(***************************************************************************)
(* CBaseStreamControl (strmctl.cpp): an application starts and stops one    *)
(* stream of a running graph at given times; the streaming thread asks      *)
(* CheckStreamState of every sample whether to deliver or to discard it,    *)
(* and is held back while a discarded sample is not yet due.                *)
(***************************************************************************)
EXTENDS Integers

CONSTANT StreamTimes    \* the times of commands and of the ends of samples

MaxTimeStamp == 1000000     \* MAX_TIME: no command pending

ASSUME StreamTimesAreNumbers == StreamTimes \subseteq 0 .. MaxTimeStamp - 1

VARIABLES
  sc,         \* the members of CBaseStreamControl
  sample,     \* the sample under CheckStreamState, [from, to], or NoSample
  verdict     \* how far CheckStreamState is with it, or its last answer

scvars == <<sc, sample, verdict>>

NoSample == [from |-> 0, to |-> 0]
SampleTimes == {[from |-> a, to |-> b] : a \in StreamTimes, b \in StreamTimes}

ControlInit ==
  /\ \E hasClock \in BOOLEAN :
       sc = [state |-> "flowing", onStop |-> "flowing", tStart |-> MaxTimeStamp,
             tStop |-> MaxTimeStamp, filter |-> "Stopped", flushing |-> FALSE,
             sendExtra |-> FALSE, extraSent |-> FALSE, event |-> FALSE,
             hasClock |-> hasClock]
  /\ sample = NoSample /\ verdict = "flowing"

CancelStop(x)  == [x EXCEPT !.tStop = MaxTimeStamp, !.onStop = "flowing"]
CancelStart(x) == [x EXCEPT !.tStart = MaxTimeStamp]
ExecuteStop(x)  == CancelStop([x EXCEPT !.state = x.onStop])
ExecuteStart(x) == CancelStart([x EXCEPT !.state = "flowing"])
InOrder(x) ==
  IF x.tStart <= x.tStop THEN ExecuteStop(ExecuteStart(x)) ELSE ExecuteStart(ExecuteStop(x))

\* What the state at the start of the graph becomes.
Begins(x, state, when) ==
  IF x.filter = "Stopped" /\ when THEN [x EXCEPT !.state = state] ELSE x

Command(x) == sc' = x /\ UNCHANGED <<sample, verdict>>

\* Faulty variant, to show that the run can fail: the event is not set.
WakeNobody(x) == x

Wake(x) == [x EXCEPT !.event = TRUE]

\* StopAt(MAX_TIME) cancels, StopAt(NULL) stops now.
StopAt ==
  \/ \E t \in StreamTimes, extra \in BOOLEAN :
       Command(Wake([Begins(sc, "flowing", sc.tStart > t) EXCEPT
                       !.sendExtra = extra, !.extraSent = FALSE,
                       !.tStop = t, !.onStop = "discarding"]))
  \/ Command([Begins(CancelStop(sc), "discarding", sc.tStart < MaxTimeStamp) EXCEPT
                !.sendExtra = FALSE, !.extraSent = FALSE])
  \/ Command(Wake([sc EXCEPT !.sendExtra = FALSE, !.extraSent = FALSE,
                     !.tStop = MaxTimeStamp, !.state = "discarding",
                     !.onStop = "flowing"]))

StartAt ==
  \/ \E t \in StreamTimes :
       Command(Wake([Begins(sc, "discarding", sc.tStop >= t) EXCEPT !.tStart = t]))
  \/ Command(Begins(CancelStart(sc), "flowing", sc.tStop < MaxTimeStamp))
  \/ Command(Wake(ExecuteStart(sc)))

\* Faulty variant: a command due in the sample waits for the next one.
CheckSampleTimesLate(x, s) ==
  IF x.tStop >= s.from
  THEN IF x.tStart >= s.from THEN x
       ELSE ExecuteStart(IF x.tStop < x.tStart THEN ExecuteStop(x) ELSE x)
  ELSE IF x.tStart >= s.from THEN ExecuteStop(x) ELSE InOrder(x)

\* The three comparisons that handle the nineteen cases.
CheckSampleTimes(x, s) ==
  IF x.tStop >= s.from
  THEN IF x.tStart >= s.to THEN x
       ELSE ExecuteStart(IF x.tStop < x.tStart THEN ExecuteStop(x) ELSE x)
  ELSE IF x.tStart >= s.to THEN ExecuteStop(x)
       ELSE InOrder(x)

(* CheckStreamState, for a sample with times or without (NoSample).  Only   *)
(* CheckSampleTimes holds the lock: each of the other places reads the      *)
(* members as they are by then.                                             *)

Answer(x, v) == sc' = x /\ verdict' = v /\ sample' = NoSample
Goes(v) == verdict' = v /\ UNCHANGED <<sc, sample>>

CheckStreamState ==
  /\ verdict \in {"flowing", "discarding"}
  /\ sample' \in {s \in SampleTimes : s.from < s.to} \cup {NoSample}
  /\ verdict' = "asked" /\ UNCHANGED sc

\* The head of the loop.
SomethingBreaksOut ==
  /\ verdict = "asked"
  /\ IF sc.flushing \/ sc.filter = "Stopped" THEN Answer(sc, "discarding") ELSE Goes("timing")

TimesAreChecked ==
  /\ verdict = "timing"
  /\ IF sample = NoSample THEN Answer(sc, sc.state)
     ELSE LET y == CheckSampleTimes(sc, sample)
          IN  IF y.state = "flowing" THEN Answer(y, "flowing")
              ELSE sc' = y /\ verdict' = "late" /\ UNCHANGED sample

\* One more frame than there should be, if it was asked for; the member that
\* says so is set a moment after it was read.
ExtraFrame ==
  \/ /\ verdict = "late"
     /\ LET extra == /\ sc.sendExtra /\ ~sc.extraSent
                     /\ sc.tStop = MaxTimeStamp /\ sc.filter # "Stopped"
        IN  Goes(IF extra THEN "extra" ELSE "early")
  \/ verdict = "extra" /\ Answer([sc EXCEPT !.extraSent = TRUE], "flowing")

\* Discarded at once with no clock, or when it is due already.
DiscardOrWait ==
  /\ verdict = "early"
  /\ \/ /\ sc.hasClock => sc.filter # "Paused"
        /\ Answer(sc, "discarding")
     \/ sc.hasClock /\ Goes("blocked")

\* The wait on the auto-reset event.  A paused filter has no stream time and
\* waits without limit, a running one until the sample is due.
WaitFires ==
  /\ verdict = "blocked" /\ sc.event
  /\ sc' = [sc EXCEPT !.event = FALSE] /\ verdict' = "asked" /\ UNCHANGED sample

WaitExpires == verdict = "blocked" /\ sc.filter = "Running" /\ ~sc.event /\ Answer(sc, "discarding")

\* NotifyFilterState: a stop of the filter executes what is pending, in order.
NotifyFilterState ==
  \E new \in {"Stopped", "Paused", "Running"} \ {sc.filter} :
    LET pending == IF sc.tStop = MaxTimeStamp /\ sc.tStart = MaxTimeStamp THEN sc
                   ELSE IF sc.tStop = MaxTimeStamp THEN ExecuteStart(sc)
                   ELSE IF sc.tStart = MaxTimeStamp THEN ExecuteStop(sc)
                   ELSE InOrder(sc)
        x == IF new = "Stopped" THEN [pending EXCEPT !.state = "flowing"] ELSE sc
    IN  Command(Wake([x EXCEPT !.filter = new]))

Flushing == \E b \in BOOLEAN : Command(Wake([sc EXCEPT !.flushing = b]))

ControlNext ==
  StopAt \/ StartAt \/ NotifyFilterState \/ Flushing
  \/ CheckStreamState \/ SomethingBreaksOut \/ TimesAreChecked \/ ExtraFrame
  \/ DiscardOrWait \/ WaitFires \/ WaitExpires

ControlSpec == ControlInit /\ [][ControlNext]_scvars

-----------------------------------------------------------------------------

\* A thread held back in CheckStreamState is let go by a flush and by a stop of
\* the filter, wherever they come between its first look at the members and its
\* wait: the event stays set until the thread looks again.
ControlReleases ==
  verdict \in {"timing", "late", "extra", "early", "blocked"} /\ (sc.flushing \/ sc.filter = "Stopped") => sc.event

\* Where a command lies: a command inside a sample is at or after its start
\* and before its stop.
Place(t, s) == IF t < s.from THEN "before" ELSE IF t < s.to THEN "inside" ELSE "after"

\* The table of nineteen cases in the comment above CheckSampleTimes, for the
\* commands pending now and any sample: what happened before the sample is
\* executed in order, a start in the sample starts it, a stop in the sample
\* waits for the next one unless a later start overrides it.
SampleTableHolds ==
  \A s \in SampleTimes : s.from < s.to =>
    LET x == Place(sc.tStart, s)
        o == Place(sc.tStop, s)
        done == CheckSampleTimes(sc, s)
    IN  /\ done.state = CASE x = "before" /\ o = "before" ->
                               IF sc.tStart <= sc.tStop THEN sc.onStop ELSE "flowing"
                          [] x \in {"before", "inside"} /\ ~(x = "before" /\ o = "before") ->
                               "flowing"
                          [] x = "after" /\ o = "before" -> sc.onStop
                          [] x = "after" /\ o # "before" -> sc.state
        /\ (done.tStart = MaxTimeStamp) = (x # "after" \/ sc.tStart = MaxTimeStamp)
        /\ (done.tStop = MaxTimeStamp) =
             (\/ sc.tStop = MaxTimeStamp
              \/ o = "before"
              \/ o = "inside" /\ x # "after" /\ sc.tStop < sc.tStart)

\* CBaseStreamControl: commands are carried out at the samples they name, and a sample held back for one is let go.
StreamControlSafe == ControlReleases /\ SampleTableHolds
=============================================================================
