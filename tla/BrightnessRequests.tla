-------------------------- MODULE BrightnessRequests --------------------------
(***************************************************************************)
(* Brightness requests of the quick panel                                  *)
(* (plugins/dde-dock/brightness/brightnesscontroller.cpp): the slider      *)
(* writes the newest request into one slot; a zero timer of the GUI thread *)
(* starts a job in the thread pool, which takes the request, lets go of    *)
(* the mutex and calls SetAndSaveBrightness() of the display service.      *)
(*                                                                         *)
(* A request, a monitor and a value, is the number of the call of          *)
(* setMonitorBrightness() that made it.  A step is what runs under the     *)
(* mutex at a time.                                                        *)
(***************************************************************************)
EXTENDS Naturals, FiniteSets

CONSTANTS
  Threads,        \* QThreadPool::maxThreadCount()
  MaxRequests     \* bound on the calls of setMonitorBrightness()

VARIABLES
  requests,       \* requests made so far
  waiting,        \* m_hasWaitingRequest
  pending,        \* m_hasPendingRequest
  slot,           \* m_monitorName and m_brightnessValue: a request, or 0
  turns,          \* zero timers of handleSetBrightnessRequest()
  queued,         \* jobs that wait for a thread
  taken,          \* requests that a job has taken and not sent yet
  calls,          \* requests whose call has not returned
  finished        \* watchers whose finished() is under way

record == <<requests, waiting, pending, slot>>
jobs   == <<queued, taken, calls>>
vars   == <<record, turns, jobs, finished>>

TypeOK ==
  /\ requests \in Nat /\ slot \in 0..requests
  /\ waiting \in BOOLEAN /\ pending \in BOOLEAN
  /\ turns \in Nat /\ queued \in Nat /\ finished \in Nat
  /\ taken \subseteq 1..requests /\ calls \subseteq 1..requests

Init ==
  /\ requests = 0 /\ slot = 0
  /\ waiting = FALSE /\ pending = FALSE
  /\ turns = 0 /\ queued = 0 /\ finished = 0
  /\ taken = {} /\ calls = {}

------------------------------------------------------------------------------
(* The GUI thread *)

\* The newest request replaces one that waits, of whichever monitor.
SetMonitorBrightness ==
  /\ requests < MaxRequests /\ requests' = requests + 1
  /\ waiting' = TRUE /\ slot' = requests'
  /\ turns' = IF pending THEN turns ELSE turns + 1
  /\ UNCHANGED <<pending, jobs, finished>>

\* There is nothing to do while a call is believed to run.
Idle == pending \/ ~waiting

HandleSetBrightnessRequest ==
  /\ turns > 0 /\ turns' = turns - 1
  /\ queued' = IF Idle THEN queued ELSE queued + 1
  /\ UNCHANGED <<record, taken, calls, finished>>

\* finished() of any job, of one that returned early too.
Finished ==
  /\ finished > 0 /\ finished' = finished - 1
  /\ pending' = FALSE
  /\ turns' = IF waiting THEN turns + 1 ELSE turns
  /\ UNCHANGED <<requests, waiting, slot, jobs>>

------------------------------------------------------------------------------
(* Jobs in the thread pool *)

JobStarts ==
  /\ queued > 0 /\ queued' = queued - 1
  /\ Cardinality(taken \cup calls) < Threads
  /\ \/ /\ Idle /\ finished' = finished + 1
        /\ UNCHANGED <<record, taken>>
     \/ /\ ~Idle /\ taken' = taken \cup {slot}
        /\ pending' = TRUE /\ waiting' = FALSE /\ slot' = 0
        /\ UNCHANGED <<requests, finished>>
  /\ UNCHANGED <<turns, calls>>

\* The mutex is free by now.
JobSends(r) ==
  /\ r \in taken /\ taken' = taken \ {r} /\ calls' = calls \cup {r}
  /\ UNCHANGED <<record, turns, queued, finished>>

\* waitForFinished(): an answer, an error or the time-out of the call.
CallReturns(r) ==
  /\ r \in calls /\ calls' = calls \ {r}
  /\ finished' = finished + 1
  /\ UNCHANGED <<record, turns, queued, taken>>

Next ==
  \/ SetMonitorBrightness \/ HandleSetBrightnessRequest \/ Finished \/ JobStarts
  \/ \E r \in taken : JobSends(r)
  \/ \E r \in calls : CallReturns(r)

Spec == Init /\ [][Next]_vars

------------------------------------------------------------------------------
(* Properties *)

\* "While a brightness setting is not finished, the newest request is only
\* recorded": a call is under way for one request at a time, or an older value
\* could be the last that the service gets.
OneCallAtATime == Cardinality(calls) <= 1

\* A request never waits with nothing under way that will look at the slot, and
\* the mark of a running call is not left behind by its job.
NothingStranded ==
  /\ waiting => turns + queued + finished > 0 \/ taken \cup calls # {}
  /\ pending => finished > 0 \/ taken \cup calls # {}

\* What waits is the newest request, and no job has taken it: no early return and
\* no take that overlaps another drops the last value of the slider.
NewestKept ==
  /\ waiting <=> slot # 0
  /\ waiting => slot = requests /\ requests \notin taken \cup calls
==============================================================================
