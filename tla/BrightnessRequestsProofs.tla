----------------------- MODULE BrightnessRequestsProofs -----------------------
(***************************************************************************)
(* Theorems about BrightnessRequests for any number of requests, jobs and  *)
(* threads.                                                                *)
(***************************************************************************)
EXTENDS BrightnessRequests, TLAPS

\* What a step needs to know of the state before it.
RequestInv == TypeOK /\ NothingStranded /\ NewestKept

LEMMA RequestStart ==
  ASSUME Init
  PROVE  RequestInv
<1>1. TypeOK
  <2>1. waiting \in BOOLEAN /\ pending \in BOOLEAN
    BY Zenon DEF Init
  <2>2. QED
    BY <2>1 DEF Init, TypeOK
<1>2. NothingStranded /\ NewestKept
  BY DEF Init, NothingStranded, NewestKept
<1>3. QED
  BY <1>1, <1>2 DEF RequestInv

\* A step either touches the slot, or one job.
LEMMA RequestStep ==
  ASSUME RequestInv, [Next]_vars
  PROVE  RequestInv'
<1> USE DEF RequestInv, TypeOK, record, jobs
<1>1. CASE SetMonitorBrightness
  BY <1>1 DEF SetMonitorBrightness, NothingStranded, NewestKept
<1>2. CASE HandleSetBrightnessRequest
  <2>1. TypeOK' /\ NewestKept'
    BY <1>2 DEF HandleSetBrightnessRequest, NewestKept
  <2>2. NothingStranded'
    BY <1>2 DEF HandleSetBrightnessRequest, NothingStranded, Idle
  <2>3. QED
    BY <2>1, <2>2
<1>3. CASE Finished
  <2>1. TypeOK'
    <3>1. waiting' \in BOOLEAN /\ pending' \in BOOLEAN
      BY <1>3, Zenon DEF Finished
    <3>2. QED
      BY <1>3, <3>1 DEF Finished
  <2>2. NothingStranded' /\ NewestKept'
    BY <1>3 DEF Finished, NothingStranded, NewestKept
  <2>3. QED
    BY <2>1, <2>2
<1>4. CASE JobStarts
  <2>1. CASE Idle /\ finished' = finished + 1 /\ UNCHANGED <<record, taken>>
    <3>1. TypeOK' /\ NewestKept'
      BY <1>4, <2>1 DEF JobStarts, NewestKept
    <3>2. NothingStranded'
      BY <1>4, <2>1 DEF JobStarts, NothingStranded
    <3>3. QED
      BY <3>1, <3>2
  <2>2. CASE /\ ~Idle /\ taken' = taken \cup {slot}
             /\ pending' = TRUE /\ waiting' = FALSE /\ slot' = 0
             /\ UNCHANGED <<requests, finished>>
    <3>1. slot \in 1..requests
      BY <2>2 DEF Idle, NewestKept
    <3>2. TypeOK'
      <4>1. waiting' \in BOOLEAN /\ pending' \in BOOLEAN
        BY <2>2, Zenon
      <4>2. QED
        BY <1>4, <2>2, <3>1, <4>1 DEF JobStarts
    <3>3. NothingStranded' /\ NewestKept'
      BY <1>4, <2>2 DEF JobStarts, NothingStranded, NewestKept
    <3>4. QED
      BY <3>2, <3>3
  <2>3. QED
    BY <1>4, <2>1, <2>2 DEF JobStarts
<1>5. ASSUME NEW r \in taken, JobSends(r) PROVE RequestInv'
  <2>1. taken' \cup calls' = taken \cup calls
    BY <1>5 DEF JobSends
  <2>2. QED
    BY <1>5, <2>1 DEF JobSends, NothingStranded, NewestKept
<1>6. ASSUME NEW r \in calls, CallReturns(r) PROVE RequestInv'
  <2>1. TypeOK' /\ NewestKept'
    BY <1>6 DEF CallReturns, NewestKept
  <2>2. NothingStranded'
    BY <1>6 DEF CallReturns, NothingStranded
  <2>3. QED
    BY <2>1, <2>2
<1>7. CASE UNCHANGED vars
  BY <1>7 DEF vars, NothingStranded, NewestKept
<1>8. QED
  BY <1>1, <1>2, <1>3, <1>4, <1>5, <1>6, <1>7 DEF Next

LEMMA RequestInvHolds == Spec => []RequestInv
BY RequestStart, RequestStep, PTL DEF Spec

------------------------------------------------------------------------------
(* Theorems *)

\* The state keeps its shape: only a request that was made is ever sent.
THEOREM TypeCorrect == Spec => []TypeOK
<1>1. RequestInv => TypeOK
  BY DEF RequestInv
<1>2. QED
  BY <1>1, RequestInvHolds, PTL

\* No request is left waiting with nothing under way, although the jobs and their
\* finished() set and clear the marks in any order.
THEOREM NoneStranded == Spec => []NothingStranded
<1>1. RequestInv => NothingStranded
  BY DEF RequestInv
<1>2. QED
  BY <1>1, RequestInvHolds, PTL

\* The newest request is in the slot until a job takes it.
THEOREM LatestKept == Spec => []NewestKept
<1>1. RequestInv => NewestKept
  BY DEF RequestInv
<1>2. QED
  BY <1>1, RequestInvHolds, PTL
==============================================================================
