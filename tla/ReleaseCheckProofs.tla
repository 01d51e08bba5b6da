------------------------- MODULE ReleaseCheckProofs -------------------------
(* Proof that a published version is never older than one interval, one poll  *)
(* cycle and one request, for any such times, while no check is missed.       *)
EXTENDS ReleaseCheck, TLAPS

\* While no check is missed, the known version's age is the age of its check
\* until that comes of age, and after it grows only with the current cycle.
Tracked ==
  ~missed =>
    /\ polling
    /\ latest # None => latestVersion # None
    /\ latestVersion # None =>
         /\ checkAge # Never
         /\ checkAge < Interval => latestAge = checkAge
         /\ pc = "idle" => latestAge <= (Interval - 1) + idleAge
         /\ pc = "fetch" => latestAge <= (Interval - 1) + idleAge + fetchAge

IInv == TypeOK /\ Tracked

\* An age stays within its bound.
LEMMA OlderType ==
  ASSUME NEW bound \in Nat, NEW age \in 0..bound
  PROVE  Older(age, bound) \in 0..bound
BY DEF Older

\* The ranges hold the values that variables are reset to.
LEMMA MaxAgeType == MaxAge \in Nat
BY TimesAssumption DEF MaxAge

LEMMA Resets ==
  /\ 0 \in 0..(MaxAge + 1)
  /\ 0 \in 0..CycleTime
  /\ 0 \in 0..FetchTimeout
  /\ 0 \in 0..Interval
  /\ Interval \in 0..Interval
  /\ 1 \in 1..Releases
<1>1. MaxAge + 1 \in Nat
  BY MaxAgeType
<1> QED
  BY <1>1, TimesAssumption

LEMMA InitInv == Init => IInv
<1> SUFFICES ASSUME Init PROVE IInv
  OBVIOUS
<1>1. TypeOK
  BY Resets DEF Init, TypeOK, Release, None, Never
<1>2. Tracked
  BY DEF Init, Tracked, None
<1> QED
  BY <1>1, <1>2 DEF IInv

LEMMA TypeStep == IInv /\ [Next]_vars => TypeOK'
<1> SUFFICES ASSUME IInv, [Next]_vars PROVE TypeOK'
  OBVIOUS
<1> USE TimesAssumption, MaxAgeType
    DEF IInv, TypeOK, vars, entryVars, cacheVars, dataVars,
        Release, None, Never
<1>1. CASE NewRelease
  BY <1>1 DEF NewRelease
<1>2. CASE Tick
  <2>1. checkAge' \in (0..Interval) \cup {Never}
    BY <1>2, OlderType DEF Tick
  <2>2. idleAge' \in 0..CycleTime
    BY <1>2, OlderType DEF Tick
  <2>3. fetchAge' \in 0..FetchTimeout
    BY <1>2 DEF Tick
  <2>4. latestAge' \in 0..(MaxAge + 1)
    BY <1>2, OlderType DEF Tick
  <2> QED
    BY <1>2, <2>1, <2>2, <2>3, <2>4 DEF Tick
<1>3. CASE Reload
  BY <1>3, Resets DEF Reload
<1>4. CASE AnswerFromCache
  BY <1>4 DEF AnswerFromCache, Publishes, TargetVersion
<1>5. CASE BeginFetch
  BY <1>5 DEF BeginFetch
<1>6. CASE FetchSucceeds
  <2>1. fetchAge \in 0..(MaxAge + 1) /\ fetchAge \in 0..Interval
    BY DEF MaxAge
  <2> QED
    BY <1>6, <2>1, Resets DEF FetchSucceeds, Publishes, TargetVersion, CheckedAtRequest
<1>7. CASE FetchUntagged
  BY <1>7 DEF FetchUntagged, Publishes, TargetVersion, CheckedAtRequest
<1>8. CASE FetchFails
  BY <1>8 DEF FetchFails, Publishes, TargetVersion
<1>9. CASE RefreshRefused
  BY <1>9 DEF RefreshRefused
<1>10. CASE RefreshBreaks
  BY <1>10, Resets DEF RefreshBreaks
<1>11. CASE UNCHANGED vars
  BY <1>11
<1> QED
  BY <1>1, <1>2, <1>3, <1>4, <1>5, <1>6, <1>7, <1>8, <1>9, <1>10, <1>11 DEF Next

LEMMA TrackedStep == IInv /\ [Next]_vars => Tracked'
<1> SUFFICES ASSUME IInv, [Next]_vars, ~missed' PROVE Tracked'
  BY DEF Tracked
<1> USE TimesAssumption
    DEF IInv, TypeOK, Tracked, vars, entryVars, cacheVars, dataVars,
        Release, None, Never
<1>1. CASE NewRelease
  BY <1>1 DEF NewRelease
<1>2. CASE Tick
  <2>1. ~missed /\ polling /\ pc' = pc /\ latestVersion' = latestVersion
    BY <1>2 DEF Tick
  <2>2. latestAge' <= latestAge + 1
    BY <1>2, MaxAgeType DEF Tick, Older
  <2>3. pc = "idle" => idleAge' = idleAge + 1
    BY <1>2, <2>1 DEF Tick, Older
  <2>4. pc = "fetch" => idleAge' = idleAge /\ fetchAge' = fetchAge + 1
    BY <1>2 DEF Tick
  <2>5. ASSUME latestVersion # None, checkAge' < Interval
        PROVE  latestAge' = checkAge'
    <3>1. checkAge # Never /\ checkAge' = checkAge + 1 /\ checkAge < Interval
      BY <1>2, <2>1, <2>5 DEF Tick, Older
    <3>2. latestAge < MaxAge + 1
      BY <2>1, <2>5, <3>1 DEF MaxAge
    <3> QED
      BY <1>2, <2>1, <2>5, <3>1, <3>2 DEF Tick, Older
  <2>6. latestVersion # None => checkAge' # Never
    BY <1>2, <2>1 DEF Tick, Older
  <2>t. /\ latestAge \in Int /\ latestAge' \in Int
        /\ idleAge \in Int /\ fetchAge \in Int
    BY <1>2, MaxAgeType DEF Tick, Older
  <2>7. ASSUME latestVersion # None, pc = "idle"
        PROVE  latestAge' <= (Interval - 1) + idleAge'
    <3>1. latestAge <= (Interval - 1) + idleAge
      BY <2>1, <2>7
    <3> QED
      BY <2>2, <2>3, <2>7, <2>t, <3>1
  <2>8. ASSUME latestVersion # None, pc = "fetch"
        PROVE  latestAge' <= (Interval - 1) + idleAge' + fetchAge'
    <3>1. latestAge <= (Interval - 1) + idleAge + fetchAge
      BY <2>1, <2>8
    <3> QED
      BY <2>2, <2>4, <2>8, <2>t, <3>1
  <2> QED
    BY <1>2, <2>1, <2>5, <2>6, <2>7, <2>8 DEF Tick
<1>3. CASE Reload
  BY <1>3 DEF Reload
<1>4. CASE AnswerFromCache
  BY <1>4 DEF AnswerFromCache, Publishes, Throttled
<1>5. CASE BeginFetch
  BY <1>5 DEF BeginFetch
<1>6. CASE FetchSucceeds
  BY <1>6 DEF FetchSucceeds, Publishes, CheckedAtRequest
<1>7. CASE FetchUntagged \/ FetchFails \/ RefreshRefused \/ RefreshBreaks
  BY <1>7 DEF FetchUntagged, FetchFails, RefreshRefused, RefreshBreaks
<1>8. CASE UNCHANGED vars
  BY <1>8
<1> QED
  BY <1>1, <1>2, <1>3, <1>4, <1>5, <1>6, <1>7, <1>8 DEF Next

\* The invariant holds in every reachable state.
THEOREM Invariance == Spec => []IInv
<1>1. IInv /\ [Next]_vars => IInv'
  BY TypeStep, TrackedStep DEF IInv
<1> QED
  BY InitInv, <1>1, PTL DEF Spec

\* coordinator.py:329-355: versions, ages and histories keep their types.
THEOREM TypeCorrect == Spec => []TypeOK
<1>1. IInv => TypeOK
  BY DEF IInv
<1> QED
  BY Invariance, <1>1, PTL

\* coordinator.py:332-348: the published version is fresh enough.
THEOREM FreshEnoughHolds == Spec => []FreshEnough
<1>1. IInv => FreshEnough
  <2> SUFFICES ASSUME IInv, latest # None, ~missed PROVE latestAge <= MaxAge
    BY DEF FreshEnough
  <2> QED
    BY TimesAssumption DEF IInv, TypeOK, Tracked, MaxAge
<1> QED
  BY Invariance, <1>1, PTL
=============================================================================
