---------------------------- MODULE ReleaseCheck ----------------------------
(* The check for the latest Talos release and the version offered from it.    *)
(* Every refresh ends in _maybe_check_latest, which answers from its last     *)
(* fetch while that is younger than the upgrade interval and asks GitHub      *)
(* otherwise.  Time passes in ticks; an age that the code only compares with  *)
(* a bound is kept up to that bound, so nothing here grows without limit.     *)
EXTENDS Integers

CONSTANTS
  Releases,      \* how many releases Talos makes
  Interval,      \* the upgrade interval, in ticks
  CycleTime,     \* longest time from the end of a refresh to the next check
  FetchTimeout   \* longest time a fetch takes

\* The request times out after 20 s; the options allow no interval under 300.
ASSUME TimesAssumption ==
  /\ Releases \in Nat \ {0}
  /\ Interval \in Nat \ {0}
  /\ CycleTime \in Nat \ {0}
  /\ FetchTimeout \in Nat /\ FetchTimeout < Interval

VARIABLES
  upstream,       \* the latest release at GitHub
  pin,            \* the entry's pinned version in pinned mode, else None
  pc,             \* "idle", "fetch" while the request is out
  polling,        \* refreshes are scheduled
  latestVersion,  \* coordinator._latest_version
  checkAge,       \* time since coordinator._latest_checked, or Never
  latest,         \* data.latest_version
  target,         \* data.target_version
  idleAge,        \* time since the last refresh ended
  fetchAge,       \* time since the fetch began
  latestAge,      \* history: time since the fetch that gave `latest` began
  missed          \* history: a check failed or was skipped since then

entryVars == <<pin, polling>>
cacheVars == <<latestVersion, checkAge>>
dataVars == <<latest, target>>
vars == <<upstream, entryVars, pc, cacheVars, dataVars, idleAge, fetchAge,
          latestAge, missed>>

None == 0
Never == -1
Release == 1..Releases

\* The oldest that a published version may get while every check succeeds.
MaxAge == (Interval - 1) + CycleTime + FetchTimeout

\* An age one tick later, kept at its bound.
Older(age, bound) == IF age < bound THEN age + 1 ELSE age

-----------------------------------------------------------------------------
(* GitHub, the clock and the user.                                            *)

NewRelease ==
  /\ upstream < Releases
  /\ upstream' = upstream + 1
  /\ UNCHANGED <<entryVars, pc, cacheVars, dataVars, idleAge, fetchAge,
                 latestAge, missed>>

\* A tick, which neither a timer that is due nor a request's timeout lets by.
Tick ==
  /\ pc = "idle" /\ polling => idleAge < CycleTime
  /\ pc = "fetch" => fetchAge < FetchTimeout
  /\ checkAge' = IF checkAge = Never THEN Never ELSE Older(checkAge, Interval)
  /\ idleAge' = IF pc = "idle" THEN Older(idleAge, CycleTime) ELSE idleAge
  /\ fetchAge' = IF pc = "fetch" THEN fetchAge + 1 ELSE fetchAge
  /\ latestAge' = Older(latestAge, MaxAge + 1)
  /\ UNCHANGED <<upstream, entryVars, pc, latestVersion, dataVars, missed>>

\* Options saved: the entry is reloaded with a new coordinator.
Reload ==
  /\ pin' \in Release \cup {None}
  /\ pc' = "idle"
  /\ polling' = TRUE
  /\ latestVersion' = None
  /\ checkAge' = Never
  /\ latest' = None
  /\ target' = None
  /\ idleAge' = 0
  /\ fetchAge' = 0
  /\ latestAge' = 0
  /\ missed' = FALSE
  /\ UNCHANGED upstream

-----------------------------------------------------------------------------
(* The refresh's release check.                                               *)

\* _target_version
TargetVersion(version) == IF pin # None THEN pin ELSE version

\* now - _latest_checked < interval, with a version known.  (A definition just
\* before the one it resembles is a seeded fault, as in Coordinator.)
AlwaysCached == latestVersion # None
Throttled ==
  /\ latestVersion # None
  /\ checkAge # Never
  /\ checkAge < Interval

\* TalosData is published with the version the check returned.
Publishes(version) ==
  /\ pc' = "idle"
  /\ polling' = TRUE
  /\ latest' = version
  /\ target' = TargetVersion(version)
  /\ idleAge' = 0
  /\ fetchAge' = 0
  /\ UNCHANGED <<upstream, pin>>

\* The refresh reaches the check and the last fetch is young enough.
AnswerFromCache ==
  /\ pc = "idle"
  /\ Throttled
  /\ Publishes(latestVersion)
  /\ UNCHANGED <<cacheVars, latestAge, missed>>

\* The refresh reaches the check and asks GitHub.
BeginFetch ==
  /\ pc = "idle"
  /\ ~Throttled
  /\ pc' = "fetch"
  /\ fetchAge' = 0
  /\ UNCHANGED <<upstream, entryVars, cacheVars, dataVars, idleAge, latestAge,
                 missed>>

\* What _latest_checked becomes: `now` was taken before the request.
DueTime == fetchAge - Interval
CheckedAtAnswer == 0
CheckedAtRequest == fetchAge

FetchSucceeds ==
  /\ pc = "fetch"
  /\ latestVersion' = upstream
  /\ checkAge' = CheckedAtRequest
  /\ latestAge' = fetchAge
  /\ missed' = FALSE
  /\ Publishes(upstream)

\* The payload has no tag_name: nothing is known any more.
FetchUntagged ==
  /\ pc = "fetch"
  /\ latestVersion' = None
  /\ checkAge' = CheckedAtRequest
  /\ missed' = TRUE
  /\ Publishes(None)
  /\ UNCHANGED latestAge

\* Any exception: the last value stays, and so does the time of its check.
FetchFails ==
  /\ pc = "fetch"
  /\ missed' = TRUE
  /\ Publishes(latestVersion)
  /\ UNCHANGED <<cacheVars, latestAge>>

\* The refresh is refused before it reaches the check; polling stops until a
\* requested refresh succeeds.
RefreshRefused ==
  /\ pc = "idle"
  /\ polling' = FALSE
  /\ missed' = TRUE
  /\ UNCHANGED <<upstream, pin, pc, cacheVars, dataVars, idleAge, fetchAge,
                 latestAge>>

\* The refresh ends with another error before it reaches the check: the data
\* stays, and polling goes on.
RefreshBreaks ==
  /\ pc = "idle"
  /\ polling' = TRUE
  /\ idleAge' = 0
  /\ missed' = TRUE
  /\ UNCHANGED <<upstream, pin, pc, cacheVars, dataVars, fetchAge,
                 latestAge>>

-----------------------------------------------------------------------------
Init ==
  /\ upstream = 1
  /\ pin \in Release \cup {None}
  /\ pc = "idle"
  /\ polling = TRUE
  /\ latestVersion = None
  /\ checkAge = Never
  /\ latest = None
  /\ target = None
  /\ idleAge = 0
  /\ fetchAge = 0
  /\ latestAge = 0
  /\ missed = FALSE

Check == AnswerFromCache \/ BeginFetch
FetchEnds == FetchSucceeds \/ FetchUntagged \/ FetchFails

Next ==
  \/ NewRelease
  \/ Tick
  \/ Reload
  \/ AnswerFromCache
  \/ BeginFetch
  \/ FetchSucceeds
  \/ FetchUntagged
  \/ FetchFails
  \/ RefreshRefused
  \/ RefreshBreaks

Spec == Init /\ [][Next]_vars

\* Time passes, the timer of a polling entry fires, a request ends.
Fairness ==
  /\ WF_vars(Tick)
  /\ WF_vars(polling /\ Check)
  /\ WF_vars(FetchEnds)

LiveSpec == Spec /\ Fairness

-----------------------------------------------------------------------------
(* Properties.                                                                *)

\* Every variable holds a value of the program's type.
TypeOK ==
  /\ upstream \in Release
  /\ pin \in Release \cup {None}
  /\ pc \in {"idle", "fetch"}
  /\ polling \in BOOLEAN
  /\ latestVersion \in Release \cup {None}
  /\ checkAge \in (0..Interval) \cup {Never}
  /\ latest \in Release \cup {None}
  /\ target \in Release \cup {None}
  /\ idleAge \in 0..CycleTime
  /\ fetchAge \in 0..FetchTimeout
  /\ latestAge \in 0..(MaxAge + 1)
  /\ missed \in BOOLEAN

\* While checks succeed and refreshes go on, the published version comes from
\* a fetch begun at most one interval, one poll cycle and one request ago.
FreshEnough == latest # None /\ ~missed => latestAge <= MaxAge

\* What keeps the newest release from being offered.
Disturbance ==
  \/ NewRelease
  \/ Reload
  \/ RefreshRefused
  \/ RefreshBreaks
  \/ FetchUntagged
  \/ FetchFails

\* Once no release appears, nothing is reloaded, refreshes reach the check and
\* fetches succeed, the newest release is published, or the pin offered.
ReleaseOffered ==
  <>[][~Disturbance]_vars
    => <>[](polling => latest = upstream /\ target = TargetVersion(upstream))
=============================================================================
