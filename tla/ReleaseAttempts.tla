--------------------------- MODULE ReleaseAttempts ---------------------------
(* ReleaseCheck with a record of when it asks GitHub.                         *)
EXTENDS ReleaseCheck

VARIABLES
  attemptAge,  \* time since the last fetch began
  gap          \* time between the beginnings of the last two

attemptVars == <<attemptAge, gap>>

AttemptsInit ==
  /\ Init
  /\ attemptAge = Interval
  /\ gap = Interval

Begins ==
  /\ BeginFetch
  /\ attemptAge' = 0
  /\ gap' = attemptAge

Ages ==
  /\ Tick
  /\ attemptAge' = Older(attemptAge, Interval)
  /\ UNCHANGED gap

StartsAnew ==
  /\ Reload
  /\ attemptAge' = Interval
  /\ gap' = Interval

Others ==
  /\ \/ NewRelease
     \/ AnswerFromCache
     \/ FetchEnds
     \/ RefreshRefused
     \/ RefreshBreaks
  /\ UNCHANGED attemptVars

AttemptsNext == Begins \/ Ages \/ StartsAnew \/ Others

AttemptsSpec == AttemptsInit /\ [][AttemptsNext]_<<vars, attemptVars>>

\* coordinator.py:330, "Fetch the latest Talos release, throttled to the
\* upgrade interval": the fetches that led to a known version began at least
\* an interval after the fetch before them.
AttemptsThrottled == latestVersion # None => gap = Interval
=============================================================================
