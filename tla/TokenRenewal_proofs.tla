------------------------ MODULE TokenRenewal_proofs ------------------------
(* Theorems about TokenRenewal and their proofs. *)
EXTENDS TokenRenewal, TLAPS

-----------------------------------------------------------------------------
(* Every variable keeps its type, for any durations and any requests. *)
THEOREM TypesKept == Spec => []TypeOK
<1> USE NoApiIsWatchdog, DurationsAssumption, CrashAssumption
<1>0. /\ 0 \in 0..CallTime /\ 0 \in Ticks /\ 0 \in 0..Period /\ 0 \in 0..MaxFails
      /\ [t \in Task |-> 0] \in [Task -> 0..CallTime]
      /\ [t \in Task |-> 0] \in [Task -> Ticks]
      /\ [t \in Task |-> "idle"] \in [Task -> {"idle", "calling", "opening", "writing"}]
  BY DEF Ticks
<1>1. Init => TypeOK
  BY <1>0 DEF Init, TypeOK, File
<1>2. TypeOK /\ [Next]_vars => TypeOK'
  <2> SUFFICES ASSUME TypeOK, [Next]_vars
               PROVE  TypeOK'
    OBVIOUS
  <2> USE DEF TypeOK, File, Ticks
  <2>1. CASE StartService
    BY <2>1 DEF StartService
  <2>2. CASE Tick
    BY <2>2 DEF Tick
  <2>3. CASE Crash
    <3> USE DEF Crash
    <3>1. up' \in BOOLEAN /\ wait' \in 0..Period /\ fails' \in 0..MaxFails
      BY <1>0, <2>3
    <3>2. patience' \in [Task -> 0..CallTime] /\ grant' \in [Task -> Ticks]
      BY <1>0, <2>3
    <3>3. pc' \in [Task -> {"idle", "calling", "opening", "writing"}]
      BY <1>0, <2>3
    <3> QED
      BY <2>3, <3>1, <3>2, <3>3
  <2>4. CASE LoseFile
    BY <2>4 DEF LoseFile
  <2>5. CASE RunWatchdog
    BY <2>5 DEF RunWatchdog, CallLogin, Task
  <2>6. CASE SkipRun
    BY <2>6 DEF SkipRun
  <2>7. CASE MissRun
    BY <2>7 DEF MissRun
  <2>8. ASSUME NEW t \in Task, RequestToken(t)
        PROVE  TypeOK'
    BY <2>8 DEF RequestToken, CallLogin
  <2>9. ASSUME NEW t \in Task, Granted(t)
        PROVE  TypeOK'
    BY <2>9 DEF Granted
  <2>10. ASSUME NEW t \in Task, LoginFails(t)
         PROVE  TypeOK'
    BY <2>10 DEF LoginFails
  <2>11. ASSUME NEW t \in Task, OpenFile(t)
         PROVE  TypeOK'
    BY <2>11 DEF OpenFile
  <2>12. ASSUME NEW t \in Task, WriteFile(t)
         PROVE  TypeOK'
    BY <2>12 DEF WriteFile
  <2>13. CASE UNCHANGED vars
    BY <2>13 DEF vars
  <2> QED
    BY <2>1, <2>2, <2>3, <2>4, <2>5, <2>6, <2>7, <2>8, <2>9, <2>10, <2>11, <2>12, <2>13
       DEF Next, WatchdogDue, Renew
<1> QED
  BY <1>1, <1>2, PTL DEF Spec

-----------------------------------------------------------------------------
(* What a renewal has in hand outlives the margin. *)
GrantsLast == \A t \in Task : pc[t] \in {"opening", "writing"} => grant[t] > Margin

(* A ticket is granted for longer than the margin and a call together. *)
LongGrants == Lifetime - CallTime > Margin

LEMMA GrantsOutlive ==
    ASSUME LongGrants
    PROVE  Spec => []GrantsLast
<1> USE NoApiIsWatchdog, DurationsAssumption
<1>1. Init => GrantsLast
  BY DEF Init, GrantsLast
<1>2. TypeOK /\ GrantsLast /\ [Next]_vars => GrantsLast'
  <2> SUFFICES ASSUME TypeOK, GrantsLast, [Next]_vars
               PROVE  GrantsLast'
    OBVIOUS
  <2> USE DEF TypeOK, Ticks, GrantsLast
  <2>1. CASE StartService
    BY <2>1 DEF StartService
  <2>2. CASE Tick
    BY <2>2 DEF Tick
  <2>3. CASE Crash
    BY <2>3 DEF Crash
  <2>4. CASE LoseFile
    BY <2>4 DEF LoseFile
  <2>5. CASE RunWatchdog
    BY <2>5 DEF RunWatchdog, CallLogin, Task
  <2>6. CASE SkipRun
    BY <2>6 DEF SkipRun
  <2>7. CASE MissRun
    BY <2>7 DEF MissRun
  <2>8. ASSUME NEW t \in Task, RequestToken(t)
        PROVE  GrantsLast'
    BY <2>8 DEF RequestToken, CallLogin
  <2>9. ASSUME NEW t \in Task, Granted(t)
        PROVE  GrantsLast'
    <3>1. PICK age \in 0..(CallTime - patience[t]) :
                 grant' = [grant EXCEPT ![t] = Lifetime - age]
      BY <2>9 DEF Granted
    <3>2. age \in Nat /\ age <= CallTime
      OBVIOUS
    <3>3. grant'[t] > Margin
      BY <3>1, <3>2, LongGrants DEF LongGrants
    <3>4. pc' = [pc EXCEPT ![t] = "opening"]
      BY <2>9 DEF Granted
    <3> QED
      BY <3>1, <3>3, <3>4
  <2>10. ASSUME NEW t \in Task, LoginFails(t)
         PROVE  GrantsLast'
    BY <2>10 DEF LoginFails
  <2>11. ASSUME NEW t \in Task, OpenFile(t)
         PROVE  GrantsLast'
    BY <2>11 DEF OpenFile
  <2>12. ASSUME NEW t \in Task, WriteFile(t)
         PROVE  GrantsLast'
    BY <2>12 DEF WriteFile
  <2>13. CASE UNCHANGED vars
    BY <2>13 DEF vars
  <2> QED
    BY <2>1, <2>2, <2>3, <2>4, <2>5, <2>6, <2>7, <2>8, <2>9, <2>10, <2>11, <2>12, <2>13
       DEF Next, WatchdogDue, Renew
<1> QED
  BY <1>1, <1>2, TypesKept, PTL DEF Spec

(* What is saved outlives the margin, with any number of renewals under    *)
(* way at once and a process that dies as it likes.                        *)
THEOREM SavedFresh ==
    ASSUME LongGrants
    PROVE  Spec => SavedIsFresh
<1>1. GrantsLast => \A t \in Task : WriteFile(t) => left' > Margin
  BY DEF GrantsLast, WriteFile
<1>2. GrantsLast /\ [Next]_vars => [\A t \in Task : WriteFile(t) => left' > Margin]_vars
  BY <1>1
<1> QED
  BY <1>2, GrantsOutlive, PTL DEF Spec, SavedIsFresh

-----------------------------------------------------------------------------
(* The configuration that leaves the watchdog time: besides LongGrants, a  *)
(* call ends before the next run, and the margin covers as many runs as    *)
(* may be lost, one more, and the call that follows.                       *)
InTime ==
    /\ LongGrants
    /\ CallTime < Period
    /\ (MaxFails + 1) * Period + CallTime <= Margin

(* Until it is started the service has no ticket. *)
NotStarted == ~up => file = "missing" /\ pc[Watchdog] = "idle"

(* A call of the watchdog and the wait for its next run count down alike. *)
CallBeforeRun == pc[Watchdog] = "calling" => wait = Period - CallTime + patience[Watchdog]

(* A ticket never falls further below the margin than the runs lost so far *)
(* and the wait since the last one account for.                            *)
Slack(n) == Margin - (n * Period) + wait
SlackKept ==
    file = "ticket" =>
        /\ pc[Watchdog] = "idle" => left > Slack(fails + 1)
        /\ pc[Watchdog] = "calling" => left > Slack(fails + 2)
        /\ pc[Watchdog] \in {"opening", "writing"} => left > 0

TimingInv == NotStarted /\ CallBeforeRun /\ SlackKept

LEMMA RunsBounded ==
    ASSUME NEW n \in 0..MaxFails
    PROVE  /\ n * Period \in Nat
           /\ n * Period <= MaxFails * Period
           /\ (n + 1) * Period = n * Period + Period
           /\ (n + 2) * Period = n * Period + Period + Period
           /\ (n + 3) * Period = n * Period + Period + Period + Period
<1> USE DurationsAssumption
<1>1. PICK m \in Nat : n + m = MaxFails
  <2>1. MaxFails - n \in Nat /\ n + (MaxFails - n) = MaxFails
    OBVIOUS
  <2> QED
    BY <2>1
<1>2. /\ (n + m) * Period = n * Period + m * Period
      /\ n * Period \in Nat /\ m * Period \in Nat
  OBVIOUS
<1>3. /\ (n + 1) * Period = n * Period + Period
      /\ (n + 2) * Period = n * Period + Period + Period
      /\ (n + 3) * Period = n * Period + Period + Period + Period
  OBVIOUS
<1> QED
  BY <1>1, <1>2, <1>3

LEMMA SlackPositive ==
    ASSUME InTime, TypeOK, TimingInv
    PROVE  NeverLapses
<1> USE DurationsAssumption DEF TypeOK, Ticks
<1>1. /\ fails * Period \in Nat
      /\ fails * Period <= MaxFails * Period
      /\ (fails + 1) * Period = fails * Period + Period
      /\ (fails + 2) * Period = fails * Period + Period + Period
      /\ (MaxFails + 1) * Period = MaxFails * Period + Period
      /\ MaxFails * Period \in Nat
  <2>1. MaxFails \in 0..MaxFails
    OBVIOUS
  <2> QED
    BY <2>1, RunsBounded
<1>2. SUFFICES ASSUME file = "ticket"
               PROVE  left > 0
  BY DEF NeverLapses
<1>3. Watchdog \in Task
  BY DEF Task
<1>4. CASE pc[Watchdog] = "idle"
  BY <1>1, <1>2, <1>4 DEF InTime, TimingInv, SlackKept, Slack
<1>5. CASE pc[Watchdog] = "calling"
  <2>1. patience[Watchdog] \in 0..CallTime
    BY <1>3
  <2>2. wait >= Period - CallTime
    BY <1>5, <2>1 DEF TimingInv, CallBeforeRun
  <2> QED
    BY <1>1, <1>2, <1>5, <2>2 DEF InTime, TimingInv, SlackKept, Slack
<1>6. CASE pc[Watchdog] \in {"opening", "writing"}
  BY <1>2, <1>6 DEF TimingInv, SlackKept
<1> QED
  BY <1>3, <1>4, <1>5, <1>6

LEMMA TimingStep ==
    ASSUME InTime, ~MayCrash, TypeOK, GrantsLast, TimingInv, [Next]_vars
    PROVE  TimingInv'
<1> USE NoApiIsWatchdog, DurationsAssumption DEF TypeOK, Ticks, TimingInv, NotStarted, CallBeforeRun
<1>1. Watchdog \in Task
  BY DEF Task
<1>2. /\ fails * Period \in Nat
      /\ (fails + 1) * Period = fails * Period + Period
      /\ (fails + 2) * Period = fails * Period + Period + Period
      /\ (fails + 3) * Period = fails * Period + Period + Period + Period
      /\ (0 + 1) * Period = Period
      /\ (0 + 2) * Period = Period + Period
  BY RunsBounded
<1>3. NeverLapses
  BY SlackPositive
<1>4. CASE StartService
  BY <1>4 DEF StartService, SlackKept
<1>5. CASE Tick
  <2>1. CASE ~up
    BY <1>5, <2>1 DEF Tick, SlackKept
  <2>2. CASE up
    <3>1. NotStarted' /\ CallBeforeRun'
      BY <1>1, <1>5, <2>2 DEF Tick
    <3>2. SlackKept'
      BY <1>1, <1>2, <1>3, <1>5, <2>2 DEF Tick, SlackKept, Slack, NeverLapses, Waiting
    <3> QED
      BY <3>1, <3>2
  <2> QED
    BY <2>1, <2>2
<1>6. CASE Crash \/ LoseFile
  BY <1>6 DEF Crash, LoseFile
<1>7. CASE MayRun(Watchdog) /\ RunWatchdog
  <2>1. CASE NeedsRenewal
    BY <1>1, <1>2, <1>7, <2>1 DEF MayRun, RunWatchdog, CallLogin, SlackKept, Slack
  <2>2. CASE ~NeedsRenewal
    BY <1>1, <1>2, <1>7, <2>2 DEF MayRun, RunWatchdog, NeedsRenewal, ExpiringSoon, SlackKept, Slack
  <2> QED
    BY <2>1, <2>2
<1>8. CASE MayRun(Watchdog) /\ SkipRun
  <2>1. pc[Watchdog] # "calling"
    BY <1>1, <1>8 DEF InTime, SkipRun
  <2> QED
    BY <1>1, <1>8, <2>1 DEF MayRun, SkipRun, SlackKept
<1>9. CASE MayRun(Watchdog) /\ MissRun
  BY <1>1, <1>2, <1>9 DEF MayRun, MissRun, SlackKept, Slack
<1>10. ASSUME NEW t \in Task, MayRun(t), RequestToken(t)
       PROVE  TimingInv'
  <2>1. t # Watchdog
    BY <1>10 DEF RequestToken
  <2> QED
    BY <1>1, <1>10, <2>1 DEF MayRun, RequestToken, CallLogin, SlackKept, Slack
<1>11. ASSUME NEW t \in Task, MayRun(t), Granted(t)
       PROVE  TimingInv'
  <2>1. CASE t = Watchdog
    BY <1>1, <1>3, <1>11, <2>1 DEF MayRun, Granted, SlackKept, NeverLapses
  <2>2. CASE t # Watchdog
    BY <1>1, <1>11, <2>2 DEF MayRun, Granted, SlackKept, Slack
  <2> QED
    BY <2>1, <2>2
<1>12. ASSUME NEW t \in Task, MayRun(t), LoginFails(t)
       PROVE  TimingInv'
  <2>1. CASE t = Watchdog
    BY <1>1, <1>2, <1>12, <2>1 DEF MayRun, LoginFails, SlackKept, Slack
  <2>2. CASE t # Watchdog
    BY <1>1, <1>12, <2>2 DEF MayRun, LoginFails, SlackKept, Slack
  <2> QED
    BY <2>1, <2>2
<1>13. ASSUME NEW t \in Task, MayRun(t), OpenFile(t)
       PROVE  TimingInv'
  BY <1>1, <1>13 DEF MayRun, OpenFile, SlackKept
<1>14. ASSUME NEW t \in Task, MayRun(t), WriteFile(t)
       PROVE  TimingInv'
  <2>1. /\ left' = grant[t] /\ wait' = wait /\ fails' = fails /\ up' = up /\ up
        /\ patience' = patience /\ pc' = [pc EXCEPT ![t] = "idle"]
    BY <1>14 DEF MayRun, WriteFile
  <2>2. left' > Margin
    BY <1>14, <2>1 DEF WriteFile, GrantsLast
  <2>3. NotStarted' /\ CallBeforeRun'
    BY <1>1, <2>1
  <2>4. SlackKept'
    BY <1>1, <1>2, <2>1, <2>2 DEF SlackKept, Slack
  <2> QED
    BY <2>3, <2>4
<1>15. CASE UNCHANGED vars
  BY <1>15 DEF vars, SlackKept, Slack
<1> QED
  BY <1>4, <1>5, <1>6, <1>7, <1>8, <1>9, <1>10, <1>11, <1>12, <1>13, <1>14, <1>15
     DEF Next, WatchdogDue, Renew

(* Once there is a ticket it never expires in the file, for any durations  *)
(* that are InTime and any number of requests that renew it too.           *)
THEOREM NeverLapsed ==
    ASSUME InTime, ~MayCrash
    PROVE  Spec => []NeverLapses
<1>1. Init => TimingInv
  BY DEF Init, TimingInv, NotStarted, CallBeforeRun, SlackKept, Task
<1>2. TypeOK /\ GrantsLast /\ TimingInv /\ [Next]_vars => TimingInv'
  BY TimingStep
<1>3. TypeOK /\ TimingInv => NeverLapses
  BY SlackPositive
<1>4. LongGrants
  BY DEF InTime
<1>5. Spec => []GrantsLast
  BY <1>4, GrantsOutlive
<1> QED
  BY <1>1, <1>2, <1>3, <1>5, TypesKept, PTL DEF Spec
=============================================================================
