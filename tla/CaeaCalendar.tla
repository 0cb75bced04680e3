---------------------------- MODULE CaeaCalendar ----------------------------
(***************************************************************************)
(* When AFRelay has the code of a fortnight.  AFIP grants a CAEA per       *)
(* fortnight, some days before it begins; until then it answers 15006 with *)
(* the day it will.  Every few hours bootstrap takes the date in Argentina *)
(* and queues the current and the next fortnight; the queue asks AFIP,     *)
(* puts a job off to the day of the answer, gives up after ten failures,   *)
(* and is given the job back by the next bootstrap.                        *)
(*                                                                         *)
(* One CUIT, one process that stays up.  Time goes in ticks longer than    *)
(* the pause between two attempts and than a run of the queue.             *)
(***************************************************************************)
EXTENDS Integers, Sequences

CONSTANTS
    Start,       \* bound: dates in Argentina at which the service is started
    MaxTicks,    \* bound: how long it is watched
    Day,         \* ticks in a day
    Offset,      \* ticks Argentina is behind UTC
    Period,      \* ticks between two runs of bootstrap
    Lead,        \* days AFIP opens before a fortnight begins
    MaxOutage,   \* bound: ticks in which every call fails, one after another
    MaxMissed    \* bound: runs of bootstrap dropped, one after another

Leap(y) == y % 4 = 0 /\ (y % 100 # 0 \/ y % 400 = 0)
DaysIn(y, m) ==
    IF m \in {4, 6, 9, 11} THEN 30
    ELSE IF m # 2 THEN 31
    ELSE IF Leap(y) THEN 29 ELSE 28
Date == {d \in [year : Nat, month : 1..12, day : 1..31, tick : 0..(Day - 1)] :
             d.day <= DaysIn(d.year, d.month)}

ASSUME DatesAssumption == Day \in Nat \ {0} /\ Offset \in 0..Day /\ Start \subseteq Date
ASSUME BoundsAssumption ==
    /\ MaxTicks \in Nat /\ Period \in Nat \ {0} /\ Lead \in Nat
    /\ MaxOutage \in Nat /\ MaxMissed \in Nat

VARIABLES
    ar,          \* date and time in Argentina
    utc,         \* datetime.now(timezone.utc)
    age,         \* ticks since the service was started
    wait,        \* ticks until bootstrap is due
    missed,      \* its runs dropped in a row
    job,         \* the solicitar jobs there are
    down,        \* ticks of the outage, 0 when calls go through
    calm         \* ticks since the last outage, as far as they matter
vars == <<ar, utc, age, wait, missed, job, down, calm>>

Cycle == {c \in Nat \X {1, 2} : c[1] % 100 \in 1..12}   \* periodo, orden
(* tried: failed in this tick and put off by less than one; later: put off *)
(* to the day AFIP named.                                                  *)
JobState == {"due", "tried", "later", "failed", "done"}

(* How long calls must go through for a run of bootstrap to fall there. *)
Recovery == (MaxMissed + 1) * Period
Slack == MaxOutage + Recovery

TypeOK ==
    /\ ar \in Date /\ utc \in Date
    /\ age \in 0..MaxTicks
    /\ wait \in 0..Period
    /\ missed \in 0..MaxMissed
    /\ DOMAIN job \subseteq Cycle /\ job \in [DOMAIN job -> JobState]
    /\ down \in 0..MaxOutage
    /\ calm \in 0..Recovery

-----------------------------------------------------------------------------
(* The calendar. *)
At(y, m, n, k) == [year |-> y, month |-> m, day |-> n, tick |-> k]
NextDay(d) ==
    IF d.day < DaysIn(d.year, d.month) THEN At(d.year, d.month, d.day + 1, d.tick)
    ELSE IF d.month < 12 THEN At(d.year, d.month + 1, 1, d.tick)
    ELSE At(d.year + 1, 1, 1, d.tick)
PreviousDay(d) ==
    IF d.day > 1 THEN At(d.year, d.month, d.day - 1, d.tick)
    ELSE IF d.month > 1 THEN At(d.year, d.month - 1, DaysIn(d.year, d.month - 1), d.tick)
    ELSE At(d.year - 1, 12, 31, d.tick)

Later(d, n) ==
    IF d.tick + n < Day THEN [d EXCEPT !.tick = @ + n]
                        ELSE [NextDay(d) EXCEPT !.tick = d.tick + n - Day]

(* Fortnights numbered in their order, what the window is measured by. *)
Fortnight(d) == 2 * (12 * d.year + d.month - 1) + (IF d.day <= 15 THEN 0 ELSE 1)
CycleOf(f) == <<100 * (f \div 24) + ((f % 24) \div 2) + 1, (f % 2) + 1>>

-----------------------------------------------------------------------------
(* now.astimezone(AR_TZ) *)
KeepUtc(d) == d                     \* mutant: the date in UTC
AsTimezoneAr(d) ==
    IF d.tick >= Offset THEN [d EXCEPT !.tick = @ - Offset]
                        ELSE [PreviousDay(d) EXCEPT !.tick = d.tick - Offset + Day]

MonthOnly(y, m) == <<y, m + 1>>     \* mutant: December is not seen to
MonthRoll(y, m) == IF m = 12 THEN <<y + 1, 1>> ELSE <<y, m + 1>>

(* resolve_current_and_next_cycles *)
ResolveCycles(now) ==
    LET actual  == AsTimezoneAr(now)
        periodo == actual.year * 100 + actual.month
        next    == MonthRoll(actual.year, actual.month)
    IN  IF actual.day <= 15 THEN <<<<periodo, 1>>, <<periodo, 2>>>>
                            ELSE <<<<periodo, 2>>, <<next[1] * 100 + next[2], 1>>>>
Window == {ResolveCycles(utc)[i] : i \in 1..2}

(* active_caea: whether the fortnights of the window have their code. *)
ActiveCaea(c) == c \in DOMAIN job /\ job[c] = "done"

-----------------------------------------------------------------------------
Init ==
    /\ ar \in Start /\ utc = Later(ar, Offset)
    /\ age = 0
    /\ wait = 0 /\ missed = 0
    /\ job = [c \in {} |-> "due"]
    /\ \/ down = 0 /\ calm = Recovery
       \/ down = 1 /\ calm = 0 /\ MaxOutage > 0

(* bootstrap_cuit_cycles for the window: a fortnight without a job gets    *)
(* one, and a failed job is queued again.                                  *)
NewOnly(c) == c \notin DOMAIN job   \* mutant: add_outbox_job leaves a failed job
ToQueue(c) == c \notin DOMAIN job \/ job[c] = "failed"
EnsureCycles ==
    job' = [c \in DOMAIN job \cup Window |->
                IF c \in Window /\ ToQueue(c) THEN "due" ELSE job[c]]

(* At startup, then every six hours.  Its own run of the queue is one of   *)
(* those that Attempt is part of.                                          *)
Bootstrap ==
    /\ wait = 0
    /\ EnsureCycles
    /\ wait' = Period /\ missed' = 0
    /\ UNCHANGED <<ar, utc, age, down, calm>>

(* The loop is blocked when the run is due, and the scheduler drops it. *)
MissBootstrap ==
    /\ wait = 0 /\ age > 0 /\ missed < MaxMissed
    /\ wait' = Period /\ missed' = missed + 1
    /\ UNCHANGED <<ar, utc, age, job, down, calm>>

(* AFIP opens a fortnight Lead days before it begins. *)
DaysLeft == (IF ar.day <= 15 THEN 15 ELSE DaysIn(ar.year, ar.month)) + 1 - ar.day
Open(c) ==
    \/ \E f \in {Fortnight(ar) - 1, Fortnight(ar)} : c = CycleOf(f)
    \/ c = CycleOf(Fortnight(ar) + 1) /\ DaysLeft <= Lead

(* fetch_due_outbox_jobs.  A job put off comes due at 00:05 of its day. *)
Due(c) == job[c] = "due" \/ (job[c] = "later" /\ Open(c))

(* A job's turn in a run of the queue, of which there is one a minute: the *)
(* call fails, or AFIP puts it off, either of which may be the tenth time; *)
(* or it grants the code.                                                  *)
Outcome(c) ==
    IF down > 0 THEN {"tried", "failed"}
    ELSE IF Open(c) THEN {"done"}
    ELSE {"later", "failed"}
Attempt(c) ==
    /\ c \in DOMAIN job /\ Due(c)
    /\ \E o \in Outcome(c) : job' = [job EXCEPT ![c] = o]
    /\ UNCHANGED <<ar, utc, age, wait, missed, down, calm>>

(* An outage goes on for at most MaxOutage ticks, and then none begins     *)
(* before a run of bootstrap has fallen after it.                          *)
Calls ==
    \/ down = 0 /\ down' = 0 /\ calm' = IF calm < Recovery THEN calm + 1 ELSE calm
    \/ down = 0 /\ calm = Recovery /\ MaxOutage > 0 /\ down' = 1 /\ calm' = 0
    \/ down \in 1..(MaxOutage - 1) /\ down' = down + 1 /\ UNCHANGED calm
    \/ down > 0 /\ down' = 0 /\ calm' = 1

(* Time passes when everything that is due has been done. *)
Tick ==
    /\ age < MaxTicks /\ wait > 0
    /\ \A c \in DOMAIN job : ~Due(c)
    /\ ar' = Later(ar, 1) /\ utc' = Later(utc, 1)
    /\ age' = age + 1 /\ wait' = wait - 1
    /\ job' = [c \in DOMAIN job |-> IF job[c] = "tried" THEN "due" ELSE job[c]]
    /\ Calls
    /\ UNCHANGED missed

Next ==
    \/ Bootstrap \/ MissBootstrap \/ Tick
    \/ \E c \in DOMAIN job : Attempt(c)

Spec == Init /\ [][Next]_vars

-----------------------------------------------------------------------------
(* The clock in UTC and the date in Argentina are Offset apart. *)
Synchronous == utc = Later(ar, Offset)

(* What bootstrap ensures and /wsfe/caea/queue/active reports are the      *)
(* fortnight that Argentina is in and the one that follows it, on every    *)
(* day of every year and at every hour in UTC.                             *)
WindowExact ==
    ResolveCycles(utc) = <<CycleOf(Fortnight(ar)), CycleOf(Fortnight(ar) + 1)>>

(* Once the service has been up for Slack ticks, the current fortnight has *)
(* its code, from its first tick on: although AFIP refuses it until a few  *)
(* days before, calls fail for MaxOutage ticks on end, jobs give up, and   *)
(* MaxMissed runs of bootstrap are dropped.                                *)
CodeInTime == age >= Slack => ActiveCaea(CycleOf(Fortnight(ar)))
=============================================================================
