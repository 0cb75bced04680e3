---------------------------- MODULE TokenRenewal ----------------------------
(***************************************************************************)
(* One access ticket of AFRelay (WSFE's or WSPCI's; the code is the same): *)
(* the file loginTicketResponse.xml, the watchdog that renews the ticket   *)
(* before it expires (run_job, run_wspci_job), the requests that renew it  *)
(* at once (POST /wsaa/token, /wspci/token), and a service that dies and   *)
(* is started again.  One process, as the Docker image runs it.            *)
(*                                                                         *)
(* Time is discrete and every duration a number of ticks.  The variables   *)
(* count down to what they wait for, so the model needs no clock.          *)
(***************************************************************************)
EXTENDS Integers

CONSTANTS
    Watchdog,    \* the scheduler's job
    Api,         \* HTTP handlers that renew the ticket
    Period,      \* AFIP_TOKEN_WATCHDOG_MINUTES
    Margin,      \* WSFE_TOKEN_RENEW_BEFORE_MINUTES
    Lifetime,    \* how long AFIP grants a ticket for
    CallTime,    \* the longest a call to WSAA takes: NTP and httpx timeouts
    MaxFails,    \* bound: runs of the watchdog that fail or are missed in a row
    MayCrash     \* whether the process is ever killed

Task == {Watchdog} \cup Api

ASSUME NoApiIsWatchdog == Watchdog \notin Api
ASSUME DurationsAssumption ==
    /\ Period \in Nat \ {0} /\ CallTime \in Nat \ {0}
    /\ Margin \in Nat /\ Lifetime \in Nat /\ MaxFails \in Nat
    /\ CallTime < Lifetime
ASSUME CrashAssumption == MayCrash \in BOOLEAN

VARIABLES
    file,        \* the response file
    left,        \* ticks until the ticket in the file expires
    up,          \* the process runs and has started its scheduler
    wait,        \* ticks until the watchdog is due
    pc,          \* where each renewal is
    patience,    \* ticks until its call times out
    grant,       \* ticks until the ticket it was answered with expires
    fails        \* runs of the watchdog lost since one was of use
vars == <<file, left, up, wait, pc, patience, grant, fails>>

File == {"missing", "torn", "ticket"}
Ticks == 0..Lifetime

TypeOK ==
    /\ file \in File
    /\ left \in Ticks
    /\ up \in BOOLEAN
    /\ wait \in 0..Period
    /\ pc \in [Task -> {"idle", "calling", "opening", "writing"}]
    /\ patience \in [Task -> 0..CallTime]
    /\ grant \in [Task -> Ticks]
    /\ fails \in 0..MaxFails

Init ==
    /\ file = "missing" /\ left = 0
    /\ up = FALSE /\ wait = 0
    /\ pc = [t \in Task |-> "idle"]
    /\ patience = [t \in Task |-> 0]
    /\ grant = [t \in Task |-> 0]
    /\ fails = 0

Valid == file = "ticket" /\ left > 0

-----------------------------------------------------------------------------
(* The event loop: a renewal is left alone while it writes. *)
Waiting(t) == pc[t] \in {"idle", "calling"}
MayRun(t) == up /\ \A u \in Task \ {t} : Waiting(u)

(* The scheduler is started, its first run due at once. *)
StartService ==
    /\ ~up
    /\ up' = TRUE /\ wait' = 0
    /\ UNCHANGED <<file, left, pc, patience, grant, fails>>

(* generate_afip_access_token up to its await: build, save and sign the    *)
(* request, call loginCms.                                                 *)
CallLoginTwice(t) ==                \* mutant: the timeout of a second attempt
    /\ pc' = [pc EXCEPT ![t] = "calling"]
    /\ patience' = [patience EXCEPT ![t] = 2 * CallTime]
CallLogin(t) ==
    /\ pc' = [pc EXCEPT ![t] = "calling"]
    /\ patience' = [patience EXCEPT ![t] = CallTime]

(* xml_exists, and is_expiring_soon of a file that parses *)
ExpiringSoonLate == file = "ticket" /\ left <= Margin - Period   \* mutant: next run will do
ExpiringSoon == file = "ticket" /\ left <= Margin
NeedsRenewalIfThere == ExpiringSoon \* mutant: a missing file is nothing to renew
NeedsRenewal == file = "missing" \/ ExpiringSoon

(* run_job.  A file that does not parse makes is_expiring_soon raise: the  *)
(* run ends and the scheduler waits for the next one.                      *)
RunWatchdog ==
    /\ pc[Watchdog] = "idle" /\ wait = 0
    /\ wait' = Period
    /\ IF NeedsRenewal THEN CallLogin(Watchdog) /\ UNCHANGED fails
                       ELSE fails' = 0 /\ UNCHANGED <<pc, patience>>
    /\ UNCHANGED <<file, left, up, grant>>

(* max_instances=1: a run that comes due while the last one still works. *)
SkipRun ==
    /\ pc[Watchdog] # "idle" /\ wait = 0
    /\ wait' = Period
    /\ UNCHANGED <<file, left, up, pc, patience, grant, fails>>

(* The loop is blocked (by NTP, SQLite, another job) when the run is due.  *)
(* The jobs have no misfire_grace_time, so APScheduler drops a run that is *)
(* more than a second late.                                                *)
MissRun ==
    /\ pc[Watchdog] = "idle" /\ wait = 0
    /\ wait' = Period
    /\ fails < MaxFails /\ fails' = fails + 1
    /\ UNCHANGED <<file, left, up, pc, patience, grant>>

RequestToken(t) ==
    /\ t \in Api /\ pc[t] = "idle"
    /\ CallLogin(t)
    /\ UNCHANGED <<file, left, up, wait, grant, fails>>

(* AFIP granted the ticket at some moment of the call. *)
Granted(t) ==
    /\ pc[t] = "calling"
    /\ \E age \in 0..(CallTime - patience[t]) :
            grant' = [grant EXCEPT ![t] = Lifetime - age]
    /\ pc' = [pc EXCEPT ![t] = "opening"]
    /\ fails' = IF t = Watchdog THEN 0 ELSE fails
    /\ UNCHANGED <<file, left, up, wait, patience>>

(* A fault, a timeout, a request without times (NTP gave none), a reply    *)
(* that does not parse, a certificate that is not there.                   *)
LoginFails(t) ==
    /\ pc[t] = "calling"
    /\ IF t = Watchdog THEN fails < MaxFails /\ fails' = fails + 1 ELSE UNCHANGED fails
    /\ pc' = [pc EXCEPT ![t] = "idle"]
    /\ UNCHANGED <<file, left, up, wait, patience, grant>>

(* save_xml opens the file, which truncates it, and writes it out. *)
OpenFile(t) ==
    /\ pc[t] = "opening"
    /\ file' = "torn"
    /\ pc' = [pc EXCEPT ![t] = "writing"]
    /\ UNCHANGED <<left, up, wait, patience, grant, fails>>
WriteRequestTimes(t) ==             \* mutant: saves the ten minutes the request asked for
    /\ pc[t] = "writing"
    /\ file' = "ticket" /\ left' = 10
    /\ pc' = [pc EXCEPT ![t] = "idle"]
    /\ grant' = [grant EXCEPT ![t] = 0]
    /\ UNCHANGED <<up, wait, patience, fails>>
WriteFile(t) ==
    /\ pc[t] = "writing"
    /\ file' = "ticket" /\ left' = grant[t]
    /\ pc' = [pc EXCEPT ![t] = "idle"]
    /\ grant' = [grant EXCEPT ![t] = 0]
    /\ UNCHANGED <<up, wait, patience, fails>>

(* Time passes while nothing is due: a run starts when its wait is over,   *)
(* a call ends when its patience is, and a write takes no time.            *)
Tick ==
    /\ up => wait > 0
    /\ \A t \in Task : Waiting(t) /\ (pc[t] = "calling" => patience[t] > 0)
    /\ left' = IF left > 0 THEN left - 1 ELSE 0
    /\ wait' = IF up THEN wait - 1 ELSE 0
    /\ patience' = [t \in Task |-> IF pc[t] = "calling" THEN patience[t] - 1 ELSE 0]
    /\ UNCHANGED <<file, up, pc, grant, fails>>

(* The process dies between two steps; the file stays as it is. *)
Crash ==
    /\ MayCrash /\ up
    /\ up' = FALSE /\ wait' = 0
    /\ pc' = [t \in Task |-> "idle"]
    /\ patience' = [t \in Task |-> 0]
    /\ grant' = [t \in Task |-> 0]
    /\ fails' = 0
    /\ UNCHANGED <<file, left>>

(* The container comes up without its volume, or somebody cleans up. *)
LoseFile ==
    /\ MayCrash /\ ~up
    /\ file' = "missing" /\ left' = 0
    /\ UNCHANGED <<up, wait, pc, patience, grant, fails>>

-----------------------------------------------------------------------------
WatchdogDue == RunWatchdog \/ SkipRun \/ MissRun
Renew(t) == Granted(t) \/ LoginFails(t) \/ OpenFile(t) \/ WriteFile(t)
Next ==
    \/ StartService \/ Tick \/ Crash \/ LoseFile
    \/ MayRun(Watchdog) /\ WatchdogDue
    \/ \E t \in Task : MayRun(t) /\ (RequestToken(t) \/ Renew(t))

Spec == Init /\ [][Next]_vars

(* The process is restarted, the scheduler and the event loop run what is  *)
(* due, every call ends, time passes.                                      *)
Fairness ==
    /\ WF_vars(StartService) /\ WF_vars(Tick)
    /\ WF_vars(MayRun(Watchdog) /\ WatchdogDue)
    /\ \A t \in Task : WF_vars(MayRun(t) /\ Renew(t))
FairSpec == Spec /\ Fairness

-----------------------------------------------------------------------------
(* Once there is a ticket it never expires in the file: the watchdog gets  *)
(* a new one in time although MaxFails of its runs in a row may fail or be *)
(* missed, calls take their time, and requests renew it as they like.      *)
NeverLapses == file = "ticket" => left > 0

(* What a renewal writes is never closer to its expiry than what makes the *)
(* next run renew it again, whichever of two overlapping renewals is last. *)
SavedIsFresh == [][\A t \in Task : WriteFile(t) => left' > Margin]_vars

(* What a request that reads the ticket finds: no request runs while a     *)
(* renewal writes the file.                                                *)
Served == Valid \/ \E t \in Task : pc[t] = "writing"

(* If the service stays up from some time on, requests find a valid ticket *)
(* from some time on: the README's promise for a restart.                  *)
TicketKept == <>[]up => <>[]Served

(* The same unless a crash in the middle of a write left a torn file:      *)
(* a missing or expired ticket, and a renewal cut short elsewhere, are     *)
(* recovered.                                                              *)
KeptUnlessTorn == <>[]up => (<>[]Served \/ <>[](file = "torn"))
=============================================================================
