----------------------------- MODULE CaeaOutbox -----------------------------
(***************************************************************************)
(* The CAEA resilience queue of AFRelay: the SQLite tables caea_cycle,     *)
(* caea_invoice and afip_outbox, the coroutines that fill and drain the    *)
(* queue (the scheduled outbox and bootstrap jobs and the HTTP handlers),  *)
(* and AFIP, which they call over SOAP.                                    *)
(*                                                                         *)
(* One action is one SQL statement (get_connection opens the database in   *)
(* autocommit mode), so a crash can fall between any two of them.  Within  *)
(* one worker process the coroutines share an event loop and give it up    *)
(* only while they await AFIP: MayRun states that.  Statements of          *)
(* different processes interleave freely.                                  *)
(***************************************************************************)
EXTENDS Integers, FiniteSets

CONSTANTS
    Cycle,        \* rows of caea_cycle (cuit, periodo, orden): the window bootstrap keeps
    Invoice,      \* rows of caea_invoice: the numbers that can be issued
    CycleOf,      \* the cycle under whose code an invoice is issued
    OutboxTask,   \* run_caea_outbox_job, every minute
    BootTask,     \* bootstrap_caea_cycles_once: at startup and every 6 hours
    ApiTask,      \* POST queue/solicitar, queue/issue-local and queue/retry
    Process,      \* gunicorn worker processes
    ProcOf,       \* the process a coroutine lives in
    Limit,        \* the row limit a run passes to fetch_due_outbox_jobs
    MaxAttempts,  \* 10 in the code
    NoJob,        \* the job of a coroutine that has none
    MayCrash,     \* whether processes are killed (deploy, OOM, shutdown)
    DbMayFail     \* whether a statement can raise (locked, disk full)

Job  == Cycle \cup Invoice      \* a job is identified with the row it is for
Task == OutboxTask \cup BootTask \cup ApiTask

ASSUME RowsAssumption ==
    /\ IsFiniteSet(Cycle) /\ IsFiniteSet(Invoice)
    /\ Cycle \cap Invoice = {}
    /\ NoJob \notin Job
    /\ CycleOf \in [Invoice -> Cycle]
ASSUME TaskAssumption ==
    /\ OutboxTask \cap BootTask = {}
    /\ ApiTask \cap (OutboxTask \cup BootTask) = {}
    /\ ProcOf \in [Task -> Process]
    /\ Limit \in [Task -> Nat \ {0}]
ASSUME MaxAttemptsAssumption == MaxAttempts \in Nat \ {0}
ASSUME FaultAssumption == MayCrash \in BOOLEAN /\ DbMayFail \in BOOLEAN

VARIABLES
    cycleStatus, hasCode,          \* caea_cycle: status; caea_code IS NOT NULL
    invoiceStatus,                 \* caea_invoice: status
    status, attempts, due, rowid,  \* afip_outbox; due: next_retry_at <= now
    pc, cur, todo, seen, deferred, \* locals of each coroutine
    ready,                         \* processes whose lifespan startup is over
    granted,                       \* the jobs AFIP has answered with success
    healthy                        \* AFIP answers every call well from now on

cycleTable == <<cycleStatus, hasCode>>
outbox     == <<status, attempts, due, rowid>>
locals     == <<pc, cur, todo, seen, deferred>>
afip       == <<granted, healthy>>
vars == <<cycleTable, invoiceStatus, outbox, locals, ready, afip>>

CycleStatus   == {"absent", "requested", "active", "error"}
InvoiceStatus == {"absent", "issued_local", "informed", "error"}
JobStatus == {"none", "pending", "processing", "retrying", "done", "failed"}
Label == {"idle", "ensuring", "issuing", "inserting", "selecting", "requeueing",
          "looping", "calling", "applying", "closing", "failing", "blaming"}
Nothing == [j \in Job |-> 0]

TableTypes ==
    /\ cycleStatus \in [Cycle -> CycleStatus]
    /\ hasCode \in [Cycle -> BOOLEAN]
    /\ invoiceStatus \in [Invoice -> InvoiceStatus]
QueueTypes ==
    /\ status \in [Job -> JobStatus]
    /\ attempts \in [Job -> Nat]
    /\ due \in [Job -> BOOLEAN]
    /\ rowid \in [Job -> Nat]
LocalTypes ==
    /\ pc \in [Task -> Label]
    /\ cur \in [Task -> Job \cup {NoJob}]
    /\ todo \in [Task -> SUBSET Job]
    /\ seen \in [Task -> [Job -> Nat]]
    /\ deferred \in [Task -> BOOLEAN]
    /\ ready \in SUBSET Process
    /\ granted \in SUBSET Job
    /\ healthy \in BOOLEAN
TypeOK == TableTypes /\ QueueTypes /\ LocalTypes

(* An empty database, no process has finished its startup. *)
Init ==
    /\ cycleStatus = [c \in Cycle |-> "absent"]
    /\ hasCode = [c \in Cycle |-> FALSE]
    /\ invoiceStatus = [v \in Invoice |-> "absent"]
    /\ status = [j \in Job |-> "none"]
    /\ attempts = Nothing
    /\ due = [j \in Job |-> FALSE]
    /\ rowid = Nothing
    /\ pc = [t \in Task |-> "idle"]
    /\ cur = [t \in Task |-> NoJob]
    /\ todo = [t \in Task |-> {}]
    /\ seen = [t \in Task |-> Nothing]
    /\ deferred = [t \in Task |-> FALSE]
    /\ ready = {}
    /\ granted = {}
    /\ healthy = FALSE

-----------------------------------------------------------------------------
(* The event loop of a process: a coroutine may take a step only while     *)
(* every other one of its process is not running or awaits AFIP.           *)
Suspended(t) == pc[t] \in {"idle", "calling"}
MayRun(t) == \A u \in Task \ {t} : ProcOf[u] = ProcOf[t] => Suspended(u)

Goto(t, label) == pc' = [pc EXCEPT ![t] = label]
Reset(t) ==                         \* the coroutine returns or raises
    /\ Goto(t, "idle")
    /\ cur' = [cur EXCEPT ![t] = NoJob]
    /\ todo' = [todo EXCEPT ![t] = {}]
    /\ seen' = [seen EXCEPT ![t] = Nothing]
    /\ deferred' = [deferred EXCEPT ![t] = FALSE]
Advance(t, label) ==                \* the coroutine is through with cur[t]
    /\ Goto(t, label)
    /\ cur' = [cur EXCEPT ![t] = NoJob]
    /\ seen' = [seen EXCEPT ![t][cur[t]] = 0]
    /\ deferred' = [deferred EXCEPT ![t] = FALSE]
    /\ UNCHANGED todo

-----------------------------------------------------------------------------
(* Filling the queue. *)

IsActive(c) == cycleStatus[c] = "active" /\ hasCode[c]
CreateCycle(c) ==                   \* INSERT OR IGNORE
    /\ cycleStatus' = IF cycleStatus[c] = "absent"
                      THEN [cycleStatus EXCEPT ![c] = "requested"] ELSE cycleStatus
    /\ UNCHANGED hasCode

(* bootstrap_caea_cycles_once: normalise, then ensure each cycle of the window. *)
StartBootstrap(t) ==
    /\ t \in BootTask /\ pc[t] = "idle"
    /\ cycleStatus' = [c \in Cycle |-> IF cycleStatus[c] = "active" /\ ~hasCode[c]
                                       THEN "requested" ELSE cycleStatus[c]]
    /\ Goto(t, "ensuring")
    /\ todo' = [todo EXCEPT ![t] = Cycle]
    /\ UNCHANGED <<hasCode, invoiceStatus, outbox, cur, seen, deferred, ready, afip>>

EnsureCycleOnce(t) ==               \* mutant: a cycle already in the table is skipped
    /\ pc[t] = "ensuring"
    /\ \E c \in todo[t] \cap Cycle :
        /\ CreateCycle(c)
        /\ todo' = [todo EXCEPT ![t] = @ \ {c}]
        /\ IF cycleStatus[c] # "absent" THEN UNCHANGED <<pc, cur>>
           ELSE Goto(t, "inserting") /\ cur' = [cur EXCEPT ![t] = c]
    /\ UNCHANGED <<invoiceStatus, outbox, seen, deferred, ready, afip>>

EnsureCycle(t) ==
    /\ pc[t] = "ensuring"
    /\ \E c \in todo[t] \cap Cycle :
        /\ CreateCycle(c)
        /\ todo' = [todo EXCEPT ![t] = @ \ {c}]
        /\ IF IsActive(c) THEN UNCHANGED <<pc, cur>>
           ELSE Goto(t, "inserting") /\ cur' = [cur EXCEPT ![t] = c]
    /\ UNCHANGED <<invoiceStatus, outbox, seen, deferred, ready, afip>>

QueueSolicitar(t, c) ==
    /\ t \in ApiTask /\ pc[t] = "idle" /\ ProcOf[t] \in ready
    /\ CreateCycle(c)
    /\ Goto(t, "inserting")
    /\ cur' = [cur EXCEPT ![t] = c]
    /\ UNCHANGED <<invoiceStatus, outbox, todo, seen, deferred, ready, afip>>

IssueLocalAnyway(t, v) ==           \* mutant: without the 409 guard
    /\ t \in ApiTask /\ pc[t] = "idle" /\ ProcOf[t] \in ready
    /\ cycleStatus[CycleOf[v]] # "absent"
    /\ invoiceStatus[v] = "absent"
    /\ Goto(t, "issuing")
    /\ cur' = [cur EXCEPT ![t] = v]
    /\ UNCHANGED <<cycleTable, invoiceStatus, outbox, todo, seen, deferred, ready, afip>>

(* queue_issue_local_invoice: the 409 guard, and a number not yet in the table. *)
IssueLocal(t, v) ==
    /\ t \in ApiTask /\ pc[t] = "idle" /\ ProcOf[t] \in ready
    /\ IsActive(CycleOf[v])
    /\ invoiceStatus[v] = "absent"
    /\ Goto(t, "issuing")
    /\ cur' = [cur EXCEPT ![t] = v]
    /\ UNCHANGED <<cycleTable, invoiceStatus, outbox, todo, seen, deferred, ready, afip>>

CreateInvoiceOnly(t) ==             \* mutant: the handler returns without a job
    /\ pc[t] = "issuing"
    /\ invoiceStatus' = [invoiceStatus EXCEPT ![cur[t]] = "issued_local"]
    /\ Reset(t)
    /\ UNCHANGED <<cycleTable, outbox, ready, afip>>

CreateLocalInvoice(t) ==            \* the UNIQUE index refuses a number taken meanwhile
    /\ pc[t] = "issuing"
    /\ IF invoiceStatus[cur[t]] = "absent"
       THEN /\ invoiceStatus' = [invoiceStatus EXCEPT ![cur[t]] = "issued_local"]
            /\ Goto(t, "inserting")
            /\ UNCHANGED <<cur, todo, seen, deferred>>
       ELSE Reset(t) /\ UNCHANGED invoiceStatus
    /\ UNCHANGED <<cycleTable, outbox, ready, afip>>

(* add_outbox_job: INSERT (a duplicate key is ignored), SELECT, and the    *)
(* UPDATE that queues a failed job again.  Any other row is left as it is. *)
AfterEnqueue(t) == IF t \in BootTask THEN "ensuring" ELSE "idle"
Rows == {j \in Job : status[j] # "none"}

InsertJob(t) ==
    /\ pc[t] = "inserting"
    /\ LET j == cur[t] IN
       IF status[j] = "none"
       THEN /\ status' = [status EXCEPT ![j] = "pending"]
            /\ due' = [due EXCEPT ![j] = TRUE]
            /\ attempts' = [attempts EXCEPT ![j] = 0]
            /\ rowid' = [rowid EXCEPT ![j] = Cardinality(Rows) + 1]
       ELSE UNCHANGED outbox
    /\ Goto(t, "selecting")
    /\ UNCHANGED <<cycleTable, invoiceStatus, cur, todo, seen, deferred, ready, afip>>

SelectNeverRequeues(t) ==           \* mutant: a failed job stays failed
    /\ pc[t] = "selecting"
    /\ Advance(t, AfterEnqueue(t))
    /\ UNCHANGED <<cycleTable, invoiceStatus, outbox, ready, afip>>

SelectJob(t) ==
    /\ pc[t] = "selecting"
    /\ IF status[cur[t]] = "failed"
       THEN Goto(t, "requeueing") /\ UNCHANGED <<cur, seen, deferred, todo>>
       ELSE Advance(t, AfterEnqueue(t))
    /\ UNCHANGED <<cycleTable, invoiceStatus, outbox, ready, afip>>

RequeueJob(t) ==
    /\ pc[t] = "requeueing"
    /\ status' = [status EXCEPT ![cur[t]] = "pending"]
    /\ attempts' = [attempts EXCEPT ![cur[t]] = 0]
    /\ due' = [due EXCEPT ![cur[t]] = TRUE]
    /\ Advance(t, AfterEnqueue(t))
    /\ UNCHANGED <<cycleTable, invoiceStatus, rowid, ready, afip>>

-----------------------------------------------------------------------------
(* Draining the queue: process_pending_outbox_jobs. *)

DueAnyStatus == {j \in Job : status[j] \notin {"none", "processing"} /\ due[j]} \* mutant
Due == {j \in Job : status[j] \in {"pending", "retrying"} /\ due[j]}
Oldest(S, n) == {j \in S : Cardinality({k \in S : rowid[k] < rowid[j]}) < n}

(* fetch_due_outbox_jobs: the rows are copied, attempts included, and the  *)
(* run works from the copy until it ends.                                  *)
Fetch(t) ==
    /\ LET batch == Oldest(Due, Limit[t]) IN
        /\ todo' = [todo EXCEPT ![t] = batch]
        /\ seen' = [seen EXCEPT ![t] = [j \in Job |-> IF j \in batch THEN attempts[j] ELSE 0]]
    /\ Goto(t, "looping")
    /\ UNCHANGED <<cycleTable, invoiceStatus, outbox, cur, deferred, ready, afip>>

RunOutboxJob(t) ==
    /\ t \in OutboxTask /\ pc[t] = "idle" /\ ProcOf[t] \in ready
    /\ Fetch(t)
RetryOutbox(t) ==                   \* the HTTP endpoints
    /\ t \in ApiTask /\ pc[t] = "idle" /\ ProcOf[t] \in ready
    /\ Fetch(t)
RunBootstrapped(t) ==               \* every cycle of the window is ensured
    /\ t \in BootTask /\ pc[t] = "ensuring" /\ todo[t] = {}
    /\ Fetch(t)

(* mark_outbox_processing, whatever the row holds by now, then the call. *)
Claim(t) ==
    /\ pc[t] = "looping"
    /\ \E j \in Oldest(todo[t], 1) :
        /\ status' = [status EXCEPT ![j] = "processing"]
        /\ cur' = [cur EXCEPT ![t] = j]
        /\ todo' = [todo EXCEPT ![t] = @ \ {j}]
    /\ Goto(t, "calling")
    /\ UNCHANGED <<cycleTable, invoiceStatus, attempts, due, rowid, seen, deferred, ready, afip>>

(* The run returns; the one the lifespan awaits completes the startup. *)
EndRun(t) ==
    /\ pc[t] = "looping" /\ todo[t] = {}
    /\ Reset(t)
    /\ ready' = IF t \in BootTask THEN ready \cup {ProcOf[t]} ELSE ready
    /\ UNCHANGED <<cycleTable, invoiceStatus, outbox, afip>>

(* What a call returns: a CAEA or an accepted movement; error 15006 with   *)
(* the date the window opens; any other error in the body of an answer;    *)
(* or no usable answer at all (fault, timeout, connection, no token), in   *)
(* which case nothing here can tell whether AFIP carried the request out.  *)
Reply == {"success", "deferred", "rejected", "failure"}
GoodIfAnswered(j, r) == r # "failure"   \* mutant: errors in the body are not looked at
Good(j, r) == IF j \in Cycle THEN r = "success" ELSE r # "failure"

Answer(t) ==
    /\ pc[t] = "calling"
    /\ \E r \in Reply :
        /\ healthy => r = "success"
        /\ granted' = IF r = "success" THEN granted \cup {cur[t]} ELSE granted
        /\ Goto(t, IF Good(cur[t], r) THEN "applying" ELSE "failing")
        /\ deferred' = [deferred EXCEPT ![t] = (cur[t] \in Cycle /\ r = "deferred")]
    /\ UNCHANGED <<cycleTable, invoiceStatus, outbox, cur, todo, seen, ready, healthy>>

(* update_cycle_from_afip, mark_invoice_informed *)
Apply(t) ==
    /\ pc[t] = "applying"
    /\ IF cur[t] \in Cycle
       THEN /\ cycleStatus' = [cycleStatus EXCEPT ![cur[t]] = "active"]
            /\ hasCode' = [hasCode EXCEPT ![cur[t]] = TRUE]
            /\ UNCHANGED invoiceStatus
       ELSE /\ invoiceStatus' = [invoiceStatus EXCEPT ![cur[t]] = "informed"]
            /\ UNCHANGED cycleTable
    /\ Goto(t, "closing")
    /\ UNCHANGED <<outbox, cur, todo, seen, deferred, ready, afip>>

MarkDone(t) ==
    /\ pc[t] = "closing"
    /\ status' = [status EXCEPT ![cur[t]] = "done"]
    /\ Advance(t, "looping")
    /\ UNCHANGED <<cycleTable, invoiceStatus, attempts, due, rowid, ready, afip>>

Tries(t) == seen[t][cur[t]] + 1
(* Mutants: the UPDATE spares a done row, or one whose attempts changed; it *)
(* fails one attempt late, or does not count.                              *)
MarkRetryWhere(t, where, n, last) ==
    /\ pc[t] = "failing"
    /\ IF ~where THEN UNCHANGED outbox
       ELSE /\ status' = [status EXCEPT ![cur[t]] = IF n >= last THEN "failed" ELSE "retrying"]
            /\ attempts' = [attempts EXCEPT ![cur[t]] = n]
            /\ due' = [due EXCEPT ![cur[t]] = FALSE]
            /\ UNCHANGED rowid
    /\ Goto(t, "blaming")
    /\ UNCHANGED <<cycleTable, invoiceStatus, cur, todo, seen, deferred, ready, afip>>
MarkRetryUnlessDone(t) == MarkRetryWhere(t, status[cur[t]] # "done", Tries(t), MaxAttempts)
MarkRetryIfFresh(t) ==
    MarkRetryWhere(t, attempts[cur[t]] = seen[t][cur[t]], Tries(t), MaxAttempts)
MarkRetryOnceMore(t) == MarkRetryWhere(t, TRUE, Tries(t), MaxAttempts + 1)
MarkRetryUncounted(t) == MarkRetryWhere(t, TRUE, seen[t][cur[t]], MaxAttempts)

(* mark_outbox_retry, with the attempts of the copied row plus one. *)
MarkRetry(t) ==
    /\ pc[t] = "failing"
    /\ status' = [status EXCEPT ![cur[t]] =
                    IF Tries(t) >= MaxAttempts THEN "failed" ELSE "retrying"]
    /\ attempts' = [attempts EXCEPT ![cur[t]] = Tries(t)]
    /\ due' = [due EXCEPT ![cur[t]] = FALSE]
    /\ Goto(t, "blaming")
    /\ UNCHANGED <<cycleTable, invoiceStatus, rowid, cur, todo, seen, deferred, ready, afip>>

BlameTargetFailed(t) ==             \* mutant: the cycle gets a status of the outbox
    /\ pc[t] = "blaming"
    /\ IF cur[t] \in Cycle
       THEN /\ cycleStatus' = [cycleStatus EXCEPT ![cur[t]] = "failed"]
            /\ UNCHANGED invoiceStatus
       ELSE /\ invoiceStatus' = [invoiceStatus EXCEPT ![cur[t]] = "error"]
            /\ UNCHANGED cycleStatus
    /\ Advance(t, "looping")
    /\ UNCHANGED <<hasCode, outbox, ready, afip>>

(* set_cycle_status (the window is not open yet), set_cycle_error, mark_invoice_error *)
BlameTarget(t) ==
    /\ pc[t] = "blaming"
    /\ IF cur[t] \in Cycle
       THEN /\ cycleStatus' = [cycleStatus EXCEPT ![cur[t]] =
                                    IF deferred[t] THEN "requested" ELSE "error"]
            /\ UNCHANGED invoiceStatus
       ELSE /\ invoiceStatus' = [invoiceStatus EXCEPT ![cur[t]] = "error"]
            /\ UNCHANGED cycleStatus
    /\ Advance(t, "looping")
    /\ UNCHANGED <<hasCode, outbox, ready, afip>>

-----------------------------------------------------------------------------
(* Faults and the environment. *)

DbErrorPassedOver(t) ==             \* mutant: the job goes on to be marked done
    /\ DbMayFail /\ ~Suspended(t)
    /\ IF pc[t] = "applying"
       THEN Goto(t, "closing") /\ UNCHANGED <<cur, todo, seen, deferred>>
       ELSE Reset(t)
    /\ UNCHANGED <<cycleTable, invoiceStatus, outbox, ready, afip>>

(* A statement raises.  Inside the try it becomes a failed attempt; outside, *)
(* or in the except branch, it ends the whole run or request.               *)
DbError(t) ==
    /\ DbMayFail /\ ~Suspended(t)
    /\ IF pc[t] \in {"applying", "closing"}
       THEN Goto(t, "failing") /\ UNCHANGED <<cur, todo, seen, deferred>>
       ELSE Reset(t)
    /\ UNCHANGED <<cycleTable, invoiceStatus, outbox, ready, afip>>

(* A process dies: its coroutines vanish, the database stays. *)
Crash(p) ==
    LET alive(t) == ProcOf[t] # p IN
    /\ MayCrash
    /\ pc' = [t \in Task |-> IF alive(t) THEN pc[t] ELSE "idle"]
    /\ cur' = [t \in Task |-> IF alive(t) THEN cur[t] ELSE NoJob]
    /\ todo' = [t \in Task |-> IF alive(t) THEN todo[t] ELSE {}]
    /\ seen' = [t \in Task |-> IF alive(t) THEN seen[t] ELSE Nothing]
    /\ deferred' = [t \in Task |-> IF alive(t) THEN deferred[t] ELSE FALSE]
    /\ ready' = ready \ {p}
    /\ UNCHANGED <<cycleTable, invoiceStatus, outbox, afip>>

(* The clock reaches next_retry_at. *)
BecomesDue(j) ==
    /\ status[j] = "retrying" /\ ~due[j]
    /\ due' = [due EXCEPT ![j] = TRUE]
    /\ UNCHANGED <<cycleTable, invoiceStatus, status, attempts, rowid, locals, ready, afip>>

AfipRecovers ==
    /\ ~healthy /\ healthy' = TRUE
    /\ UNCHANGED <<cycleTable, invoiceStatus, outbox, locals, ready, granted>>

-----------------------------------------------------------------------------
Request(t) == \/ \E c \in Cycle : QueueSolicitar(t, c)
              \/ \E v \in Invoice : IssueLocal(t, v)
              \/ RetryOutbox(t)
Step(t) ==
    \/ StartBootstrap(t) \/ EnsureCycle(t)
    \/ CreateLocalInvoice(t)
    \/ InsertJob(t) \/ SelectJob(t) \/ RequeueJob(t)
    \/ RunOutboxJob(t) \/ RunBootstrapped(t) \/ Claim(t) \/ EndRun(t) \/ Answer(t)
    \/ Apply(t) \/ MarkDone(t) \/ MarkRetry(t) \/ BlameTarget(t)

Next ==
    \/ \E t \in Task : MayRun(t) /\ (Step(t) \/ Request(t) \/ DbError(t))
    \/ \E p \in Process : Crash(p)
    \/ \E j \in Job : BecomesDue(j)
    \/ AfipRecovers

Spec == Init /\ [][Next]_vars

(* The scheduler starts its jobs again and again, the event loop serves    *)
(* the coroutines that can run in turn, every SOAP call has a timeout, and *)
(* time passes.  Nothing is assumed of requests, crashes or AFIP.          *)
Fairness == /\ \A t \in Task : SF_vars(MayRun(t) /\ Step(t))
            /\ \A j \in Job : WF_vars(BecomesDue(j))
FairSpec == Spec /\ Fairness

-----------------------------------------------------------------------------
(* Safety. *)

(* A job marked done has had its effect in the local tables: the cycle has *)
(* its code and is active, the invoice is informed.  An overlapping run    *)
(* that fails later takes the job out of done before it blames the target, *)
(* and a process that dies in between leaves no done job without effect.   *)
DoneMeansApplied ==
    /\ \A c \in Cycle : status[c] = "done" => IsActive(c)
    /\ \A v \in Invoice : status[v] = "done" => invoiceStatus[v] = "informed"

(* No cycle carries or advertises a code that AFIP has not granted: a      *)
(* deferred, refused or failed FECAEASolicitar never activates a cycle.    *)
CodeIsGranted ==
    \A c \in Cycle : /\ hasCode[c] => c \in granted
                     /\ cycleStatus[c] = "active" => hasCode[c]

(* Every local invoice was numbered under a cycle whose code is loaded,    *)
(* and no later failure of that cycle takes the code away.                 *)
IssuedUnderCode ==
    \A v \in Invoice : invoiceStatus[v] # "absent" => hasCode[CycleOf[v]]

(* attempts, which overlapping runs write from stale copies, still agrees  *)
(* with the status: a job that will be tried again has attempts left, and  *)
(* only a job out of attempts is failed.                                   *)
RetryBudget ==
    \A j \in Job :
        /\ attempts[j] <= MaxAttempts
        /\ status[j] \in {"pending", "retrying"} => attempts[j] < MaxAttempts
        /\ status[j] = "failed" => attempts[j] = MaxAttempts

(* While no process dies and no statement raises, a job in processing is   *)
(* in the hands of a coroutine that will take it out of processing.        *)
ProcessingIsHeld ==
    \A j \in Job : status[j] = "processing" =>
        \E t \in Task : cur[t] = j /\ pc[t] \in {"calling", "applying", "closing", "failing"}

(* While no process dies and no statement raises, every invoice in the     *)
(* table has its INFORM job, or the handler that issued it is creating it. *)
EveryInvoiceQueued ==
    \A v \in Invoice : invoiceStatus[v] # "absent" =>
        \/ status[v] # "none"
        \/ \E t \in ApiTask : cur[t] = v /\ pc[t] = "inserting"

(* A job leaves done only through a run that had copied or called it       *)
(* before it was done: no run copies a done job, and no enqueueing, at     *)
(* startup, every six hours or by HTTP, reopens one.                       *)
DoneReopenedOnlyByOverlap ==
    [][/\ \A j \in Job : status[j] = "done" /\ status'[j] # "done" =>
             \E t \in Task : \/ pc[t] = "looping" /\ j \in todo[t]
                             \/ pc[t] = "failing" /\ cur[t] = j
       /\ \A t \in Task : pc'[t] = "looping" /\ pc[t] \in {"idle", "ensuring"} =>
             \A j \in todo'[t] : status[j] # "done"]_vars

(* Whatever overlaps, crashes or raises in the process, the three tables   *)
(* and AFIP's answers implement JobLifecycle: one statement moves one job  *)
(* by one step, AFIP hears only of jobs in the queue, an effect comes after *)
(* its grant, and a job out of order is never marked done.                 *)
Applied(j) == IF j \in Cycle THEN IsActive(j) ELSE invoiceStatus[j] = "informed"
Effects == {j \in Job : Applied(j)}
Finished == {j \in Job : status[j] = "done"}
Lifecycle == INSTANCE JobLifecycle WITH
    Granted <- Cycle, asked <- Rows, applied <- Effects, done <- Finished
LifecycleSpec == Lifecycle!Spec

(* Liveness. *)

(* Once AFIP answers well and the processes stay up, every cycle of the    *)
(* window ends up active and stays so, whatever failures its job collected *)
(* before.                                                                 *)
StaysUp == <>healthy /\ <>[](ready = Process)
CyclesPreloaded ==
    StaysUp => \A c \in Cycle : <>[](cycleStatus[c] = "active")

(* With crashes at any statement, a cycle misses that only if its job was  *)
(* left in processing: every other place a crash can fall is recovered.    *)
RecoversUnlessOrphaned ==
    StaysUp => \A c \in Cycle : \/ <>[](cycleStatus[c] = "active")
                                \/ <>[](status[c] = "processing")

(* Every queued INFORM job comes to an end, informed or out of attempts,   *)
(* although overlapping runs overwrite the attempts of one another.        *)
InvoicesSettled ==
    \A v \in Invoice : status[v] # "none" ~> status[v] \in {"done", "failed"}
=============================================================================
