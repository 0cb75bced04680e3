-------------------------- MODULE CaeaOutbox_proofs --------------------------
(***************************************************************************)
(* Theorems about CaeaOutbox, for every set of cycles, invoices, tasks and *)
(* processes, every limit and every MaxAttempts, with crashes and failing  *)
(* statements unless a theorem rules them out.  Last, that CaeaOutbox      *)
(* implements JobLifecycle, and what follows from that.                    *)
(***************************************************************************)
EXTENDS CaeaOutbox, FiniteSetTheorems, TLAPS

(* A coroutine past the start of its work has a job in hand. *)
CurOK ==
    \A t \in Task :
        /\ pc[t] \notin {"idle", "ensuring", "looping"} => cur[t] \in Job
        /\ pc[t] = "issuing" => cur[t] \in Invoice

TypeInv == TypeOK /\ CurOK

(* The sequence number a new outbox row gets is a number. *)
LEMMA RowsFinite == IsFiniteSet(Rows) /\ Cardinality(Rows) \in Nat
<1>1. IsFiniteSet(Job)
  BY RowsAssumption, FS_Union DEF Job
<1>2. Rows \subseteq Job
  BY DEF Rows
<1> QED
  BY <1>1, <1>2, FS_Subset, FS_CardinalityType

LEMMA RowsAreJobs == Cycle \subseteq Job /\ Invoice \subseteq Job /\ NoJob \notin Job
BY RowsAssumption DEF Job

LEMMA NothingType == Nothing \in [Job -> Nat]
BY DEF Nothing

LEMMA InitType == Init => TypeInv
<1> SUFFICES ASSUME Init PROVE TypeInv
  OBVIOUS
<1>1. TableTypes
  BY DEF Init, TableTypes, CycleStatus, InvoiceStatus
<1>2. QueueTypes
  BY NothingType DEF Init, QueueTypes, JobStatus
<1>3. LocalTypes /\ CurOK
  BY NothingType DEF Init, LocalTypes, CurOK, Label
<1> QED
  BY <1>1, <1>2, <1>3 DEF TypeInv, TypeOK

-----------------------------------------------------------------------------
(* What the ways of ending a piece of work do to the locals. *)

LEMMA ResetTypes ==
  ASSUME LocalTypes, CurOK, NEW t \in Task, Reset(t),
         ready' \in SUBSET Process, UNCHANGED afip
  PROVE  LocalTypes' /\ CurOK'
<1>1. seen' \in [Task -> [Job -> Nat]]
  BY NothingType DEF LocalTypes, Reset
<1>2. /\ pc' \in [Task -> Label]
      /\ cur' \in [Task -> Job \cup {NoJob}]
      /\ todo' \in [Task -> SUBSET Job]
      /\ deferred' \in [Task -> BOOLEAN]
  BY DEF LocalTypes, Reset, Goto, Label
<1>3. CurOK'
  BY DEF LocalTypes, CurOK, Reset, Goto
<1> QED
  BY <1>1, <1>2, <1>3 DEF LocalTypes, afip

LEMMA AdvanceTypes ==
  ASSUME LocalTypes, CurOK, NEW t \in Task,
         NEW label \in {"idle", "ensuring", "looping"}, Advance(t, label),
         UNCHANGED <<ready, afip>>
  PROVE  LocalTypes' /\ CurOK'
<1>1. seen' \in [Task -> [Job -> Nat]]
  BY DEF LocalTypes, Advance
<1>2. /\ pc' \in [Task -> Label]
      /\ cur' \in [Task -> Job \cup {NoJob}]
      /\ todo' \in [Task -> SUBSET Job]
      /\ deferred' \in [Task -> BOOLEAN]
  BY DEF LocalTypes, Advance, Goto, Label
<1>3. CurOK'
  BY DEF LocalTypes, CurOK, Advance, Goto
<1> QED
  BY <1>1, <1>2, <1>3 DEF LocalTypes, afip

LEMMA FetchTypes ==
  ASSUME TypeInv, NEW t \in Task, Fetch(t)
  PROVE  TypeInv'
<1> DEFINE batch == Oldest(Due, Limit[t])
           copies == [j \in Job |-> IF j \in batch THEN attempts[j] ELSE 0]
<1>1. batch \subseteq Job /\ copies \in [Job -> Nat]
  BY DEF Oldest, Due, TypeInv, TypeOK, QueueTypes
<1>2. todo' = [todo EXCEPT ![t] = batch] /\ seen' = [seen EXCEPT ![t] = copies]
  BY DEF Fetch
<1> HIDE DEF batch, copies
<1>3. todo' \in [Task -> SUBSET Job] /\ seen' \in [Task -> [Job -> Nat]]
  BY <1>1, <1>2 DEF TypeInv, TypeOK, LocalTypes
<1>4. TableTypes' /\ QueueTypes'
  BY DEF Fetch, TypeInv, TypeOK, TableTypes, QueueTypes, cycleTable, outbox
<1>5. LocalTypes' /\ CurOK'
  BY <1>3 DEF Fetch, TypeInv, TypeOK, LocalTypes, CurOK, Goto, Label, afip
<1> QED
  BY <1>4, <1>5 DEF TypeInv, TypeOK

(* A run works on rows that were due, with the attempts they had. *)
LEMMA FetchCopies ==
  ASSUME TypeInv, NEW t \in Task, Fetch(t)
  PROVE  /\ \A u \in Task : todo'[u] = todo[u] \/ todo'[u] \subseteq Due
         /\ \A u \in Task, j \in Job :
                \/ seen'[u][j] = seen[u][j]
                \/ seen'[u][j] = 0
                \/ j \in Due /\ seen'[u][j] = attempts[j]
         /\ pc' = [pc EXCEPT ![t] = "looping"]
         /\ UNCHANGED <<cur, outbox, cycleTable, invoiceStatus>>
<1> DEFINE batch == Oldest(Due, Limit[t])
           copies == [j \in Job |-> IF j \in batch THEN attempts[j] ELSE 0]
<1>1. batch \subseteq Due
  BY DEF Oldest
<1>2. todo' = [todo EXCEPT ![t] = batch] /\ seen' = [seen EXCEPT ![t] = copies]
  BY DEF Fetch
<1> HIDE DEF batch
<1>3. \A j \in Job : copies[j] = 0 \/ (j \in Due /\ copies[j] = attempts[j])
  <2> SUFFICES ASSUME NEW k \in Job
               PROVE  copies[k] = 0 \/ (k \in Due /\ copies[k] = attempts[k])
    BY Zenon
  <2>1. copies[k] = IF k \in batch THEN attempts[k] ELSE 0
    BY Zenon
  <2> HIDE DEF copies
  <2> QED
    BY <1>1, <2>1
<1> HIDE DEF copies
<1>4. \A u \in Task : todo'[u] = todo[u] \/ todo'[u] \subseteq Due
  BY <1>1, <1>2 DEF TypeInv, TypeOK, LocalTypes
<1>5. \A u \in Task, j \in Job : seen'[u][j] = seen[u][j] \/ seen'[u][j] = copies[j]
  BY <1>2 DEF TypeInv, TypeOK, LocalTypes
<1> QED
  BY <1>3, <1>4, <1>5 DEF Fetch, Goto

-----------------------------------------------------------------------------
(* The statements of the coroutines preserve the types. *)

LEMMA FillTypes ==
  ASSUME TypeInv, NEW t \in Task,
         \/ StartBootstrap(t) \/ EnsureCycle(t) \/ Request(t)
         \/ CreateLocalInvoice(t) \/ InsertJob(t) \/ SelectJob(t) \/ RequeueJob(t)
  PROVE  TypeInv'
<1> USE RowsAreJobs DEF TypeInv, TypeOK, cycleTable, outbox, afip
<1>1. CASE StartBootstrap(t)
  <2>1. TableTypes' /\ QueueTypes'
    BY <1>1 DEF StartBootstrap, TableTypes, QueueTypes, CycleStatus
  <2>2. LocalTypes' /\ CurOK'
    BY <1>1 DEF StartBootstrap, LocalTypes, CurOK, Goto, Label
  <2> QED
    BY <2>1, <2>2
<1>2. CASE EnsureCycle(t)
  <2>1. PICK c \in todo[t] \cap Cycle :
          /\ CreateCycle(c)
          /\ todo' = [todo EXCEPT ![t] = @ \ {c}]
          /\ IF IsActive(c) THEN UNCHANGED <<pc, cur>>
             ELSE Goto(t, "inserting") /\ cur' = [cur EXCEPT ![t] = c]
    BY <1>2, Zenon DEF EnsureCycle
  <2>2. TableTypes' /\ QueueTypes'
    BY <1>2, <2>1 DEF EnsureCycle, CreateCycle, TableTypes, QueueTypes, CycleStatus
  <2>3. LocalTypes' /\ CurOK'
    <3>1. todo' \in [Task -> SUBSET Job]
      BY <2>1 DEF LocalTypes
    <3>2. CASE IsActive(c)
      BY <1>2, <2>1, <3>1, <3>2 DEF EnsureCycle, LocalTypes, CurOK
    <3>3. CASE ~IsActive(c)
      <4>1. pc' \in [Task -> Label] /\ cur' \in [Task -> Job \cup {NoJob}]
        BY <2>1, <3>3 DEF LocalTypes, Goto, Label
      <4>2. CurOK'
        BY <2>1, <3>3 DEF LocalTypes, CurOK, Goto
      <4> QED
        BY <1>2, <3>1, <4>1, <4>2 DEF EnsureCycle, LocalTypes
    <3> QED
      BY <3>2, <3>3
  <2> QED
    BY <2>2, <2>3
<1>3. ASSUME NEW c \in Cycle, QueueSolicitar(t, c) PROVE TypeInv'
  <2>1. TableTypes' /\ QueueTypes'
    BY <1>3 DEF QueueSolicitar, CreateCycle, TableTypes, QueueTypes, CycleStatus
  <2>2. LocalTypes' /\ CurOK'
    BY <1>3 DEF QueueSolicitar, LocalTypes, CurOK, Goto, Label
  <2> QED
    BY <2>1, <2>2
<1>4. ASSUME NEW v \in Invoice, IssueLocal(t, v) PROVE TypeInv'
  <2>1. TableTypes' /\ QueueTypes'
    BY <1>4 DEF IssueLocal, TableTypes, QueueTypes
  <2>2. LocalTypes' /\ CurOK'
    BY <1>4 DEF IssueLocal, LocalTypes, CurOK, Goto, Label
  <2> QED
    BY <2>1, <2>2
<1>5. CASE RetryOutbox(t)
  BY <1>5, FetchTypes DEF RetryOutbox
<1>6. CASE CreateLocalInvoice(t)
  <2>1. TableTypes' /\ QueueTypes'
    BY <1>6 DEF CreateLocalInvoice, TableTypes, QueueTypes, InvoiceStatus
  <2>2. CASE invoiceStatus[cur[t]] = "absent"
    BY <1>6, <2>1, <2>2 DEF CreateLocalInvoice, LocalTypes, CurOK, Goto, Label
  <2>3. CASE invoiceStatus[cur[t]] # "absent"
    BY <1>6, <2>1, <2>3, ResetTypes DEF CreateLocalInvoice, LocalTypes
  <2> QED
    BY <2>2, <2>3
<1>7. CASE InsertJob(t)
  <2>1. TableTypes' /\ QueueTypes'
    <3>1. CASE status[cur[t]] = "none"
      <4>1. rowid' \in [Job -> Nat]
        BY <1>7, <3>1, RowsFinite DEF InsertJob, QueueTypes
      <4>2. status' \in [Job -> JobStatus]
        BY <1>7, <3>1 DEF InsertJob, QueueTypes, JobStatus
      <4>3. attempts' \in [Job -> Nat]
        BY <1>7, <3>1 DEF InsertJob, QueueTypes
      <4>4. due' \in [Job -> BOOLEAN]
        BY <1>7, <3>1 DEF InsertJob, QueueTypes
      <4> QED
        BY <1>7, <4>1, <4>2, <4>3, <4>4 DEF InsertJob, TableTypes, QueueTypes
    <3>2. CASE status[cur[t]] # "none"
      BY <1>7, <3>2 DEF InsertJob, TableTypes, QueueTypes
    <3> QED
      BY <3>1, <3>2
  <2>2. LocalTypes' /\ CurOK'
    BY <1>7 DEF InsertJob, LocalTypes, CurOK, Goto, Label
  <2> QED
    BY <2>1, <2>2
<1>8. CASE SelectJob(t)
  <2>1. TableTypes' /\ QueueTypes'
    BY <1>8 DEF SelectJob, TableTypes, QueueTypes
  <2>2. CASE status[cur[t]] = "failed"
    BY <1>8, <2>1, <2>2 DEF SelectJob, LocalTypes, CurOK, Goto, Label
  <2>3. CASE status[cur[t]] # "failed"
    BY <1>8, <2>1, <2>3, AdvanceTypes DEF SelectJob, AfterEnqueue
  <2> QED
    BY <2>2, <2>3
<1>9. CASE RequeueJob(t)
  <2>1. TableTypes' /\ QueueTypes'
    BY <1>9 DEF RequeueJob, TableTypes, QueueTypes, JobStatus
  <2> QED
    BY <1>9, <2>1, AdvanceTypes DEF RequeueJob, AfterEnqueue
<1> QED
  BY <1>1, <1>2, <1>3, <1>4, <1>5, <1>6, <1>7, <1>8, <1>9 DEF Request

LEMMA DrainTypes ==
  ASSUME TypeInv, NEW t \in Task,
         \/ RunOutboxJob(t) \/ RunBootstrapped(t) \/ Claim(t) \/ EndRun(t) \/ Answer(t)
         \/ Apply(t) \/ MarkDone(t) \/ MarkRetry(t) \/ BlameTarget(t) \/ DbError(t)
  PROVE  TypeInv'
<1> USE RowsAreJobs DEF TypeInv, TypeOK, cycleTable, outbox, afip
<1>1. CASE RunOutboxJob(t) \/ RunBootstrapped(t)
  BY <1>1, FetchTypes DEF RunOutboxJob, RunBootstrapped
<1>2. CASE Claim(t)
  <2>1. TableTypes' /\ QueueTypes'
    BY <1>2 DEF Claim, TableTypes, QueueTypes, JobStatus
  <2>2. LocalTypes' /\ CurOK'
    BY <1>2 DEF Claim, Oldest, LocalTypes, CurOK, Goto, Label
  <2> QED
    BY <2>1, <2>2
<1>3. CASE EndRun(t)
  <2>1. ready' \in SUBSET Process
    BY <1>3, TaskAssumption DEF EndRun, LocalTypes
  <2>2. TableTypes' /\ QueueTypes'
    BY <1>3 DEF EndRun, TableTypes, QueueTypes
  <2> QED
    BY <1>3, <2>1, <2>2, ResetTypes DEF EndRun
<1>4. CASE Answer(t)
  <2>1. TableTypes' /\ QueueTypes'
    BY <1>4 DEF Answer, TableTypes, QueueTypes
  <2>2. LocalTypes' /\ CurOK'
    BY <1>4 DEF Answer, LocalTypes, CurOK, Goto, Label
  <2> QED
    BY <2>1, <2>2
<1>5. CASE Apply(t)
  <2>1. TableTypes' /\ QueueTypes'
    BY <1>5 DEF Apply, TableTypes, QueueTypes, CycleStatus, InvoiceStatus
  <2>2. LocalTypes' /\ CurOK'
    BY <1>5 DEF Apply, LocalTypes, CurOK, Goto, Label
  <2> QED
    BY <2>1, <2>2
<1>6. CASE MarkDone(t)
  <2>1. TableTypes' /\ QueueTypes'
    BY <1>6 DEF MarkDone, TableTypes, QueueTypes, JobStatus
  <2> QED
    BY <1>6, <2>1, AdvanceTypes DEF MarkDone
<1>7. CASE MarkRetry(t)
  <2>1. seen[t][cur[t]] + 1 \in Nat
    BY <1>7 DEF MarkRetry, Tries, LocalTypes, CurOK
  <2>2. TableTypes' /\ QueueTypes'
    BY <1>7, <2>1 DEF MarkRetry, Tries, TableTypes, QueueTypes, JobStatus
  <2>3. LocalTypes' /\ CurOK'
    BY <1>7 DEF MarkRetry, Tries, LocalTypes, CurOK, Goto, Label
  <2> QED
    BY <2>2, <2>3
<1>8. CASE BlameTarget(t)
  <2>1. TableTypes' /\ QueueTypes'
    BY <1>8 DEF BlameTarget, TableTypes, QueueTypes, CycleStatus, InvoiceStatus
  <2> QED
    BY <1>8, <2>1, AdvanceTypes DEF BlameTarget
<1>9. CASE DbError(t)
  <2>1. TableTypes' /\ QueueTypes'
    BY <1>9 DEF DbError, TableTypes, QueueTypes
  <2>2. CASE pc[t] \in {"applying", "closing"}
    BY <1>9, <2>1, <2>2 DEF DbError, LocalTypes, CurOK, Goto, Label
  <2>3. CASE pc[t] \notin {"applying", "closing"}
    BY <1>9, <2>1, <2>3, ResetTypes DEF DbError, LocalTypes
  <2> QED
    BY <2>2, <2>3
<1> QED
  BY <1>1, <1>2, <1>3, <1>4, <1>5, <1>6, <1>7, <1>8, <1>9

LEMMA NextType == TypeInv /\ [Next]_vars => TypeInv'
<1> SUFFICES ASSUME TypeInv, [Next]_vars PROVE TypeInv'
  OBVIOUS
<1> USE DEF TypeInv, TypeOK, TableTypes, QueueTypes, cycleTable, outbox, locals, afip
<1>1. ASSUME NEW t \in Task, Step(t) \/ Request(t) \/ DbError(t) PROVE TypeInv'
  BY <1>1, FillTypes, DrainTypes DEF Step
<1>2. ASSUME NEW p \in Process, Crash(p) PROVE TypeInv'
  <2>1. LocalTypes'
    BY <1>2, NothingType DEF Crash, LocalTypes, Label
  <2>2. CurOK'
    BY <1>2 DEF Crash, LocalTypes, CurOK
  <2> QED
    BY <1>2, <2>1, <2>2 DEF Crash
<1>3. ASSUME NEW j \in Job, BecomesDue(j) PROVE TypeInv'
  BY <1>3 DEF BecomesDue, LocalTypes, CurOK
<1>4. CASE AfipRecovers
  BY <1>4 DEF AfipRecovers, LocalTypes, CurOK
<1>5. CASE UNCHANGED vars
  BY <1>5 DEF vars, LocalTypes, CurOK
<1> QED
  BY <1>1, <1>2, <1>3, <1>4, <1>5 DEF Next

(* Every variable keeps its type, and a coroutine between its first and its *)
(* last statement has a job in hand.                                        *)
THEOREM TypeCorrect == Spec => []TypeInv
BY InitType, NextType, PTL DEF Spec

(* The type invariant the runs check. *)
THEOREM TypesKept == Spec => []TypeOK
BY TypeCorrect, PTL DEF TypeInv

-----------------------------------------------------------------------------
(* A code in the table was granted by AFIP: what is about to be applied to *)
(* a cycle is the grant the call came back with.                           *)
GrantInv ==
    /\ CodeIsGranted
    /\ \A t \in Task : pc[t] = "applying" /\ cur[t] \in Cycle => cur[t] \in granted

LEMMA NextGrant == TypeInv /\ GrantInv /\ [Next]_vars => GrantInv'
<1> SUFFICES ASSUME TypeInv, GrantInv, [Next]_vars PROVE GrantInv'
  OBVIOUS
<1> USE DEF GrantInv, CodeIsGranted, TypeInv, TypeOK, TableTypes, LocalTypes, CurOK,
            cycleTable, outbox, locals, afip
<1>1. ASSUME NEW t \in Task, StartBootstrap(t) PROVE GrantInv'
  BY <1>1 DEF StartBootstrap, Goto
<1>2. ASSUME NEW t \in Task, EnsureCycle(t) PROVE GrantInv'
  BY <1>2 DEF EnsureCycle, CreateCycle, IsActive, Goto
<1>3. ASSUME NEW t \in Task, NEW c \in Cycle, QueueSolicitar(t, c) PROVE GrantInv'
  BY <1>3 DEF QueueSolicitar, CreateCycle, Goto
<1>4. ASSUME NEW t \in Task, NEW v \in Invoice, IssueLocal(t, v) PROVE GrantInv'
  BY <1>4 DEF IssueLocal, IsActive, Goto
<1>5. ASSUME NEW t \in Task, RetryOutbox(t) \/ RunOutboxJob(t) \/ RunBootstrapped(t) PROVE GrantInv'
  BY <1>5 DEF RetryOutbox, RunOutboxJob, RunBootstrapped, Fetch, Goto
<1>6. ASSUME NEW t \in Task, CreateLocalInvoice(t) PROVE GrantInv'
  BY <1>6 DEF CreateLocalInvoice, Reset, Goto
<1>7. ASSUME NEW t \in Task, InsertJob(t) PROVE GrantInv'
  BY <1>7 DEF InsertJob, Goto
<1>8. ASSUME NEW t \in Task, SelectJob(t) PROVE GrantInv'
  BY <1>8 DEF SelectJob, Advance, AfterEnqueue, Goto
<1>9. ASSUME NEW t \in Task, RequeueJob(t) PROVE GrantInv'
  BY <1>9 DEF RequeueJob, Advance, AfterEnqueue, Goto
<1>10. ASSUME NEW t \in Task, Claim(t) PROVE GrantInv'
  BY <1>10 DEF Claim, Oldest, Goto
<1>11. ASSUME NEW t \in Task, EndRun(t) PROVE GrantInv'
  BY <1>11 DEF EndRun, Reset, Goto
<1>12. ASSUME NEW t \in Task, Answer(t) PROVE GrantInv'
  BY <1>12 DEF Answer, Good, Goto
<1>13. ASSUME NEW t \in Task, Apply(t) PROVE GrantInv'
  BY <1>13 DEF Apply, Goto
<1>14. ASSUME NEW t \in Task, MarkDone(t) PROVE GrantInv'
  BY <1>14 DEF MarkDone, Advance, Goto
<1>15. ASSUME NEW t \in Task, MarkRetry(t) PROVE GrantInv'
  BY <1>15 DEF MarkRetry, Tries, Goto
<1>16. ASSUME NEW t \in Task, BlameTarget(t) PROVE GrantInv'
  BY <1>16 DEF BlameTarget, Advance, Goto
<1>17. ASSUME NEW t \in Task, DbError(t) PROVE GrantInv'
  BY <1>17 DEF DbError, Reset, Goto
<1>18. ASSUME NEW p \in Process, Crash(p) PROVE GrantInv'
  BY <1>18 DEF Crash
<1>19. ASSUME NEW j \in Job, BecomesDue(j) PROVE GrantInv'
  BY <1>19 DEF BecomesDue
<1>20. ASSUME AfipRecovers PROVE GrantInv'
  BY <1>20 DEF AfipRecovers
<1>21. ASSUME UNCHANGED vars PROVE GrantInv'
  BY <1>21 DEF vars
<1> QED
  BY <1>1, <1>2, <1>3, <1>4, <1>5, <1>6, <1>7, <1>8, <1>9, <1>10, <1>11, <1>12, <1>13, <1>14, <1>15, <1>16, <1>17, <1>18, <1>19, <1>20, <1>21 DEF Next, Step, Request

(* No cycle carries a code that AFIP has not granted, and none is active   *)
(* without one, whatever AFIP answers and wherever the processes crash.    *)
THEOREM Granted == Spec => []CodeIsGranted
<1>1. Init => GrantInv
  BY DEF Init, GrantInv, CodeIsGranted
<1> QED
  BY <1>1, TypeCorrect, NextGrant, PTL DEF Spec, GrantInv

-----------------------------------------------------------------------------
(* The attempts a run has copied are below the maximum, however old the    *)
(* copy is, so what it writes back is at most the maximum.                 *)
BudgetInv ==
    /\ RetryBudget
    /\ \A t \in Task, j \in Job : seen[t][j] < MaxAttempts

LEMMA SeenCleared ==
  ASSUME seen \in [Task -> [Job -> Nat]], NEW t \in Task, NEW k,
         seen' = [seen EXCEPT ![t][k] = 0]
  PROVE  \A u \in Task, j \in Job : seen'[u][j] = seen[u][j] \/ seen'[u][j] = 0
OBVIOUS

LEMMA NextBudget == TypeInv /\ BudgetInv /\ [Next]_vars => BudgetInv'
<1> SUFFICES ASSUME TypeInv, BudgetInv, [Next]_vars PROVE BudgetInv'
  OBVIOUS
<1> USE MaxAttemptsAssumption
    DEF BudgetInv, RetryBudget, TypeInv, TypeOK, QueueTypes, LocalTypes, CurOK,
        cycleTable, outbox, locals, afip, Nothing
<1>1. ASSUME NEW t \in Task, StartBootstrap(t) PROVE BudgetInv'
  BY <1>1 DEF StartBootstrap, Goto
<1>2. ASSUME NEW t \in Task, EnsureCycle(t) PROVE BudgetInv'
  BY <1>2 DEF EnsureCycle, CreateCycle, IsActive, Goto
<1>3. ASSUME NEW t \in Task, NEW c \in Cycle, QueueSolicitar(t, c) PROVE BudgetInv'
  BY <1>3 DEF QueueSolicitar, CreateCycle, Goto
<1>4. ASSUME NEW t \in Task, NEW v \in Invoice, IssueLocal(t, v) PROVE BudgetInv'
  BY <1>4 DEF IssueLocal, IsActive, Goto
<1>5. ASSUME NEW t \in Task, RetryOutbox(t) \/ RunOutboxJob(t) \/ RunBootstrapped(t) PROVE BudgetInv'
  <2>1. Fetch(t)
    BY <1>5 DEF RetryOutbox, RunOutboxJob, RunBootstrapped
  <2>2. RetryBudget'
    BY <2>1, FetchCopies
  <2>3. ASSUME NEW u \in Task, NEW j \in Job PROVE seen'[u][j] < MaxAttempts
    <3>1. \/ seen'[u][j] = seen[u][j]
          \/ seen'[u][j] = 0
          \/ j \in Due /\ seen'[u][j] = attempts[j]
      BY <2>1, FetchCopies
    <3>2. j \in Due => attempts[j] < MaxAttempts
      BY DEF Due
    <3> QED
      BY <3>1, <3>2
  <2> QED
    BY <2>2, <2>3
<1>6. ASSUME NEW t \in Task, CreateLocalInvoice(t) PROVE BudgetInv'
  <2>1. RetryBudget'
    BY <1>6 DEF CreateLocalInvoice
  <2>2. \A u \in Task, j \in Job : seen'[u][j] = seen[u][j] \/ seen'[u][j] = 0
    <3>1. seen' = seen \/ seen' = [seen EXCEPT ![t] = Nothing]
      BY <1>6 DEF CreateLocalInvoice, Reset
    <3> QED
      BY <3>1
  <2> QED
    BY <2>1, <2>2
<1>7. ASSUME NEW t \in Task, InsertJob(t) PROVE BudgetInv'
  <2>1. CASE status[cur[t]] = "none"
    BY <1>7, <2>1 DEF InsertJob
  <2>2. CASE status[cur[t]] # "none"
    BY <1>7, <2>2 DEF InsertJob
  <2> QED
    BY <2>1, <2>2
<1>8. ASSUME NEW t \in Task, SelectJob(t) PROVE BudgetInv'
  <2>1. RetryBudget'
    BY <1>8 DEF SelectJob
  <2>2. \A u \in Task, j \in Job : seen'[u][j] = seen[u][j] \/ seen'[u][j] = 0
    <3>1. CASE seen' = seen
      BY <3>1
    <3>2. CASE seen' = [seen EXCEPT ![t][cur[t]] = 0]
      BY <3>2, SeenCleared
    <3> QED
      BY <1>8, <3>1, <3>2 DEF SelectJob, Advance
  <2> QED
    BY <2>1, <2>2
<1>9. ASSUME NEW t \in Task, RequeueJob(t) PROVE BudgetInv'
  BY <1>9 DEF RequeueJob, Advance, AfterEnqueue, Goto
<1>10. ASSUME NEW t \in Task, Claim(t) PROVE BudgetInv'
  BY <1>10 DEF Claim, Oldest, Goto
<1>11. ASSUME NEW t \in Task, EndRun(t) PROVE BudgetInv'
  BY <1>11 DEF EndRun, Reset, Goto
<1>12. ASSUME NEW t \in Task, Answer(t) PROVE BudgetInv'
  BY <1>12 DEF Answer, Good, Goto
<1>13. ASSUME NEW t \in Task, Apply(t) PROVE BudgetInv'
  BY <1>13 DEF Apply, Goto
<1>14. ASSUME NEW t \in Task, MarkDone(t) PROVE BudgetInv'
  BY <1>14 DEF MarkDone, Advance, Goto
<1>15. ASSUME NEW t \in Task, MarkRetry(t) PROVE BudgetInv'
  BY <1>15 DEF MarkRetry, Tries, Goto
<1>16. ASSUME NEW t \in Task, BlameTarget(t) PROVE BudgetInv'
  BY <1>16 DEF BlameTarget, Advance, Goto
<1>17. ASSUME NEW t \in Task, DbError(t) PROVE BudgetInv'
  BY <1>17 DEF DbError, Reset, Goto
<1>18. ASSUME NEW p \in Process, Crash(p) PROVE BudgetInv'
  BY <1>18 DEF Crash
<1>19. ASSUME NEW j \in Job, BecomesDue(j) PROVE BudgetInv'
  BY <1>19 DEF BecomesDue
<1>20. ASSUME AfipRecovers PROVE BudgetInv'
  BY <1>20 DEF AfipRecovers
<1>21. ASSUME UNCHANGED vars PROVE BudgetInv'
  BY <1>21 DEF vars
<1> QED
  BY <1>1, <1>2, <1>3, <1>4, <1>5, <1>6, <1>7, <1>8, <1>9, <1>10, <1>11, <1>12, <1>13, <1>14, <1>15, <1>16, <1>17, <1>18, <1>19, <1>20, <1>21 DEF Next, Step, Request

(* The attempts of a job agree with its status, for any number of          *)
(* overlapping runs and processes.                                         *)
THEOREM Budget == Spec => []RetryBudget
<1>1. Init => BudgetInv
  BY MaxAttemptsAssumption DEF Init, BudgetInv, RetryBudget, Nothing
<1> QED
  BY <1>1, TypeCorrect, NextBudget, PTL DEF Spec, BudgetInv

-----------------------------------------------------------------------------
(* The invoice of a job, of a copied job and of a job in hand is in the    *)
(* table; one about to enter it has the code of its cycle loaded.          *)
IssueInv ==
    /\ IssuedUnderCode
    /\ \A v \in Invoice : status[v] # "none" => invoiceStatus[v] # "absent"
    /\ \A t \in Task :
        /\ pc[t] = "issuing" => hasCode[CycleOf[cur[t]]]
        /\ pc[t] # "issuing" /\ cur[t] \in Invoice => invoiceStatus[cur[t]] # "absent"
        /\ \A v \in Invoice \cap todo[t] : invoiceStatus[v] # "absent"

LEMMA NextIssue == TypeInv /\ IssueInv /\ [Next]_vars => IssueInv'
<1> SUFFICES ASSUME TypeInv, IssueInv, [Next]_vars PROVE IssueInv'
  OBVIOUS
<1> USE RowsAreJobs, RowsAssumption
    DEF IssueInv, IssuedUnderCode, TypeInv, TypeOK, TableTypes, QueueTypes, LocalTypes,
        CurOK, cycleTable, outbox, locals, afip
<1>1. ASSUME NEW t \in Task, StartBootstrap(t) PROVE IssueInv'
  BY <1>1 DEF StartBootstrap, Goto
<1>2. ASSUME NEW t \in Task, EnsureCycle(t) PROVE IssueInv'
  BY <1>2 DEF EnsureCycle, CreateCycle, IsActive, Goto
<1>3. ASSUME NEW t \in Task, NEW c \in Cycle, QueueSolicitar(t, c) PROVE IssueInv'
  BY <1>3 DEF QueueSolicitar, CreateCycle, Goto
<1>4. ASSUME NEW t \in Task, NEW v \in Invoice, IssueLocal(t, v) PROVE IssueInv'
  BY <1>4 DEF IssueLocal, IsActive, Goto
<1>5. ASSUME NEW t \in Task, RetryOutbox(t) \/ RunOutboxJob(t) \/ RunBootstrapped(t) PROVE IssueInv'
  <2>1. Fetch(t)
    BY <1>5 DEF RetryOutbox, RunOutboxJob, RunBootstrapped
  <2>2. /\ pc' = [pc EXCEPT ![t] = "looping"]
        /\ UNCHANGED <<cur, status, hasCode, invoiceStatus>>
    BY <2>1, FetchCopies
  <2>3. pc[t] \in {"idle", "ensuring"}
    BY <1>5 DEF RetryOutbox, RunOutboxJob, RunBootstrapped
  <2>4. ASSUME NEW u \in Task, NEW v \in Invoice \cap todo'[u]
        PROVE  invoiceStatus[v] # "absent"
    <3>1. todo'[u] = todo[u] \/ todo'[u] \subseteq Due
      BY <2>1, FetchCopies
    <3> QED
      BY <3>1 DEF Due
  <2> QED
    BY <2>2, <2>3, <2>4
<1>6. ASSUME NEW t \in Task, CreateLocalInvoice(t) PROVE IssueInv'
  BY <1>6 DEF CreateLocalInvoice, Reset, Goto
<1>7. ASSUME NEW t \in Task, InsertJob(t) PROVE IssueInv'
  BY <1>7 DEF InsertJob, Goto
<1>8. ASSUME NEW t \in Task, SelectJob(t) PROVE IssueInv'
  BY <1>8 DEF SelectJob, Advance, AfterEnqueue, Goto
<1>9. ASSUME NEW t \in Task, RequeueJob(t) PROVE IssueInv'
  BY <1>9 DEF RequeueJob, Advance, AfterEnqueue, Goto
<1>10. ASSUME NEW t \in Task, Claim(t) PROVE IssueInv'
  BY <1>10 DEF Claim, Oldest, Goto
<1>11. ASSUME NEW t \in Task, EndRun(t) PROVE IssueInv'
  BY <1>11 DEF EndRun, Reset, Goto
<1>12. ASSUME NEW t \in Task, Answer(t) PROVE IssueInv'
  BY <1>12 DEF Answer, Good, Goto
<1>13. ASSUME NEW t \in Task, Apply(t) PROVE IssueInv'
  <2>1. CASE cur[t] \in Cycle
    BY <1>13, <2>1 DEF Apply, Goto
  <2>2. CASE cur[t] \in Invoice
    BY <1>13, <2>2 DEF Apply, Goto
  <2> QED
    BY <1>13, <2>1, <2>2 DEF Apply, Job
<1>14. ASSUME NEW t \in Task, MarkDone(t) PROVE IssueInv'
  BY <1>14 DEF MarkDone, Advance, Goto
<1>15. ASSUME NEW t \in Task, MarkRetry(t) PROVE IssueInv'
  BY <1>15 DEF MarkRetry, Tries, Goto
<1>16. ASSUME NEW t \in Task, BlameTarget(t) PROVE IssueInv'
  BY <1>16 DEF BlameTarget, Advance, Goto
<1>17. ASSUME NEW t \in Task, DbError(t) PROVE IssueInv'
  <2>1. CASE pc[t] \in {"applying", "closing"}
    BY <1>17, <2>1 DEF DbError, Goto
  <2>2. CASE pc[t] \notin {"applying", "closing"}
    <3>1. /\ pc' = [pc EXCEPT ![t] = "idle"]
          /\ cur' = [cur EXCEPT ![t] = NoJob]
          /\ todo' = [todo EXCEPT ![t] = {}]
          /\ UNCHANGED <<status, hasCode, invoiceStatus>>
      BY <1>17, <2>2 DEF DbError, Reset, Goto
    <3> QED
      BY <3>1
  <2> QED
    BY <2>1, <2>2
<1>18. ASSUME NEW p \in Process, Crash(p) PROVE IssueInv'
  BY <1>18 DEF Crash
<1>19. ASSUME NEW j \in Job, BecomesDue(j) PROVE IssueInv'
  BY <1>19 DEF BecomesDue
<1>20. ASSUME AfipRecovers PROVE IssueInv'
  BY <1>20 DEF AfipRecovers
<1>21. ASSUME UNCHANGED vars PROVE IssueInv'
  BY <1>21 DEF vars
<1> QED
  BY <1>1, <1>2, <1>3, <1>4, <1>5, <1>6, <1>7, <1>8, <1>9, <1>10, <1>11, <1>12, <1>13, <1>14, <1>15, <1>16, <1>17, <1>18, <1>19, <1>20, <1>21 DEF Next, Step, Request

(* Every local invoice was issued under a code that is still loaded.       *)
THEOREM IssuedUnder == Spec => []IssuedUnderCode
<1>1. Init => IssueInv
  BY RowsAreJobs DEF Init, IssueInv, IssuedUnderCode
<1> QED
  BY <1>1, TypeCorrect, NextIssue, PTL DEF Spec, IssueInv

-----------------------------------------------------------------------------
(* In one process at most one coroutine is between two awaits, so nothing  *)
(* comes between applying a result and marking the job, nor between taking *)
(* the job out of done and blaming its target, except a crash.             *)
OneProcess == \A t, u \in Task : ProcOf[t] = ProcOf[u]

DoneOK == \A j \in Job : status[j] = "done" => Applied(j)
InHandOK(t) == /\ pc[t] = "closing" => Applied(cur[t])
               /\ pc[t] = "blaming" => status[cur[t]] # "done"
AppliedInv ==
    /\ DoneOK
    /\ \A t \in Task : InHandOK(t)
    /\ \A t, u \in Task : t # u => Suspended(t) \/ Suspended(u)

(* While a coroutine of the one process runs, the others await or rest. *)
LEMMA OthersSuspended ==
  ASSUME OneProcess, TypeInv, NEW t \in Task, MayRun(t),
         Step(t) \/ Request(t) \/ DbError(t), NEW u \in Task, u # t
  PROVE  pc'[u] = pc[u] /\ Suspended(u)
<1>1. Suspended(u)
  BY DEF OneProcess, MayRun
<1>2. pc' = pc \/ \E label \in Label : pc' = [pc EXCEPT ![t] = label]
  <2> USE DEF Goto, Label, Reset, Advance, AfterEnqueue, Fetch, locals
  <2>1. CASE Step(t)
    BY <2>1 DEF Step, StartBootstrap, EnsureCycle, CreateLocalInvoice, InsertJob,
       SelectJob, RequeueJob, RunOutboxJob, RunBootstrapped, Claim, EndRun, Answer,
       Apply, MarkDone, MarkRetry, Tries, BlameTarget
  <2>2. CASE Request(t)
    BY <2>2 DEF Request, QueueSolicitar, IssueLocal, RetryOutbox
  <2>3. CASE DbError(t)
    BY <2>3 DEF DbError
  <2> QED
    BY <2>1, <2>2, <2>3
<1> QED
  BY <1>1, <1>2 DEF TypeInv, TypeOK, LocalTypes

LEMMA NextApplied ==
  ASSUME OneProcess
  PROVE  TypeInv /\ AppliedInv /\ [Next]_vars => AppliedInv'
<1> SUFFICES ASSUME TypeInv, AppliedInv, [Next]_vars PROVE AppliedInv'
  OBVIOUS
<1> USE RowsAreJobs, RowsAssumption
    DEF DoneOK, InHandOK, Applied, IsActive, TypeInv, TypeOK, TableTypes, QueueTypes,
        LocalTypes, CurOK, cycleTable, outbox, locals, afip
<1>1. ASSUME NEW t \in Task, MayRun(t), Step(t) \/ Request(t) \/ DbError(t)
      PROVE  AppliedInv'
  <2>1. \A u \in Task : u # t => Suspended(u)'
    BY <1>1, OthersSuspended DEF Suspended
  <2>2. SUFFICES DoneOK' /\ InHandOK(t)'
    <3>1. \A u \in Task : u # t => InHandOK(u)'
      BY <2>1 DEF Suspended
    <3> QED
      BY <2>1, <2>2, <3>1, Zenon DEF AppliedInv
  <2> DoneOK /\ InHandOK(t)
    BY DEF AppliedInv
  <2>3. CASE StartBootstrap(t)
    BY <2>3 DEF StartBootstrap, Goto
  <2>4. CASE EnsureCycle(t)
    BY <2>4 DEF EnsureCycle, CreateCycle, IsActive, Goto
  <2>5. ASSUME NEW c \in Cycle, QueueSolicitar(t, c) PROVE DoneOK' /\ InHandOK(t)'
    BY <2>5 DEF QueueSolicitar, CreateCycle, Goto
  <2>6. ASSUME NEW v \in Invoice, IssueLocal(t, v) PROVE DoneOK' /\ InHandOK(t)'
    BY <2>6 DEF IssueLocal, IsActive, Goto
  <2>7. CASE RetryOutbox(t) \/ RunOutboxJob(t) \/ RunBootstrapped(t)
    BY <2>7, FetchCopies DEF RetryOutbox, RunOutboxJob, RunBootstrapped
  <2>8. CASE CreateLocalInvoice(t)
    <3>1. CASE invoiceStatus[cur[t]] = "absent"
      <4>1. DoneOK'
        <5> SUFFICES ASSUME NEW j \in Job, status'[j] = "done" PROVE Applied(j)'
          BY DEF DoneOK
        <5> QED
          <6>1. CASE j \in Cycle
            BY <2>8, <3>1, <6>1 DEF CreateLocalInvoice, Goto
          <6>2. CASE j \in Invoice
            BY <2>8, <3>1, <6>2 DEF CreateLocalInvoice, Goto
          <6> QED
            BY <6>1, <6>2 DEF Job
      <4>2. InHandOK(t)'
        BY <2>8, <3>1 DEF CreateLocalInvoice, Goto
      <4> QED
        BY <4>1, <4>2
    <3>2. CASE invoiceStatus[cur[t]] # "absent"
      BY <2>8, <3>2 DEF CreateLocalInvoice, Reset, Goto
    <3> QED
      BY <3>1, <3>2
  <2>9. CASE InsertJob(t)
    BY <2>9 DEF InsertJob, Goto
  <2>10. CASE SelectJob(t)
    BY <2>10 DEF SelectJob, Advance, AfterEnqueue, Goto
  <2>11. CASE RequeueJob(t)
    BY <2>11 DEF RequeueJob, Advance, AfterEnqueue, Goto
  <2>12. CASE Claim(t)
    BY <2>12 DEF Claim, Oldest, Goto
  <2>13. CASE EndRun(t)
    BY <2>13 DEF EndRun, Reset, Goto
  <2>14. CASE Answer(t)
    BY <2>14 DEF Answer, Good, Goto
  <2>15. CASE Apply(t)
    <3>1. CASE cur[t] \in Cycle
      <4>1. DoneOK'
        <5> SUFFICES ASSUME NEW j \in Job, status'[j] = "done" PROVE Applied(j)'
          BY DEF DoneOK
        <5> QED
          <6>1. CASE j \in Cycle
            BY <2>15, <3>1, <6>1 DEF Apply, Goto
          <6>2. CASE j \in Invoice
            BY <2>15, <3>1, <6>2 DEF Apply, Goto
          <6> QED
            BY <6>1, <6>2 DEF Job
      <4>2. InHandOK(t)'
        BY <2>15, <3>1 DEF Apply, Goto
      <4> QED
        BY <4>1, <4>2
    <3>2. CASE cur[t] \in Invoice
      <4>1. DoneOK'
        <5> SUFFICES ASSUME NEW j \in Job, status'[j] = "done" PROVE Applied(j)'
          BY DEF DoneOK
        <5> QED
          <6>1. CASE j \in Cycle
            BY <2>15, <3>2, <6>1 DEF Apply, Goto
          <6>2. CASE j \in Invoice
            BY <2>15, <3>2, <6>2 DEF Apply, Goto
          <6> QED
            BY <6>1, <6>2 DEF Job
      <4>2. InHandOK(t)'
        BY <2>15, <3>2 DEF Apply, Goto
      <4> QED
        BY <4>1, <4>2
    <3> QED
      BY <2>15, <3>1, <3>2 DEF Apply, Job
  <2>16. CASE MarkDone(t)
    BY <2>16 DEF MarkDone, Advance, Goto
  <2>17. CASE MarkRetry(t)
    BY <2>17 DEF MarkRetry, Tries, Goto
  <2>18. CASE BlameTarget(t)
    <3>1. CASE cur[t] \in Cycle
      <4>1. DoneOK'
        <5> SUFFICES ASSUME NEW j \in Job, status'[j] = "done" PROVE Applied(j)'
          BY DEF DoneOK
        <5> QED
          BY <2>18, <3>1 DEF BlameTarget, Advance, Goto
      <4>2. InHandOK(t)'
        BY <2>18, <3>1 DEF BlameTarget, Advance, Goto
      <4> QED
        BY <4>1, <4>2
    <3>2. CASE cur[t] \in Invoice
      <4>1. DoneOK'
        <5> SUFFICES ASSUME NEW j \in Job, status'[j] = "done" PROVE Applied(j)'
          BY DEF DoneOK
        <5> QED
          <6>1. CASE j \in Cycle
            BY <2>18, <3>2, <6>1 DEF BlameTarget, Advance, Goto
          <6>2. CASE j \in Invoice
            BY <2>18, <3>2, <6>2 DEF BlameTarget, Advance, Goto
          <6> QED
            BY <6>1, <6>2 DEF Job
      <4>2. InHandOK(t)'
        BY <2>18, <3>2 DEF BlameTarget, Advance, Goto
      <4> QED
        BY <4>1, <4>2
    <3> QED
      BY <2>18, <3>1, <3>2 DEF BlameTarget, Job
  <2>19. CASE DbError(t)
    BY <2>19 DEF DbError, Reset, Goto
  <2> QED
    BY <1>1, <2>3, <2>4, <2>5, <2>6, <2>7, <2>8, <2>9, <2>10, <2>11, <2>12, <2>13, <2>14, <2>15, <2>16, <2>17, <2>18, <2>19 DEF Step, Request
<1>2. ASSUME NEW p \in Process, Crash(p) PROVE AppliedInv'
  BY <1>2 DEF Crash, AppliedInv, Suspended
<1>3. ASSUME NEW j \in Job, BecomesDue(j) PROVE AppliedInv'
  BY <1>3 DEF BecomesDue, AppliedInv, Suspended
<1>4. ASSUME AfipRecovers PROVE AppliedInv'
  BY <1>4 DEF AfipRecovers, AppliedInv, Suspended
<1>5. ASSUME UNCHANGED vars PROVE AppliedInv'
  BY <1>5 DEF vars, AppliedInv, Suspended
<1> QED
  BY <1>1, <1>2, <1>3, <1>4, <1>5 DEF Next

(* With one process, a done job has had its effect, however many runs      *)
(* overlap and wherever the process crashes or a statement fails.          *)
THEOREM DoneApplied == ASSUME OneProcess PROVE Spec => []DoneMeansApplied
<1>1. Init => AppliedInv
  BY DEF Init, AppliedInv, DoneOK, InHandOK, Suspended
<1>2. AppliedInv => DoneMeansApplied
  BY RowsAreJobs, RowsAssumption DEF AppliedInv, DoneOK, DoneMeansApplied, Applied
<1> QED
  BY <1>1, <1>2, TypeCorrect, NextApplied, PTL DEF Spec

-----------------------------------------------------------------------------
(* A job in processing is in the hands of a coroutine: each statement that *)
(* ends such a hold also takes the job, and with it whoever else holds it, *)
(* out of processing.                                                      *)
Held(j) == \E t \in Task : /\ cur[t] = j
                          /\ pc[t] \in {"calling", "applying", "closing", "failing"}

LEMMA NextHeld ==
  ASSUME ~MayCrash, ~DbMayFail
  PROVE  TypeInv /\ ProcessingIsHeld /\ [Next]_vars => ProcessingIsHeld'
<1> SUFFICES ASSUME TypeInv, ProcessingIsHeld, [Next]_vars,
                    NEW j \in Job, status'[j] = "processing"
             PROVE  Held(j)'
  BY DEF ProcessingIsHeld, Held
<1> USE DEF TypeInv, TypeOK, QueueTypes, LocalTypes, CurOK, cycleTable, outbox, locals, afip
<1>1. status[j] = "processing" =>
          \E u \in Task : /\ cur[u] = j
                         /\ pc[u] \in {"calling", "applying", "closing", "failing"}
  BY DEF ProcessingIsHeld
<1>2. ASSUME NEW t \in Task, StartBootstrap(t) PROVE Held(j)'
  BY <1>1, <1>2 DEF Held, StartBootstrap, Goto
<1>3. ASSUME NEW t \in Task, EnsureCycle(t) PROVE Held(j)'
  BY <1>1, <1>3 DEF Held, EnsureCycle, CreateCycle, Goto
<1>4. ASSUME NEW t \in Task, NEW c \in Cycle, QueueSolicitar(t, c) PROVE Held(j)'
  BY <1>1, <1>4 DEF Held, QueueSolicitar, Goto
<1>5. ASSUME NEW t \in Task, NEW v \in Invoice, IssueLocal(t, v) PROVE Held(j)'
  BY <1>1, <1>5 DEF Held, IssueLocal, Goto
<1>6. ASSUME NEW t \in Task, RetryOutbox(t) \/ RunOutboxJob(t) \/ RunBootstrapped(t)
      PROVE Held(j)'
  BY <1>1, <1>6, FetchCopies DEF Held, RetryOutbox, RunOutboxJob, RunBootstrapped
<1>7. ASSUME NEW t \in Task, CreateLocalInvoice(t) PROVE Held(j)'
  BY <1>1, <1>7 DEF Held, CreateLocalInvoice, Reset, Goto
<1>8. ASSUME NEW t \in Task, InsertJob(t) PROVE Held(j)'
  BY <1>1, <1>8 DEF Held, InsertJob, Goto
<1>9. ASSUME NEW t \in Task, SelectJob(t) PROVE Held(j)'
  BY <1>1, <1>9 DEF Held, SelectJob, Advance, AfterEnqueue, Goto
<1>10. ASSUME NEW t \in Task, RequeueJob(t) PROVE Held(j)'
  BY <1>1, <1>10 DEF Held, RequeueJob, Advance, AfterEnqueue, Goto
<1>11. ASSUME NEW t \in Task, Claim(t) PROVE Held(j)'
  BY <1>1, <1>11 DEF Held, Claim, Oldest, Goto
<1>12. ASSUME NEW t \in Task, EndRun(t) PROVE Held(j)'
  BY <1>1, <1>12 DEF Held, EndRun, Reset, Goto
<1>13. ASSUME NEW t \in Task, Answer(t) PROVE Held(j)'
  BY <1>1, <1>13 DEF Held, Answer, Goto
<1>14. ASSUME NEW t \in Task, Apply(t) PROVE Held(j)'
  BY <1>1, <1>14 DEF Held, Apply, Goto
<1>15. ASSUME NEW t \in Task, MarkDone(t) PROVE Held(j)'
  BY <1>1, <1>15 DEF Held, MarkDone, Advance, Goto
<1>16. ASSUME NEW t \in Task, MarkRetry(t) PROVE Held(j)'
  BY <1>1, <1>16 DEF Held, MarkRetry, Goto
<1>17. ASSUME NEW t \in Task, BlameTarget(t) PROVE Held(j)'
  BY <1>1, <1>17 DEF Held, BlameTarget, Advance, Goto
<1>18. ASSUME NEW k \in Job, BecomesDue(k) PROVE Held(j)'
  BY <1>1, <1>18 DEF Held, BecomesDue
<1>19. ASSUME AfipRecovers \/ UNCHANGED vars PROVE Held(j)'
  BY <1>1, <1>19 DEF Held, AfipRecovers, vars
<1>20. (\A t \in Task : ~DbError(t)) /\ (\A p \in Process : ~Crash(p))
  BY DEF DbError, Crash
<1> QED
  BY <1>2, <1>3, <1>4, <1>5, <1>6, <1>7, <1>8, <1>9, <1>10, <1>11, <1>12, <1>13, <1>14, <1>15, <1>16, <1>17, <1>18, <1>19, <1>20 DEF Next, Step, Request

(* Without crashes and failing statements no job is ever orphaned in       *)
(* processing, however many processes drain the queue.                     *)
THEOREM ProcessingHeld ==
  ASSUME ~MayCrash, ~DbMayFail PROVE Spec => []ProcessingIsHeld
<1>1. Init => ProcessingIsHeld
  BY DEF Init, ProcessingIsHeld
<1> QED
  BY <1>1, TypeCorrect, NextHeld, PTL DEF Spec

-----------------------------------------------------------------------------
(* The jobs a run has copied, and those in hand, have their rows: rows are *)
(* never deleted.  Only the handler that issues an invoice takes a number  *)
(* without one.                                                            *)
RowHeld(t) ==
    /\ pc[t] \in {"looping", "calling", "applying", "closing", "failing", "blaming"}
         => \A j \in todo[t] : status[j] # "none"
    /\ pc[t] \in {"selecting", "requeueing", "calling", "applying", "closing", "failing", "blaming"}
         => status[cur[t]] # "none"
    /\ pc[t] = "issuing" => t \in ApiTask
RowInv == \A t \in Task : RowHeld(t)

LEMMA NextRows == TypeInv /\ RowInv /\ [Next]_vars => RowInv'
<1> SUFFICES ASSUME TypeInv, RowInv, [Next]_vars PROVE RowInv'
  OBVIOUS
<1> USE RowsAreJobs, RowsAssumption, TaskAssumption
    DEF RowInv, RowHeld, TypeInv, TypeOK, TableTypes, QueueTypes,
        LocalTypes, CurOK, Task, cycleTable, outbox, locals, afip
<1>1. ASSUME NEW t \in Task, StartBootstrap(t) PROVE RowInv'
  BY <1>1 DEF StartBootstrap, Goto
<1>2. ASSUME NEW t \in Task, EnsureCycle(t) PROVE RowInv'
  <2>1. PICK c \in Cycle : IF IsActive(c) THEN UNCHANGED <<pc, cur>>
                           ELSE Goto(t, "inserting") /\ cur' = [cur EXCEPT ![t] = c]
    BY <1>2 DEF EnsureCycle
  <2>2. /\ pc[t] = "ensuring" /\ UNCHANGED <<status, invoiceStatus>>
        /\ \A u \in Task : u # t => todo'[u] = todo[u]
    BY <1>2 DEF EnsureCycle
  <2>3. CASE IsActive(c)
    BY <2>1, <2>2, <2>3
  <2>4. CASE ~IsActive(c)
    BY <2>1, <2>2, <2>4 DEF Goto
  <2> QED
    BY <2>3, <2>4
<1>3. ASSUME NEW t \in Task, NEW c \in Cycle, QueueSolicitar(t, c) PROVE RowInv'
  BY <1>3 DEF QueueSolicitar, CreateCycle, Goto
<1>4. ASSUME NEW t \in Task, NEW v \in Invoice, IssueLocal(t, v) PROVE RowInv'
  BY <1>4 DEF IssueLocal, Goto
<1>5. ASSUME NEW t \in Task, RetryOutbox(t) \/ RunOutboxJob(t) \/ RunBootstrapped(t)
      PROVE  RowInv'
  <2>1. Fetch(t)
    BY <1>5 DEF RetryOutbox, RunOutboxJob, RunBootstrapped
  <2>2. pc' = [pc EXCEPT ![t] = "looping"] /\ UNCHANGED <<cur, status, invoiceStatus>>
    BY <2>1, FetchCopies
  <2>3. pc[t] \in {"idle", "ensuring"} /\ todo'[t] \subseteq Due
    BY <1>5, <2>1 DEF RetryOutbox, RunOutboxJob, RunBootstrapped, Fetch, Oldest
  <2>4. \A u \in Task : u # t => todo'[u] = todo[u]
    BY <2>1 DEF Fetch
  <2> QED
    BY <2>2, <2>3, <2>4 DEF Due
<1>6. ASSUME NEW t \in Task, CreateLocalInvoice(t) PROVE RowInv'
  <2>1. CASE invoiceStatus[cur[t]] = "absent"
    <3>1. /\ invoiceStatus' = [invoiceStatus EXCEPT ![cur[t]] = "issued_local"]
          /\ pc' = [pc EXCEPT ![t] = "inserting"]
          /\ pc[t] = "issuing" /\ UNCHANGED <<cur, todo, status>>
      BY <1>6, <2>1 DEF CreateLocalInvoice, Goto
    <3> QED
      BY <3>1
  <2>2. CASE invoiceStatus[cur[t]] # "absent"
    <3>1. /\ pc' = [pc EXCEPT ![t] = "idle"] /\ cur' = [cur EXCEPT ![t] = NoJob]
          /\ todo' = [todo EXCEPT ![t] = {}]
          /\ pc[t] = "issuing" /\ UNCHANGED <<status, invoiceStatus>>
      BY <1>6, <2>2 DEF CreateLocalInvoice, Reset, Goto
    <3> QED
      BY <3>1
  <2> QED
    BY <2>1, <2>2
<1>7. ASSUME NEW t \in Task, InsertJob(t) PROVE RowInv'
  <2>1. \A j \in Job : status[j] # "none" => status'[j] # "none"
    BY <1>7 DEF InsertJob
  <2>2. status'[cur[t]] # "none"
    BY <1>7 DEF InsertJob
  <2>3. pc' = [pc EXCEPT ![t] = "selecting"] /\ UNCHANGED <<cur, todo, invoiceStatus>>
    BY <1>7 DEF InsertJob, Goto
  <2> QED
    BY <2>1, <2>2, <2>3
<1>8. ASSUME NEW t \in Task, SelectJob(t) PROVE RowInv'
  <2>1. CASE status[cur[t]] = "failed"
    BY <1>8, <2>1 DEF SelectJob, Goto
  <2>2. CASE status[cur[t]] # "failed"
    <3>1. /\ pc' = [pc EXCEPT ![t] = AfterEnqueue(t)] /\ cur' = [cur EXCEPT ![t] = NoJob]
          /\ UNCHANGED <<todo, status, invoiceStatus>>
      BY <1>8, <2>2 DEF SelectJob, Advance, Goto
    <3> QED
      BY <1>8, <3>1 DEF AfterEnqueue, SelectJob
  <2> QED
    BY <2>1, <2>2
<1>9. ASSUME NEW t \in Task, RequeueJob(t) PROVE RowInv'
  BY <1>9 DEF RequeueJob, Advance, AfterEnqueue, Goto
<1>10. ASSUME NEW t \in Task, Claim(t) PROVE RowInv'
  BY <1>10 DEF Claim, Oldest, Goto
<1>11. ASSUME NEW t \in Task, EndRun(t) PROVE RowInv'
  BY <1>11 DEF EndRun, Reset, Goto
<1>12. ASSUME NEW t \in Task, Answer(t) PROVE RowInv'
  BY <1>12 DEF Answer, Good, Goto
<1>13. ASSUME NEW t \in Task, Apply(t) PROVE RowInv'
  BY <1>13 DEF Apply, Goto
<1>14. ASSUME NEW t \in Task, MarkDone(t) PROVE RowInv'
  <2>1. /\ status' = [status EXCEPT ![cur[t]] = "done"]
        /\ pc' = [pc EXCEPT ![t] = "looping"] /\ cur' = [cur EXCEPT ![t] = NoJob]
        /\ pc[t] = "closing" /\ UNCHANGED <<todo, invoiceStatus>>
    BY <1>14 DEF MarkDone, Advance, Goto
  <2> QED
    BY <2>1
<1>15. ASSUME NEW t \in Task, MarkRetry(t) PROVE RowInv'
  BY <1>15 DEF MarkRetry, Tries, Goto
<1>16. ASSUME NEW t \in Task, BlameTarget(t) PROVE RowInv'
  <2>1. /\ pc' = [pc EXCEPT ![t] = "looping"] /\ cur' = [cur EXCEPT ![t] = NoJob]
        /\ pc[t] = "blaming" /\ UNCHANGED <<todo, status>>
    BY <1>16 DEF BlameTarget, Advance, Goto
  <2> QED
    BY <2>1
<1>17. ASSUME NEW k \in Job, BecomesDue(k) PROVE RowInv'
  BY <1>17 DEF BecomesDue
<1>18. ASSUME AfipRecovers \/ UNCHANGED vars PROVE RowInv'
  BY <1>18 DEF AfipRecovers, vars
<1>19. ASSUME NEW t \in Task, DbError(t) PROVE RowInv'
  <2>1. CASE pc[t] \in {"applying", "closing"}
    BY <1>19, <2>1 DEF DbError, Goto
  <2>2. CASE pc[t] \notin {"applying", "closing"}
    <3>1. /\ pc' = [pc EXCEPT ![t] = "idle"] /\ cur' = [cur EXCEPT ![t] = NoJob]
          /\ todo' = [todo EXCEPT ![t] = {}] /\ UNCHANGED status
      BY <1>19, <2>2 DEF DbError, Reset, Goto
    <3> QED
      BY <3>1
  <2> QED
    BY <2>1, <2>2
<1>20. ASSUME NEW p \in Process, Crash(p) PROVE RowInv'
  BY <1>20 DEF Crash
<1> QED
  BY <1>1, <1>2, <1>3, <1>4, <1>5, <1>6, <1>7, <1>8, <1>9, <1>10, <1>11, <1>12, <1>13, <1>14, <1>15, <1>16, <1>17, <1>18, <1>19, <1>20 DEF Next, Step, Request

(* An invoice enters the table with the handler that creates its job. *)
LEMMA NextQueued ==
  ASSUME ~MayCrash, ~DbMayFail
  PROVE  TypeInv /\ RowInv /\ EveryInvoiceQueued /\ [Next]_vars => EveryInvoiceQueued'
<1> SUFFICES ASSUME TypeInv, RowInv, EveryInvoiceQueued, [Next]_vars PROVE EveryInvoiceQueued'
  OBVIOUS
<1> USE RowsAreJobs, RowsAssumption, TaskAssumption
    DEF RowInv, RowHeld, EveryInvoiceQueued, TypeInv, TypeOK, TableTypes, QueueTypes,
        LocalTypes, CurOK, Task, cycleTable, outbox, locals, afip
<1>1. ASSUME NEW t \in Task, StartBootstrap(t) PROVE EveryInvoiceQueued'
  BY <1>1 DEF StartBootstrap, Goto
<1>2. ASSUME NEW t \in Task, EnsureCycle(t) PROVE EveryInvoiceQueued'
  <2>1. PICK c \in Cycle : IF IsActive(c) THEN UNCHANGED <<pc, cur>>
                           ELSE Goto(t, "inserting") /\ cur' = [cur EXCEPT ![t] = c]
    BY <1>2 DEF EnsureCycle
  <2>2. /\ pc[t] = "ensuring" /\ UNCHANGED <<status, invoiceStatus>>
        /\ \A u \in Task : u # t => todo'[u] = todo[u]
    BY <1>2 DEF EnsureCycle
  <2>3. CASE IsActive(c)
    BY <2>1, <2>2, <2>3
  <2>4. CASE ~IsActive(c)
    BY <2>1, <2>2, <2>4 DEF Goto
  <2> QED
    BY <2>3, <2>4
<1>3. ASSUME NEW t \in Task, NEW c \in Cycle, QueueSolicitar(t, c) PROVE EveryInvoiceQueued'
  BY <1>3 DEF QueueSolicitar, CreateCycle, Goto
<1>4. ASSUME NEW t \in Task, NEW v \in Invoice, IssueLocal(t, v) PROVE EveryInvoiceQueued'
  BY <1>4 DEF IssueLocal, Goto
<1>5. ASSUME NEW t \in Task, RetryOutbox(t) \/ RunOutboxJob(t) \/ RunBootstrapped(t)
      PROVE  EveryInvoiceQueued'
  <2>1. Fetch(t)
    BY <1>5 DEF RetryOutbox, RunOutboxJob, RunBootstrapped
  <2>2. pc' = [pc EXCEPT ![t] = "looping"] /\ UNCHANGED <<cur, status, invoiceStatus>>
    BY <2>1, FetchCopies
  <2>3. pc[t] \in {"idle", "ensuring"} /\ todo'[t] \subseteq Due
    BY <1>5, <2>1 DEF RetryOutbox, RunOutboxJob, RunBootstrapped, Fetch, Oldest
  <2>4. \A u \in Task : u # t => todo'[u] = todo[u]
    BY <2>1 DEF Fetch
  <2> QED
    BY <2>2, <2>3, <2>4 DEF Due
<1>6. ASSUME NEW t \in Task, CreateLocalInvoice(t) PROVE EveryInvoiceQueued'
  <2>1. CASE invoiceStatus[cur[t]] = "absent"
    <3>1. /\ invoiceStatus' = [invoiceStatus EXCEPT ![cur[t]] = "issued_local"]
          /\ pc' = [pc EXCEPT ![t] = "inserting"]
          /\ pc[t] = "issuing" /\ UNCHANGED <<cur, todo, status>>
      BY <1>6, <2>1 DEF CreateLocalInvoice, Goto
    <3> QED
      BY <3>1
  <2>2. CASE invoiceStatus[cur[t]] # "absent"
    <3>1. /\ pc' = [pc EXCEPT ![t] = "idle"] /\ cur' = [cur EXCEPT ![t] = NoJob]
          /\ todo' = [todo EXCEPT ![t] = {}]
          /\ pc[t] = "issuing" /\ UNCHANGED <<status, invoiceStatus>>
      BY <1>6, <2>2 DEF CreateLocalInvoice, Reset, Goto
    <3> QED
      BY <3>1
  <2> QED
    BY <2>1, <2>2
<1>7. ASSUME NEW t \in Task, InsertJob(t) PROVE EveryInvoiceQueued'
  <2>1. \A j \in Job : status[j] # "none" => status'[j] # "none"
    BY <1>7 DEF InsertJob
  <2>2. status'[cur[t]] # "none"
    BY <1>7 DEF InsertJob
  <2>3. pc' = [pc EXCEPT ![t] = "selecting"] /\ UNCHANGED <<cur, todo, invoiceStatus>>
    BY <1>7 DEF InsertJob, Goto
  <2> QED
    BY <2>1, <2>2, <2>3
<1>8. ASSUME NEW t \in Task, SelectJob(t) PROVE EveryInvoiceQueued'
  <2>1. CASE status[cur[t]] = "failed"
    BY <1>8, <2>1 DEF SelectJob, Goto
  <2>2. CASE status[cur[t]] # "failed"
    <3>1. /\ pc' = [pc EXCEPT ![t] = AfterEnqueue(t)] /\ cur' = [cur EXCEPT ![t] = NoJob]
          /\ UNCHANGED <<todo, status, invoiceStatus>>
      BY <1>8, <2>2 DEF SelectJob, Advance, Goto
    <3> QED
      BY <1>8, <3>1 DEF AfterEnqueue, SelectJob
  <2> QED
    BY <2>1, <2>2
<1>9. ASSUME NEW t \in Task, RequeueJob(t) PROVE EveryInvoiceQueued'
  BY <1>9 DEF RequeueJob, Advance, AfterEnqueue, Goto
<1>10. ASSUME NEW t \in Task, Claim(t) PROVE EveryInvoiceQueued'
  BY <1>10 DEF Claim, Oldest, Goto
<1>11. ASSUME NEW t \in Task, EndRun(t) PROVE EveryInvoiceQueued'
  BY <1>11 DEF EndRun, Reset, Goto
<1>12. ASSUME NEW t \in Task, Answer(t) PROVE EveryInvoiceQueued'
  BY <1>12 DEF Answer, Good, Goto
<1>13. ASSUME NEW t \in Task, Apply(t) PROVE EveryInvoiceQueued'
  BY <1>13 DEF Apply, Goto
<1>14. ASSUME NEW t \in Task, MarkDone(t) PROVE EveryInvoiceQueued'
  <2>1. /\ status' = [status EXCEPT ![cur[t]] = "done"]
        /\ pc' = [pc EXCEPT ![t] = "looping"] /\ cur' = [cur EXCEPT ![t] = NoJob]
        /\ pc[t] = "closing" /\ UNCHANGED <<todo, invoiceStatus>>
    BY <1>14 DEF MarkDone, Advance, Goto
  <2> QED
    BY <2>1
<1>15. ASSUME NEW t \in Task, MarkRetry(t) PROVE EveryInvoiceQueued'
  BY <1>15 DEF MarkRetry, Tries, Goto
<1>16. ASSUME NEW t \in Task, BlameTarget(t) PROVE EveryInvoiceQueued'
  <2>1. /\ pc' = [pc EXCEPT ![t] = "looping"] /\ cur' = [cur EXCEPT ![t] = NoJob]
        /\ pc[t] = "blaming" /\ UNCHANGED <<todo, status>>
    BY <1>16 DEF BlameTarget, Advance, Goto
  <2>2. \A v \in Invoice : invoiceStatus'[v] # "absent" => invoiceStatus[v] # "absent" \/ v = cur[t]
    BY <1>16 DEF BlameTarget
  <2> QED
    BY <2>1, <2>2
<1>17. ASSUME NEW k \in Job, BecomesDue(k) PROVE EveryInvoiceQueued'
  BY <1>17 DEF BecomesDue
<1>18. ASSUME AfipRecovers \/ UNCHANGED vars PROVE EveryInvoiceQueued'
  BY <1>18 DEF AfipRecovers, vars
<1>19. (\A t \in Task : ~DbError(t)) /\ (\A p \in Process : ~Crash(p))
  BY DEF DbError, Crash
<1> QED
  BY <1>1, <1>2, <1>3, <1>4, <1>5, <1>6, <1>7, <1>8, <1>9, <1>10, <1>11, <1>12, <1>13, <1>14, <1>15, <1>16, <1>17, <1>18, <1>19 DEF Next, Step, Request

(* Without crashes and failing statements every invoice has its job, or    *)
(* its handler is about to create it, in any number of processes.          *)
THEOREM InvoicesQueued ==
  ASSUME ~MayCrash, ~DbMayFail PROVE Spec => []EveryInvoiceQueued
<1>1. Init => RowInv /\ EveryInvoiceQueued
  BY RowsAreJobs DEF Init, RowInv, RowHeld, EveryInvoiceQueued
<1> QED
  BY <1>1, TypeCorrect, NextRows, NextQueued, PTL DEF Spec

-----------------------------------------------------------------------------
(* Within a process nothing comes between finding a job failed and queueing *)
(* it again: the coroutine does not await anything there.                   *)
RequeueInv == \A t \in Task : pc[t] = "requeueing" => status[cur[t]] = "failed"

LEMMA NextRequeue ==
  ASSUME OneProcess
  PROVE  TypeInv /\ RequeueInv /\ [Next]_vars => RequeueInv'
<1> SUFFICES ASSUME TypeInv, RequeueInv, [Next]_vars PROVE RequeueInv'
  OBVIOUS
<1> USE DEF RequeueInv, TypeInv, TypeOK, LocalTypes, cycleTable, outbox, locals, afip
<1>1. ASSUME NEW t \in Task, MayRun(t), Step(t) \/ Request(t) \/ DbError(t)
      PROVE  RequeueInv'
  <2>1. \A u \in Task : u # t => pc'[u] # "requeueing"
    BY <1>1, OthersSuspended DEF Suspended
  <2>2. pc'[t] = "requeueing" => SelectJob(t) /\ status[cur[t]] = "failed"
    <3> USE DEF Goto, Reset, Advance, AfterEnqueue, Fetch
    <3>1. CASE Step(t)
      BY <3>1 DEF Step, StartBootstrap, EnsureCycle, CreateLocalInvoice, InsertJob,
         SelectJob, RequeueJob, RunOutboxJob, RunBootstrapped, Claim, EndRun, Answer,
         Apply, MarkDone, MarkRetry, BlameTarget
    <3>2. CASE Request(t)
      BY <3>2 DEF Request, QueueSolicitar, IssueLocal, RetryOutbox
    <3>3. CASE DbError(t)
      BY <3>3 DEF DbError
    <3> QED
      BY <1>1, <3>1, <3>2, <3>3
  <2>3. pc'[t] = "requeueing" => status'[cur'[t]] = "failed"
    BY <2>2 DEF SelectJob
  <2> QED
    BY <2>1, <2>3
<1>2. ASSUME NEW p \in Process, Crash(p) PROVE RequeueInv'
  BY <1>2 DEF Crash
<1>3. ASSUME NEW j \in Job, BecomesDue(j) PROVE RequeueInv'
  BY <1>3 DEF BecomesDue
<1>4. ASSUME AfipRecovers \/ UNCHANGED vars PROVE RequeueInv'
  BY <1>4 DEF AfipRecovers, vars
<1> QED
  BY <1>1, <1>2, <1>3, <1>4 DEF Next

(* Who takes a job out of done, and what a run that begins has copied. *)
Reopener(j) ==
    \E t \in Task : \/ pc[t] = "looping" /\ j \in todo[t]
                    \/ pc[t] = "failing" /\ cur[t] = j
OverlapOnly ==
    /\ \A j \in Job : status[j] = "done" /\ status'[j] # "done" => Reopener(j)
    /\ \A t \in Task : pc'[t] = "looping" /\ pc[t] \in {"idle", "ensuring"} =>
           \A j \in todo'[t] : status[j] # "done"

(* Every statement on the row of a job, one by one. *)
LEMMA StepReopens ==
  ASSUME TypeInv, RequeueInv, NEW t \in Task, Step(t) \/ Request(t) \/ DbError(t),
         NEW j \in Job, status[j] = "done", status'[j] # "done"
  PROVE  Reopener(j)
<1> USE DEF TypeInv, TypeOK, QueueTypes, LocalTypes, CurOK, cycleTable, outbox, locals, afip
<1>1. CASE InsertJob(t)
  BY <1>1 DEF InsertJob
<1>2. CASE RequeueJob(t)
  BY <1>2 DEF RequeueJob, RequeueInv
<1>3. CASE Claim(t)
  <2>1. PICK k \in todo[t] : status' = [status EXCEPT ![k] = "processing"]
    BY <1>3 DEF Claim, Oldest
  <2>2. k = j /\ pc[t] = "looping"
    BY <1>3, <2>1 DEF Claim
  <2> QED
    BY <2>1, <2>2 DEF Reopener
<1>4. CASE MarkDone(t)
  BY <1>4 DEF MarkDone
<1>5. CASE MarkRetry(t)
  <2>1. cur[t] = j /\ pc[t] = "failing"
    BY <1>5 DEF MarkRetry
  <2> QED
    BY <2>1 DEF Reopener
<1> QED
  BY <1>1, <1>2, <1>3, <1>4, <1>5
  DEF Step, Request, StartBootstrap, EnsureCycle, CreateLocalInvoice, SelectJob,
      RunOutboxJob, RunBootstrapped, EndRun, Answer, Apply, BlameTarget,
      QueueSolicitar, IssueLocal, RetryOutbox, Fetch, DbError

(* Only a fetch begins a run, and it takes rows that are due. *)
LEMMA StepFetches ==
  ASSUME TypeInv, NEW t \in Task, Step(t) \/ Request(t) \/ DbError(t),
         NEW u \in Task, pc'[u] = "looping", pc[u] \in {"idle", "ensuring"},
         NEW j \in todo'[u]
  PROVE  status[j] # "done"
<1> USE DEF TypeInv, TypeOK, LocalTypes, locals
<1>1. Fetch(u)
  <2> USE DEF Goto, Reset, Advance, AfterEnqueue, Fetch
  <2>1. CASE Step(t)
    BY <2>1 DEF Step, StartBootstrap, EnsureCycle, CreateLocalInvoice, InsertJob,
       SelectJob, RequeueJob, RunOutboxJob, RunBootstrapped, Claim, EndRun, Answer,
       Apply, MarkDone, MarkRetry, BlameTarget
  <2>2. CASE Request(t)
    BY <2>2 DEF Request, QueueSolicitar, IssueLocal, RetryOutbox
  <2>3. CASE DbError(t)
    BY <2>3 DEF DbError
  <2> QED
    BY <2>1, <2>2, <2>3
<1>2. j \in Due
  BY <1>1 DEF Fetch, Oldest
<1> QED
  BY <1>2 DEF Due

LEMMA NextReopens == TypeInv /\ RequeueInv /\ [Next]_vars => [OverlapOnly]_vars
<1> SUFFICES ASSUME TypeInv, RequeueInv, Next PROVE OverlapOnly
  OBVIOUS
<1>1. ASSUME NEW t \in Task, Step(t) \/ Request(t) \/ DbError(t) PROVE OverlapOnly
  BY <1>1, StepReopens, StepFetches DEF OverlapOnly
<1>2. ASSUME NEW p \in Process, Crash(p) PROVE OverlapOnly
  BY <1>2 DEF Crash, OverlapOnly, outbox, TypeInv, TypeOK, LocalTypes
<1>3. ASSUME NEW j \in Job, BecomesDue(j) PROVE OverlapOnly
  BY <1>3 DEF BecomesDue, OverlapOnly, locals
<1>4. ASSUME AfipRecovers PROVE OverlapOnly
  BY <1>4 DEF AfipRecovers, OverlapOnly, outbox, locals
<1> QED
  BY <1>1, <1>2, <1>3, <1>4 DEF Next

(* With one process, a done job is only ever reopened by a run that had    *)
(* copied or called it before, whatever is queued, requested or restarted. *)
THEOREM ReopenedByOverlap ==
  ASSUME OneProcess PROVE Spec => DoneReopenedOnlyByOverlap
<1>1. Init => RequeueInv
  BY DEF Init, RequeueInv
<1>2. [OverlapOnly]_vars => [/\ \A j \in Job : status[j] = "done" /\ status'[j] # "done" =>
                                   \E t \in Task : \/ pc[t] = "looping" /\ j \in todo[t]
                                                   \/ pc[t] = "failing" /\ cur[t] = j
                             /\ \A t \in Task : pc'[t] = "looping" /\ pc[t] \in {"idle", "ensuring"} =>
                                   \A j \in todo'[t] : status[j] # "done"]_vars
  BY Zenon DEF OverlapOnly, Reopener
<1> QED
  BY <1>1, <1>2, TypeCorrect, NextRequeue, NextReopens, PTL DEF Spec, DoneReopenedOnlyByOverlap

-----------------------------------------------------------------------------
(***************************************************************************)
(* The queue implements JobLifecycle.  Each statement is one of its steps  *)
(* on one job, or none of them.                                            *)
(***************************************************************************)
LifeInv == TypeInv /\ GrantInv /\ RowInv

Steady == UNCHANGED <<Rows, granted, Effects, Finished>>

LEMMA SteadyStutters == Steady => UNCHANGED Lifecycle!vars
BY DEF Steady, Lifecycle!vars

(* What a change of the status of one job is in the abstract. *)
LEMMA StatusMoves ==
  ASSUME TypeInv, NEW k \in Job, NEW s, s # "none",
         status' = [status EXCEPT ![k] = s]
  PROVE  /\ Rows' = Rows \cup {k}
         /\ s = "done" => Finished' = Finished \cup {k}
         /\ s # "done" => Finished' = Finished \ {k}
<1>1. \A j \in Job : status'[j] = IF j = k THEN s ELSE status[j]
  BY DEF TypeInv, TypeOK, QueueTypes
<1> QED
  BY <1>1 DEF Rows, Finished

LEMMA SameStatus == status' = status => Rows' = Rows /\ Finished' = Finished
BY DEF Rows, Finished

LEMMA SameEffects ==
  ASSUME UNCHANGED <<cycleStatus, hasCode, invoiceStatus>>
  PROVE  Effects' = Effects
BY DEF Effects, Applied, IsActive

(* An UPDATE of a row to anything but done. *)
LEMMA RowReopened ==
  ASSUME TypeInv, NEW k \in Rows, NEW s, s \notin {"none", "done"},
         status' = [status EXCEPT ![k] = s],
         UNCHANGED <<cycleStatus, hasCode, invoiceStatus, granted>>
  PROVE  k \in Job /\ Lifecycle!Reopen(k)
<1>1. k \in Job
  BY DEF Rows
<1>2. Rows' = Rows \cup {k} /\ Finished' = Finished \ {k}
  <2>1. s # "none" /\ s # "done"
    OBVIOUS
  <2> QED
    BY <1>1, <2>1, StatusMoves
<1> QED
  BY <1>1, <1>2, SameEffects DEF Lifecycle!Reopen

(* Filling the queue: only an INSERT shows, and the UPDATE of a row. *)
LEMMA FillMoves ==
  ASSUME LifeInv, NEW t \in Task,
         \/ StartBootstrap(t) \/ EnsureCycle(t) \/ Request(t)
         \/ CreateLocalInvoice(t) \/ InsertJob(t) \/ SelectJob(t) \/ RequeueJob(t)
  PROVE  Steady \/ \E j \in Job : Lifecycle!Enqueue(j) \/ Lifecycle!Reopen(j)
<1> USE DEF LifeInv, cycleTable, outbox, afip, locals
<1>1. CASE StartBootstrap(t)
  <2>1. cycleStatus' = cycleStatus
    BY <1>1 DEF StartBootstrap, GrantInv, CodeIsGranted, TypeInv, TypeOK, TableTypes
  <2>2. UNCHANGED <<hasCode, invoiceStatus, status, granted>>
    BY <1>1 DEF StartBootstrap
  <2> QED
    BY <2>1, <2>2, SameStatus, SameEffects DEF Steady
<1>2. ASSUME UNCHANGED <<hasCode, invoiceStatus, status, granted>>,
             NEW c \in Cycle, CreateCycle(c)
      PROVE  Steady
  <2>1. \A d \in Cycle : cycleStatus'[d] = "active" <=> cycleStatus[d] = "active"
    BY <1>2 DEF CreateCycle, TypeInv, TypeOK, TableTypes
  <2>2. Effects' = Effects
    BY <1>2, <2>1 DEF Effects, Applied, IsActive
  <2> QED
    BY <1>2, <2>2, SameStatus DEF Steady
<1>3. CASE EnsureCycle(t)
  <2>1. PICK c \in Cycle : CreateCycle(c)
    BY <1>3 DEF EnsureCycle, TypeInv, TypeOK, LocalTypes
  <2>2. UNCHANGED <<hasCode, invoiceStatus, status, granted>>
    BY <1>3, <2>1 DEF EnsureCycle, CreateCycle
  <2> QED
    BY <1>2, <2>1, <2>2
<1>4. ASSUME NEW c \in Cycle, QueueSolicitar(t, c) PROVE Steady
  <2>1. CreateCycle(c) /\ UNCHANGED <<hasCode, invoiceStatus, status, granted>>
    BY <1>4 DEF QueueSolicitar, CreateCycle
  <2> QED
    BY <1>2, <2>1
<1>5. ASSUME NEW v \in Invoice, IssueLocal(t, v) PROVE Steady
  BY <1>5, SameStatus, SameEffects DEF IssueLocal, Steady
<1>6. CASE RetryOutbox(t) \/ SelectJob(t)
  BY <1>6, SameStatus, SameEffects DEF RetryOutbox, Fetch, SelectJob, Steady
<1>7. CASE CreateLocalInvoice(t)
  <2>1. \A v \in Invoice : invoiceStatus'[v] = "informed" <=> invoiceStatus[v] = "informed"
    BY <1>7 DEF CreateLocalInvoice, TypeInv, TypeOK, TableTypes
  <2>2. UNCHANGED <<cycleStatus, hasCode, status, granted>>
    BY <1>7 DEF CreateLocalInvoice
  <2>3. Effects' = Effects
    BY <2>1, <2>2 DEF Effects, Applied, IsActive, Job
  <2> QED
    BY <2>2, <2>3, SameStatus DEF Steady
<1>8. CASE InsertJob(t)
  <2>1. cur[t] \in Job /\ UNCHANGED <<cycleStatus, hasCode, invoiceStatus, granted>>
    BY <1>8 DEF InsertJob, TypeInv, CurOK
  <2>2. CASE status[cur[t]] # "none"
    BY <1>8, <2>1, <2>2, SameStatus, SameEffects DEF InsertJob, Steady
  <2>3. CASE status[cur[t]] = "none"
    <3>1. status' = [status EXCEPT ![cur[t]] = "pending"]
      BY <1>8, <2>3 DEF InsertJob
    <3>2. Rows' = Rows \cup {cur[t]} /\ Finished' = Finished \ {cur[t]}
      <4>1. \A s : s # "none" /\ s # "done" /\ status' = [status EXCEPT ![cur[t]] = s] =>
                Rows' = Rows \cup {cur[t]} /\ Finished' = Finished \ {cur[t]}
        BY <2>1, StatusMoves
      <4>2. "pending" # "none" /\ "pending" # "done"
        OBVIOUS
      <4> QED
        BY <3>1, <4>1, <4>2
    <3>3. cur[t] \notin Finished
      BY <2>3 DEF Finished
    <3>4. Lifecycle!Enqueue(cur[t])
      BY <2>1, <3>2, <3>3, SameEffects DEF Lifecycle!Enqueue
    <3> QED
      BY <2>1, <3>4
  <2> QED
    BY <2>2, <2>3
<1>9. CASE RequeueJob(t)
  <2>1. /\ cur[t] \in Job /\ UNCHANGED <<cycleStatus, hasCode, invoiceStatus, granted>>
        /\ status' = [status EXCEPT ![cur[t]] = "pending"]
    BY <1>9 DEF RequeueJob, TypeInv, CurOK
  <2>2. cur[t] \in Rows
    BY <1>9, <2>1 DEF RequeueJob, RowInv, RowHeld, Rows
  <2> QED
    BY <2>1, <2>2, RowReopened
<1> QED
  BY <1>1, <1>3, <1>4, <1>5, <1>6, <1>7, <1>8, <1>9 DEF Request

(* A row is in hand wherever one is used. *)
LEMMA InHandRow ==
  ASSUME LifeInv, NEW t \in Task,
         pc[t] \in {"calling", "applying", "closing", "failing", "blaming"}
  PROVE  cur[t] \in Job /\ cur[t] \in Rows
BY DEF LifeInv, TypeInv, CurOK, RowInv, RowHeld, Rows

(* Draining it: the answer, the effect, and the marks short of done. *)
LEMMA DrainMoves ==
  ASSUME LifeInv, NEW t \in Task,
         \/ RunOutboxJob(t) \/ RunBootstrapped(t) \/ Claim(t) \/ EndRun(t) \/ Answer(t)
         \/ Apply(t) \/ MarkRetry(t) \/ DbError(t)
  PROVE  Steady \/ \E j \in Job : Lifecycle!Grant(j) \/ Lifecycle!Apply(j) \/ Lifecycle!Reopen(j)
<1> USE DEF LifeInv, cycleTable, outbox, afip, locals
<1>1. CASE RunOutboxJob(t) \/ RunBootstrapped(t) \/ EndRun(t) \/ DbError(t)
  BY <1>1, SameStatus, SameEffects DEF RunOutboxJob, RunBootstrapped, Fetch, EndRun, DbError, Steady
<1>2. CASE Claim(t)
  <2>1. PICK k \in todo[t] : status' = [status EXCEPT ![k] = "processing"]
    BY <1>2 DEF Claim, Oldest
  <2>2. k \in Rows /\ UNCHANGED <<cycleStatus, hasCode, invoiceStatus, granted>>
    BY <1>2 DEF Claim, RowInv, RowHeld, Rows, TypeInv, TypeOK, LocalTypes
  <2> QED
    BY <2>1, <2>2, RowReopened
<1>3. CASE Answer(t)
  <2>1. /\ cur[t] \in Job /\ cur[t] \in Rows
        /\ UNCHANGED <<cycleStatus, hasCode, invoiceStatus, status>>
        /\ granted' = granted \cup {cur[t]} \/ granted' = granted
    BY InHandRow, <1>3 DEF Answer
  <2>2. CASE granted' = granted
    BY <2>1, <2>2, SameStatus, SameEffects DEF Steady
  <2>3. CASE granted' = granted \cup {cur[t]}
    BY <2>1, <2>3, SameStatus, SameEffects DEF Lifecycle!Grant
  <2> QED
    BY <2>1, <2>2, <2>3
<1>4. CASE Apply(t)
  <2> DEFINE k == cur[t]
  <2>1. k \in Job /\ k \in Rows /\ UNCHANGED <<status, granted>> /\ (k \in Cycle => k \in granted)
    BY InHandRow, <1>4 DEF Apply, GrantInv
  <2>2. Effects' = Effects \cup {k}
    <3>1. CASE k \in Cycle
      <4>1. /\ cycleStatus' = [cycleStatus EXCEPT ![k] = "active"]
            /\ hasCode' = [hasCode EXCEPT ![k] = TRUE]
            /\ invoiceStatus' = invoiceStatus
        BY <1>4, <3>1 DEF Apply
      <4> QED
        BY <2>1, <3>1, <4>1 DEF Effects, Applied, IsActive, TypeInv, TypeOK, TableTypes
    <3>2. CASE k \notin Cycle
      <4>1. /\ invoiceStatus' = [invoiceStatus EXCEPT ![k] = "informed"]
            /\ UNCHANGED <<cycleStatus, hasCode>>
        BY <1>4, <3>2 DEF Apply
      <4> QED
        BY <2>1, <3>2, <4>1 DEF Effects, Applied, IsActive, TypeInv, TypeOK, TableTypes, Job
    <3> QED
      BY <3>1, <3>2
  <2> QED
    BY <2>1, <2>2, SameStatus DEF Lifecycle!Apply
<1>5. CASE MarkRetry(t)
  <2>1. /\ cur[t] \in Rows /\ UNCHANGED <<cycleStatus, hasCode, invoiceStatus, granted>>
    BY InHandRow, <1>5 DEF MarkRetry
  <2>2. \E s \in {"failed", "retrying"} : status' = [status EXCEPT ![cur[t]] = s]
    BY <1>5 DEF MarkRetry
  <2> QED
    BY <2>1, <2>2, RowReopened
<1> QED
  BY <1>1, <1>2, <1>3, <1>4, <1>5

(* The two statements whose place in the lifecycle hangs on there being    *)
(* one process: done, and the target's error.                              *)
LEMMA MarkDoneMoves ==
  ASSUME LifeInv, NEW t \in Task, MarkDone(t)
  PROVE  /\ cur[t] \in Job /\ UNCHANGED <<Rows, granted, Effects>>
         /\ Finished' = Finished \cup {cur[t]}
<1> USE DEF LifeInv, cycleTable, outbox, afip, locals
<1>1. /\ cur[t] \in Job /\ cur[t] \in Rows
      /\ UNCHANGED <<cycleStatus, hasCode, invoiceStatus, granted>>
      /\ status' = [status EXCEPT ![cur[t]] = "done"]
  BY InHandRow DEF MarkDone
<1>2. Rows' = Rows \cup {cur[t]} /\ Finished' = Finished \cup {cur[t]}
  BY <1>1, StatusMoves
<1> QED
  BY <1>1, <1>2, SameEffects

LEMMA BlameMoves ==
  ASSUME LifeInv, NEW t \in Task, BlameTarget(t)
  PROVE  /\ cur[t] \in Job /\ UNCHANGED <<Rows, granted, Finished>>
         /\ Effects' = Effects \ {cur[t]}
<1> USE DEF LifeInv, cycleTable, outbox, afip, locals
<1> DEFINE k == cur[t]
<1>1. k \in Job /\ UNCHANGED <<status, granted, hasCode>>
  BY InHandRow DEF BlameTarget
<1>2. Effects' = Effects \ {k}
  <2>1. CASE k \in Cycle
    <3>1. PICK s \in {"requested", "error"} : cycleStatus' = [cycleStatus EXCEPT ![k] = s]
      BY <2>1 DEF BlameTarget
    <3>2. invoiceStatus' = invoiceStatus
      BY <2>1 DEF BlameTarget
    <3> QED
      BY <1>1, <2>1, <3>1, <3>2 DEF Effects, Applied, IsActive, TypeInv, TypeOK, TableTypes
  <2>2. CASE k \notin Cycle
    <3>1. invoiceStatus' = [invoiceStatus EXCEPT ![k] = "error"] /\ cycleStatus' = cycleStatus
      BY <2>2 DEF BlameTarget
    <3> QED
      BY <1>1, <2>2, <3>1 DEF Effects, Applied, IsActive, TypeInv, TypeOK, TableTypes, Job
  <2> QED
    BY <2>1, <2>2
<1> QED
  BY <1>1, <1>2, SameStatus

(* What every statement does, in any number of processes. *)
LEMMA NextMoves ==
  ASSUME LifeInv, [Next]_vars
  PROVE  \/ Steady
         \/ \E j \in Job : \/ Lifecycle!Enqueue(j) \/ Lifecycle!Grant(j)
                          \/ Lifecycle!Apply(j) \/ Lifecycle!Reopen(j)
         \/ \E t \in Task : MarkDone(t) \/ BlameTarget(t)
<1>1. ASSUME \/ \E p \in Process : Crash(p)
             \/ \E j \in Job : BecomesDue(j)
             \/ AfipRecovers \/ UNCHANGED vars
      PROVE  Steady
  <2>1. UNCHANGED <<cycleStatus, hasCode, invoiceStatus, status, granted>>
    BY <1>1 DEF Crash, BecomesDue, AfipRecovers, vars, cycleTable, outbox, afip
  <2> QED
    BY <2>1, SameStatus, SameEffects DEF Steady
<1> QED
  BY <1>1, FillMoves, DrainMoves DEF Next, Step

LEMMA NextLifecycle ==
  LifeInv /\ AppliedInv /\ [Next]_vars => [Lifecycle!Next]_(Lifecycle!vars)
<1> SUFFICES ASSUME LifeInv, AppliedInv, [Next]_vars PROVE Lifecycle!Next \/ Steady
  BY SteadyStutters
<1>1. ASSUME NEW t \in Task, MarkDone(t) PROVE Lifecycle!Finish(cur[t])
  <2>1. cur[t] \in Job /\ Applied(cur[t])
    BY <1>1, MarkDoneMoves DEF MarkDone, AppliedInv, InHandOK
  <2>2. cur[t] \in Effects
    BY <2>1 DEF Effects
  <2> QED
    BY <1>1, <2>2, MarkDoneMoves DEF Lifecycle!Finish
<1>2. ASSUME NEW t \in Task, BlameTarget(t) PROVE Lifecycle!Undo(cur[t])
  <2>1. cur[t] \notin Finished
    BY <1>2 DEF BlameTarget, AppliedInv, InHandOK, Finished
  <2> QED
    BY <1>2, <2>1, BlameMoves DEF Lifecycle!Undo
<1> QED
  BY <1>1, <1>2, NextMoves, MarkDoneMoves, BlameMoves DEF Lifecycle!Next

LEMMA InitLife == Init => Lifecycle!Init /\ GrantInv /\ AppliedInv /\ RowInv
BY RowsAreJobs, RowsAssumption
DEF Init, Lifecycle!Init, Rows, Effects, Finished, Applied, IsActive, GrantInv,
    CodeIsGranted, AppliedInv, DoneOK, InHandOK, Suspended, RowInv, RowHeld, Job

(* With one process, the outbox with its two tables implements             *)
(* JobLifecycle, whatever overlaps, dies or raises.                        *)
THEOREM ImplementsLifecycle == ASSUME OneProcess PROVE Spec => LifecycleSpec
<1>1. Init => Lifecycle!Init /\ GrantInv /\ AppliedInv /\ RowInv
  BY InitLife
<1>2. TypeInv /\ GrantInv /\ AppliedInv /\ RowInv /\ [Next]_vars
          => [Lifecycle!Next]_(Lifecycle!vars)
  BY NextLifecycle DEF LifeInv
<1> QED
  BY <1>1, <1>2, TypeCorrect, NextGrant, NextApplied, NextRows, PTL
  DEF Spec, LifecycleSpec, Lifecycle!Spec

LifecycleProofs == INSTANCE JobLifecycle_proofs WITH
    Granted <- Cycle, asked <- Rows, applied <- Effects, done <- Finished

(* In one process AFIP hears only of jobs with a row, a cycle or invoice   *)
(* changes only for such a job, a code only by AFIP's grant, and what a    *)
(* row reports done stands in the tables.                                  *)
THEOREM QueueKeepsPromise == ASSUME OneProcess PROVE Spec => []Lifecycle!Promise
<1>1. LifecycleProofs!Spec => []LifecycleProofs!Promise
  BY LifecycleProofs!PromiseKept, PTL
<1>2. /\ Lifecycle!Init => LifecycleProofs!Init
      /\ [Lifecycle!Next]_(Lifecycle!vars) => [LifecycleProofs!Next]_(LifecycleProofs!vars)
      /\ LifecycleProofs!Promise => Lifecycle!Promise
  BY DEF Lifecycle!Init, Lifecycle!Next, Lifecycle!vars, Lifecycle!Promise,
     Lifecycle!Enqueue, Lifecycle!Grant, Lifecycle!Apply, Lifecycle!Finish,
     Lifecycle!Reopen, Lifecycle!Undo, LifecycleProofs!Init, LifecycleProofs!Next,
     LifecycleProofs!vars, LifecycleProofs!Promise, LifecycleProofs!Enqueue,
     LifecycleProofs!Grant, LifecycleProofs!Apply, LifecycleProofs!Finish,
     LifecycleProofs!Reopen, LifecycleProofs!Undo
<1>3. Lifecycle!Spec => []Lifecycle!Promise
  BY <1>1, <1>2, PTL DEF Lifecycle!Spec, LifecycleProofs!Spec
<1> QED
  BY <1>3, ImplementsLifecycle, PTL DEF LifecycleSpec

(***************************************************************************)
(* In several processes the lifecycle holds up to its last stage: with no  *)
(* job taken to be done, every statement is still one of its steps.        *)
(***************************************************************************)
Unmarked == INSTANCE JobLifecycle_proofs WITH
    Granted <- Cycle, asked <- Rows, applied <- Effects, done <- {}

LEMMA NextUnmarked == LifeInv /\ [Next]_vars => [Unmarked!Next]_(Unmarked!vars)
<1> SUFFICES ASSUME LifeInv, [Next]_vars PROVE [Unmarked!Next]_(Unmarked!vars)
  OBVIOUS
<1> USE DEF Unmarked!Next, Unmarked!vars
<1>1. CASE Steady
  BY <1>1 DEF Steady
<1>2. ASSUME NEW j \in Job, \/ Lifecycle!Enqueue(j) \/ Lifecycle!Grant(j)
                            \/ Lifecycle!Apply(j) \/ Lifecycle!Reopen(j)
      PROVE  [Unmarked!Next]_(Unmarked!vars)
  <2>1. CASE Lifecycle!Enqueue(j)
    BY <2>1 DEF Lifecycle!Enqueue, Unmarked!Enqueue
  <2>2. CASE Lifecycle!Grant(j)
    BY <2>2 DEF Lifecycle!Grant, Unmarked!Grant
  <2>3. CASE Lifecycle!Apply(j)
    BY <2>3 DEF Lifecycle!Apply, Unmarked!Apply
  <2>4. CASE Lifecycle!Reopen(j)
    BY <2>4 DEF Lifecycle!Reopen
  <2> QED
    BY <1>2, <2>1, <2>2, <2>3, <2>4
<1>3. ASSUME NEW t \in Task, MarkDone(t) PROVE UNCHANGED Unmarked!vars
  BY <1>3, MarkDoneMoves
<1>4. ASSUME NEW t \in Task, BlameTarget(t) PROVE Unmarked!Undo(cur[t])
  BY <1>4, BlameMoves DEF Unmarked!Undo
<1>5. ASSUME NEW t \in Task, BlameTarget(t) PROVE cur[t] \in Job
  BY <1>5, BlameMoves
<1> QED
  BY <1>1, <1>2, <1>3, <1>4, <1>5, NextMoves

(* However many processes share the queue, it has the lifecycle but for    *)
(* the mark of done: an effect follows the grant, a grant the row.         *)
THEOREM UnmarkedLifecycle == Spec => Unmarked!Spec
<1>1. Init => Unmarked!Init /\ GrantInv /\ RowInv
  BY InitLife DEF Lifecycle!Init, Unmarked!Init
<1>2. TypeInv /\ GrantInv /\ RowInv /\ [Next]_vars => [Unmarked!Next]_(Unmarked!vars)
  BY NextUnmarked DEF LifeInv
<1> QED
  BY <1>1, <1>2, TypeCorrect, NextGrant, NextRows, PTL DEF Spec, Unmarked!Spec

(* Between any processes, AFIP hears only of jobs with a row, a cycle gets *)
(* its code and an invoice is informed only by such a job, and a code is   *)
(* loaded only after AFIP's grant: what can go wrong is the mark.          *)
THEOREM AnyProcesses == Spec => []Unmarked!Promise
BY UnmarkedLifecycle, Unmarked!PromiseKept, PTL
=============================================================================
