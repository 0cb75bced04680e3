------------------------ MODULE RelayedCalls_proofs ------------------------
(***************************************************************************)
(* Theorems about RelayedCalls, for every set of requests and job runs:    *)
(* AFIP carries out a request at most once, the answers are true, events   *)
(* are traced and failures are told, and the log is a RequestLog.          *)
(***************************************************************************)
EXTENDS RelayedCalls, SequenceTheorems, FiniteSetTheorems, TLAPS

(* No exception reaches the decorator. *)
LEMMA NeverAgain == \A f \in Failure : \A n : ~Again(f, n)
BY DEF Again, Caught, Retryable

LEMMA CallsType == \A k : Calls(k) \in {1, 2} /\ (k # "readiness" => Calls(k) = 1)
BY DEF Calls

(* How far a task is: what it has sent is answered, in flight, or was      *)
(* carried out, and never more than its kind calls for.                    *)
Progress(t) ==
    /\ pc[t] \in {"new", "accepted"} =>
          attempts[t] = 0 /\ served[t] = 0 /\ answer[t] = "none"
    /\ pc[t] = "calling" =>
          /\ attempts[t] \in 1..Calls(kind[t]) /\ answer[t] = "none"
          /\ \/ inflight[t] = "sent" /\ served[t] = attempts[t] - 1
             \/ inflight[t] = "served" /\ served[t] = attempts[t]
    /\ pc[t] \in {"leaving", "done"} =>
          /\ answer[t] # "none" /\ served[t] <= Calls(kind[t])
          /\ answer[t] = "success" => served[t] = Calls(kind[t])
          /\ kind[t] \in Relayed /\ ~Ok(t) => served[t] = 0
(* The trace id in the context of a coroutine is that of its request. *)
Traced(t) ==
    trace[t] = IF t \in Request /\ pc[t] \in {"accepted", "calling", "leaving"} THEN t ELSE None
TaskTypes ==
    /\ pc \in [Task -> {"new", "accepted", "calling", "leaving", "done"}]
    /\ kind \in [Task -> Kind]
    /\ trace \in [Task -> Request \cup {None}]
    /\ attempts \in [Task -> 0..MaxTries]
    /\ inflight \in [Task -> {"none", "sent", "served"}]
    /\ served \in [Task -> 0..MaxTries]
    /\ answer \in [Task -> Answer]
TaskInv == TaskTypes /\ \A t \in Task : Progress(t) /\ Traced(t)

LEMMA InitTasks == Init => TaskInv
<1> USE DEF TaskInv, TaskTypes, Progress, Traced, Init, MaxTries, Answer
<1> QED
  OBVIOUS

(* What a step of t changes of the tasks. *)
LEMMA StepTasks ==
  ASSUME TaskInv, NEW t \in Task,
         \/ Accept(t) \/ StartJob(t) \/ Handle(t)
         \/ AfipServes(t) \/ CallEnds(t) \/ Leave(t) \/ EndJob(t)
  PROVE  TaskInv'
<1> USE TasksAssumption, CallsType
    DEF TaskInv, TaskTypes, Progress, Traced, Ok, MaxTries, Answer, Task
<1>1. CASE Accept(t)
  BY <1>1 DEF Accept, SetTrace
<1>2. CASE StartJob(t)
  BY <1>2 DEF StartJob
<1>3. CASE Reject(t)
  BY <1>3 DEF Reject, End
<1>4. CASE CallWithTicket(t)
  BY <1>4 DEF CallWithTicket, Send, End, Relayed, Handlers
<1>5. CASE CallLogin(t)
  BY <1>5 DEF CallLogin, Send, End, Relayed, Handlers
<1>6. CASE Probe(t)
  BY <1>6 DEF Probe, Send
<1>7. CASE AfipServes(t)
  BY <1>7 DEF AfipServes
<1>8. CASE CallAnswered(t)
  BY <1>8 DEF CallAnswered, End, Relayed, Handlers
<1>9. ASSUME NEW f \in Failure, CallFailed(t, f) PROVE TaskInv'
  BY <1>9, NeverAgain DEF CallFailed, Caught, End
<1>10. CASE DummyAnswered(t)
  BY <1>10 DEF DummyAnswered, Send, End
<1>11. CASE DummyFailed(t)
  BY <1>11 DEF DummyFailed, End, Relayed, Handlers
<1>12. CASE Leave(t)
  BY <1>12 DEF Leave
<1>13. CASE EndJob(t)
  BY <1>13 DEF EndJob
<1> QED
  BY <1>1, <1>2, <1>3, <1>4, <1>5, <1>6, <1>7, <1>8, <1>9, <1>10, <1>11, <1>12, <1>13 DEF Handle, CallEnds

LEMMA NextTasks == TaskInv /\ [Next]_vars => TaskInv'
<1>1. CASE UNCHANGED vars
  BY <1>1 DEF vars, TaskInv, TaskTypes, Progress, Traced, Ok
<1> QED
  BY <1>1, StepTasks DEF Next

(* What every task has sent, AFIP has carried out and the task was told    *)
(* agree at every step, whatever the other tasks do.                       *)
THEOREM TasksCorrect == Spec => []TaskInv
BY InitTasks, NextTasks, PTL DEF Spec

(* AFIP carries out a request once, a probe's two dummies once each.       *)
THEOREM ServedOnce == Spec => []OncePerRequest
<1>1. TaskInv => OncePerRequest
  BY CallsType DEF TaskInv, TaskTypes, Progress, OncePerRequest
<1> QED
  BY <1>1, TasksCorrect, PTL

(* What a client may conclude from its answer is so. *)
THEOREM AnswersTrue == Spec => []AnswerIsTrue
<1>1. TaskInv => AnswerIsTrue
  BY DEF TaskInv, TaskTypes, Progress, AnswerIsTrue, Ok
<1> QED
  BY <1>1, TasksCorrect, PTL

-----------------------------------------------------------------------------
(* What a step adds to the log and to the events. *)
LEMMA StepTraces ==
  ASSUME TaskInv, NEW t \in Task,
         \/ Accept(t) \/ StartJob(t) \/ Handle(t)
         \/ AfipServes(t) \/ CallEnds(t) \/ EndJob(t)
  PROVE  /\ UNCHANGED log
         /\ events' = events \/ (pc[t] \in {"accepted", "calling"}
                                 /\ \E s \in {"started", "success", "error"} : Emit(t, {s}))
         /\ \A u \in Task : (pc'[u] # "new" /\ pc'[u] # "done") \/ pc'[u] = pc[u] \/ u \in JobRun
         /\ \A u \in Task : answer[u] = "error" => answer'[u] = answer[u]
         /\ \A u \in Task : answer'[u] = "error" /\ answer[u] # "error" =>
                u = t /\ Emit(t, {"error"})
<1> USE DEF TaskInv, TaskTypes, Progress, Task
<1>1. CASE Accept(t)
  BY <1>1 DEF Accept
<1>2. CASE StartJob(t)
  BY <1>2 DEF StartJob
<1>3. CASE Reject(t)
  BY <1>3 DEF Reject, End
<1>4. CASE CallWithTicket(t)
  BY <1>4 DEF CallWithTicket, Send, End
<1>5. CASE CallLogin(t)
  BY <1>5 DEF CallLogin, Send, End
<1>6. CASE Probe(t)
  BY <1>6 DEF Probe, Send
<1>7. CASE AfipServes(t)
  BY <1>7 DEF AfipServes
<1>8. CASE CallAnswered(t)
  BY <1>8 DEF CallAnswered, End
<1>9. ASSUME NEW f \in Failure, CallFailed(t, f)
      PROVE  /\ UNCHANGED log /\ pc[t] = "calling" /\ answer[t] = "none"
             /\ pc' = [pc EXCEPT ![t] = "leaving"]
             /\ answer' = [answer EXCEPT ![t] = "error"]
             /\ Emit(t, {"error"})
  BY <1>9, NeverAgain DEF CallFailed, Caught, End
<1>10. CASE DummyAnswered(t)
  BY <1>10 DEF DummyAnswered, Send, End
<1>11. CASE DummyFailed(t)
  BY <1>11 DEF DummyFailed, End
<1>12. CASE EndJob(t)
  BY <1>12 DEF EndJob
<1>13. CASE \E f \in Failure : CallFailed(t, f)
  BY <1>9, <1>13
<1> QED
  BY <1>1, <1>2, <1>3, <1>4, <1>5, <1>6, <1>7, <1>8, <1>10, <1>11, <1>12, <1>13 DEF Handle, CallEnds

LEMMA OverStaysOver ==
  ASSUME TaskInv, NEW t \in Task,
         \/ Accept(t) \/ StartJob(t) \/ Handle(t)
         \/ AfipServes(t) \/ CallEnds(t) \/ EndJob(t),
         NEW u \in Task, pc[u] = "done"
  PROVE  pc'[u] = "done" /\ answer'[u] = answer[u]
<1> USE DEF TaskInv, TaskTypes, End, Send
<1>1. \A f \in Failure : CallFailed(t, f) => pc'[u] = "done" /\ answer'[u] = answer[u]
  BY NeverAgain DEF CallFailed
<1> QED
  BY <1>1 DEF Accept, StartJob, Handle, Reject, CallWithTicket, CallLogin, Probe, AfipServes,
     CallEnds, CallAnswered, DummyAnswered, DummyFailed, EndJob

(* The log and the events say what has become of the requests. *)
TraceInv ==
    /\ log \in Seq([request : Request, ok : BOOLEAN])
    /\ events \subseteq Event /\ EventsTraced
    /\ \A t \in Request : answer[t] = "error" =>
          \E e \in events : e.trace = t /\ e.status = "error"
    /\ \A t \in Request : pc[t] = "done" /\ answer[t] \in {"rejected", "raised"} =>
          \E i \in DOMAIN log : log[i].request = t /\ ~log[i].ok

LEMMA EmitTraced ==
  ASSUME TaskInv, events \subseteq Event, EventsTraced, NEW t \in Task,
         pc[t] \in {"accepted", "calling", "leaving"},
         NEW S \in SUBSET {"started", "success", "error"}, Emit(t, S)
  PROVE  /\ events' \subseteq Event /\ EventsTraced' /\ events \subseteq events'
         /\ t \in Request /\ "error" \in S =>
                \E e \in events' : e.trace = t /\ e.status = "error"
<1>1. trace[t] = IF t \in Request THEN t ELSE None
  BY DEF TaskInv, Traced
<1>2. events' = events \cup {[trace |-> trace[t], by |-> t, status |-> s] : s \in S}
  BY DEF Emit
<1>3. \A s \in S : [trace |-> trace[t], by |-> t, status |-> s] \in Event
  BY <1>1 DEF Event
<1>4. events' \subseteq Event /\ events \subseteq events'
  BY <1>2, <1>3
<1>5. EventsTraced'
  <2> SUFFICES ASSUME NEW e \in events'
               PROVE  e.trace = IF e.by \in Request THEN e.by ELSE None
    BY DEF EventsTraced
  <2> QED
    BY <1>1, <1>2 DEF EventsTraced
<1>6. ASSUME t \in Request, "error" \in S
      PROVE  \E e \in events' : e.trace = t /\ e.status = "error"
  <2> DEFINE e == [trace |-> trace[t], by |-> t, status |-> "error"]
  <2>1. e \in events' /\ e.trace = t /\ e.status = "error"
    BY <1>1, <1>2, <1>6
  <2> QED
    BY <2>1
<1> QED
  BY <1>4, <1>5, <1>6

LEMMA InitTraces == Init => TraceInv
<1> SUFFICES ASSUME Init PROVE TraceInv
  OBVIOUS
<1>1. <<>> \in Seq([request : Request, ok : BOOLEAN])
  OBVIOUS
<1> QED
  BY <1>1 DEF Init, TraceInv, EventsTraced, Task

LEMMA LeaveTraces ==
  ASSUME TaskInv, TraceInv, NEW t \in Task, Leave(t)
  PROVE  TraceInv'
<1> DEFINE entry == [request |-> t, ok |-> Ok(t)]
<1>1. /\ t \in Request /\ t \in Task /\ pc[t] = "leaving" /\ log' = Append(log, entry)
      /\ pc' = [pc EXCEPT ![t] = "done"] /\ UNCHANGED answer
  BY DEF Leave, Task
<1>2. entry \in [request : Request, ok : BOOLEAN] /\ entry.request = t /\ entry.ok = Ok(t)
  BY <1>1 DEF Ok
<1> HIDE DEF entry
<1>3. /\ log' \in Seq([request : Request, ok : BOOLEAN])
      /\ Len(log') = Len(log) + 1 /\ Len(log) \in Nat
      /\ log'[Len(log) + 1] = entry
      /\ \A i \in 1..Len(log) : log'[i] = log[i]
  BY <1>1, <1>2, AppendProperties, LenProperties DEF TraceInv
<1>4. DOMAIN log = 1..Len(log) /\ DOMAIN log' = 1..(Len(log) + 1)
  BY <1>3, LenProperties DEF TraceInv
<1>5. events' \subseteq Event /\ EventsTraced' /\ events \subseteq events'
  <2>1. PICK S \in SUBSET {"started", "success", "error"} : Emit(t, S)
    BY DEF Leave
  <2> QED
    BY <1>1, <2>1, EmitTraced DEF TraceInv
<1>6. ASSUME NEW u \in Request, answer'[u] = "error"
      PROVE  \E e \in events' : e.trace = u /\ e.status = "error"
  BY <1>1, <1>5, <1>6 DEF TraceInv
<1>7. ASSUME NEW u \in Request, pc'[u] = "done", answer'[u] \in {"rejected", "raised"}
      PROVE  \E i \in DOMAIN log' : log'[i].request = u /\ ~log'[i].ok
  <2>1. CASE u = t
    <3>1. ~Ok(t)
      BY <1>1, <1>7, <2>1 DEF Ok
    <3>2. Len(log) + 1 \in DOMAIN log'
      BY <1>3, <1>4
    <3> QED
      BY <1>2, <1>3, <2>1, <3>1, <3>2
  <2>2. CASE u # t
    <3>1. PICK i \in DOMAIN log : log[i].request = u /\ ~log[i].ok
      BY <1>1, <1>7, <2>2 DEF TraceInv, TaskInv, TaskTypes
    <3>2. i \in DOMAIN log' /\ log'[i] = log[i]
      BY <1>3, <1>4
    <3> QED
      BY <3>1, <3>2
  <2> QED
    BY <2>1, <2>2
<1> QED
  BY <1>3, <1>5, <1>6, <1>7 DEF TraceInv

LEMMA NextTraces == TaskInv /\ TraceInv /\ [Next]_vars => TraceInv'
<1> SUFFICES ASSUME TaskInv, TraceInv, [Next]_vars PROVE TraceInv'
  OBVIOUS
<1>1. ASSUME NEW t \in Task,
             \/ Accept(t) \/ StartJob(t) \/ Handle(t)
             \/ AfipServes(t) \/ CallEnds(t) \/ EndJob(t)
      PROVE  TraceInv'
  <2>1. events' \subseteq Event /\ EventsTraced' /\ events \subseteq events'
    <3>1. CASE events' = events
      BY <3>1 DEF TraceInv, EventsTraced
    <3>2. CASE events' # events
      <4>1. PICK s \in {"started", "success", "error"} : Emit(t, {s})
        BY <1>1, <3>2, StepTraces
      <4>2. pc[t] \in {"accepted", "calling", "leaving"}
        BY <1>1, <3>2, StepTraces
      <4> QED
        BY <4>1, <4>2, EmitTraced DEF TraceInv
    <3> QED
      BY <3>1, <3>2
  <2>2. ASSUME NEW u \in Request, answer'[u] = "error"
        PROVE  \E e \in events' : e.trace = u /\ e.status = "error"
    <3>1. CASE answer[u] = "error"
      BY <2>1, <3>1 DEF TraceInv
    <3>2. CASE answer[u] # "error"
      <4>1. u = t /\ Emit(t, {"error"})
        BY <1>1, <2>2, <3>2, StepTraces DEF Task
      <4>2. pc[t] \in {"accepted", "calling", "leaving"} \/ events' = events
        BY <1>1, StepTraces
      <4>3. [trace |-> trace[t], by |-> t, status |-> "error"] \in events'
        BY <4>1 DEF Emit
      <4>4. CASE pc[t] \in {"accepted", "calling", "leaving"}
        BY <4>1, <4>4, EmitTraced DEF TraceInv
      <4>5. CASE events' = events
        BY <4>1, <4>3, <4>5 DEF TraceInv, EventsTraced
      <4> QED
        BY <4>2, <4>4, <4>5
    <3> QED
      BY <3>1, <3>2
  <2>3. ASSUME NEW u \in Request, pc'[u] = "done", answer'[u] \in {"rejected", "raised"}
        PROVE  \E i \in DOMAIN log' : log'[i].request = u /\ ~log'[i].ok
    <3>1. u \notin JobRun /\ u \in Task
      BY TasksAssumption DEF Task
    <3>2. log' = log /\ pc[u] = "done"
      BY <1>1, <2>3, <3>1, StepTraces
    <3>3. answer'[u] = answer[u]
      BY <1>1, <3>1, <3>2, OverStaysOver
    <3> QED
      BY <2>3, <3>2, <3>3 DEF TraceInv
  <2> QED
    BY <1>1, <2>1, <2>2, <2>3, StepTraces DEF TraceInv
<1>2. CASE UNCHANGED vars
  BY <1>2 DEF vars, TraceInv, EventsTraced
<1> QED
  BY <1>1, <1>2, LeaveTraces DEF Next

(* Events and log entries are those of the requests they name, and none is *)
(* missing for a failure.                                                  *)
THEOREM TracesKept == Spec => []TraceInv
BY InitTraces, NextTraces, TasksCorrect, PTL DEF Spec

(* Every event bears the trace id of the request that caused it. *)
THEOREM EventsAlwaysTraced == Spec => []EventsTraced
<1>1. TraceInv => EventsTraced
  BY DEF TraceInv
<1> QED
  BY <1>1, TracesKept, PTL

(* The type invariant the run checks. *)
THEOREM TypesKept == Spec => []TypeOK
<1>1. TaskInv /\ TraceInv => TypeOK
  BY DEF TaskInv, TaskTypes, TraceInv, TypeOK
<1> QED
  BY <1>1, TasksCorrect, TracesKept, PTL

(* No failure goes untold. *)
THEOREM FailuresTold == Spec => []FailuresLeaveTrace
<1>1. TaskInv /\ TraceInv => FailuresLeaveTrace
  <2> SUFFICES ASSUME TaskInv, TraceInv, NEW t \in Request, pc[t] = "done", answer[t] # "success"
               PROVE  \/ \E i \in DOMAIN log : log[i].request = t /\ ~log[i].ok
                      \/ \E e \in events : e.trace = t /\ e.status = "error"
    BY DEF FailuresLeaveTrace
  <2>1. answer[t] \in {"error", "rejected", "raised"}
    BY DEF TaskInv, TaskTypes, Progress, Answer, Task
  <2> QED
    BY <2>1 DEF TraceInv
<1> QED
  BY <1>1, TasksCorrect, TracesKept, PTL

-----------------------------------------------------------------------------
(* The log holds one entry per request that is over, which is what bounds  *)
(* it.                                                                     *)
Over == {t \in Request : pc[t] = "done"}
Counted == Len(log) = Cardinality(Over)

LEMMA InitCounted == Init => Counted
<1> SUFFICES ASSUME Init PROVE Counted
  OBVIOUS
<1>1. Over = {} /\ Len(log) = 0
  BY DEF Init, Over, Task
<1> QED
  BY <1>1, FS_EmptySet DEF Counted

LEMMA LeaveCounted ==
  ASSUME IsFiniteSet(Request), TaskInv, TraceInv, Counted, NEW t \in Task, Leave(t)
  PROVE  /\ Counted' /\ Len(log) < Cardinality(Request)
         /\ Len(log) \in Nat /\ Cardinality(Request) \in Nat
<1>1. /\ t \in Request /\ pc[t] = "leaving" /\ pc' = [pc EXCEPT ![t] = "done"]
      /\ log' = Append(log, [request |-> t, ok |-> Ok(t)])
  BY DEF Leave
<1>2. Over' = Over \cup {t} /\ t \notin Over /\ Over \subseteq Request
  BY <1>1 DEF Over, TaskInv, TaskTypes, Task
<1>3. IsFiniteSet(Over)
  BY <1>2, FS_Subset
<1>4. Cardinality(Over') = Cardinality(Over) + 1
  BY <1>2, <1>3, FS_AddElement
<1>5. Over' \subseteq Request
  BY <1>1, <1>2
<1>6. Cardinality(Over') <= Cardinality(Request)
  BY <1>5, FS_Subset
<1>7. Cardinality(Over) \in Nat /\ Cardinality(Request) \in Nat
  BY <1>3, FS_CardinalityType
<1>8. Len(log') = Len(log) + 1
  BY <1>1, AppendProperties DEF TraceInv, Ok
<1> QED
  BY <1>4, <1>6, <1>7, <1>8 DEF Counted

LEMMA NextCounted ==
  ASSUME IsFiniteSet(Request)
  PROVE  TaskInv /\ TraceInv /\ Counted /\ [Next]_vars => Counted'
<1> SUFFICES ASSUME TaskInv, TraceInv, Counted, [Next]_vars PROVE Counted'
  OBVIOUS
<1>1. ASSUME NEW t \in Task,
             \/ Accept(t) \/ StartJob(t) \/ Handle(t)
             \/ AfipServes(t) \/ CallEnds(t) \/ EndJob(t)
      PROVE  Counted'
  <2>1. log' = log
    BY <1>1, StepTraces
  <2>2. ASSUME NEW u \in Request PROVE pc'[u] = "done" <=> pc[u] = "done"
    <3>1. u \notin JobRun /\ u \in Task
      BY TasksAssumption DEF Task
    <3> QED
      BY <1>1, <3>1, StepTraces, OverStaysOver
  <2>3. Over' = Over
    BY <2>2 DEF Over
  <2> QED
    BY <2>1, <2>3 DEF Counted
<1>2. CASE UNCHANGED vars
  BY <1>2 DEF vars, Counted, Over
<1> QED
  BY <1>1, <1>2, LeaveCounted DEF Next

(* Leave is an Exchange of the request log, every other step a stutter. *)
ToLog == [i \in DOMAIN log |-> [at |-> 0, ok |-> log[i].ok]]

LEMMA LeaveIsExchange ==
  ASSUME IsFiniteSet(Request), TaskInv, TraceInv, Counted, NEW t \in Task, Leave(t)
  PROVE  /\ Len(ToLog) < Cardinality(Request)
         /\ ToLog' = Append(ToLog, [at |-> 0, ok |-> Ok(t)])
         /\ Len(ToLog') \in Nat /\ Cardinality(Request) \in Nat
         /\ Len(ToLog') <= Cardinality(Request)
<1>1. /\ t \in Request /\ log' = Append(log, [request |-> t, ok |-> Ok(t)])
      /\ log \in Seq([request : Request, ok : BOOLEAN])
  BY DEF Leave, TraceInv
<1>2. Len(log) < Cardinality(Request) /\ Len(log) \in Nat /\ Cardinality(Request) \in Nat
  BY LeaveCounted
<1>3. /\ DOMAIN log = 1..Len(log) /\ DOMAIN log' = 1..(Len(log) + 1)
      /\ log'[Len(log) + 1].ok = Ok(t)
      /\ \A i \in 1..Len(log) : log'[i] = log[i]
  BY <1>1, AppendProperties, LenProperties DEF Ok
<1> DEFINE E == [at : {0}, ok : BOOLEAN]
           e == [at |-> 0, ok |-> Ok(t)]
<1>4. ToLog \in Seq(E) /\ Len(ToLog) = Len(log)
  <2>1. \A i \in 1..Len(log) : log[i] \in [request : Request, ok : BOOLEAN]
    BY <1>1, ElementOfSeq
  <2> QED
    BY <1>2, <1>3, <2>1 DEF ToLog
<1>5. ToLog' = [i \in 1..(Len(log) + 1) |-> [at |-> 0, ok |-> log'[i].ok]]
  BY <1>3 DEF ToLog
<1>6. e \in E
  BY DEF Ok
<1> HIDE DEF E, e
<1>7. Append(ToLog, e) = [i \in 1..(Len(log) + 1) |-> IF i = Len(log) + 1 THEN e ELSE ToLog[i]]
  <2>1. /\ Append(ToLog, e) \in Seq(E) /\ Len(Append(ToLog, e)) = Len(log) + 1
        /\ Append(ToLog, e)[Len(log) + 1] = e
        /\ \A i \in 1..Len(log) : Append(ToLog, e)[i] = ToLog[i]
    BY <1>4, <1>6, AppendProperties
  <2>2. \A i \in 1..(Len(log) + 1) : i # Len(log) + 1 => i \in 1..Len(log)
    BY <1>2
  <2>3. Append(ToLog, e) = [i \in 1..(Len(log) + 1) |-> Append(ToLog, e)[i]]
    BY <2>1, LenProperties
  <2> QED
    BY <2>1, <2>2, <2>3
<1>8. \A i \in 1..(Len(log) + 1) :
        [at |-> 0, ok |-> log'[i].ok] = IF i = Len(log) + 1 THEN e ELSE ToLog[i]
  <2> TAKE i \in 1..(Len(log) + 1)
  <2>1. CASE i = Len(log) + 1
    BY <1>3, <2>1 DEF e
  <2>2. CASE i # Len(log) + 1
    <3>1. i \in 1..Len(log)
      BY <1>2, <2>2
    <3> QED
      BY <1>3, <2>2, <3>1 DEF ToLog
  <2> QED
    BY <2>1, <2>2
<1>9. ToLog' = Append(ToLog, e)
  BY <1>5, <1>7, <1>8
<1>10. Len(Append(ToLog, e)) = Len(ToLog) + 1
  BY <1>4, <1>6, AppendProperties
<1> QED
  BY <1>2, <1>4, <1>9, <1>10 DEF e

(* The request log the middleware fills is one RequestLog describes.       *)
THEOREM ImplementsLog == ASSUME IsFiniteSet(Request) PROVE Spec => LogSpec
<1>1. Init => Log!Init
  BY DEF Init, Log!Init
<1>2. TaskInv /\ TraceInv /\ Counted /\ [Next]_vars => [Log!Next]_(Log!vars)
  <2> SUFFICES ASSUME TaskInv, TraceInv, Counted, [Next]_vars
               PROVE  [Log!Next]_(Log!vars)
    OBVIOUS
  <2>1. ASSUME NEW t \in Task, Leave(t) PROVE Log!Next
    <3>1. PICK ok \in BOOLEAN : ok = Ok(t)
      BY DEF Ok
    <3>2. /\ Len(ToLog) < Cardinality(Request) /\ ToLog' = Append(ToLog, [at |-> 0, ok |-> ok])
          /\ Len(ToLog') \in Nat /\ Cardinality(Request) \in Nat
          /\ Len(ToLog') <= Cardinality(Request)
      BY <2>1, <3>1, LeaveIsExchange
    <3>3. Log!Record(ok)
      <4>1. ~(Len(ToLog') - 1 + 1 > Cardinality(Request))
        BY <3>2
      <4> QED
        BY <3>2, <4>1 DEF Log!Record, ToLog
    <3>4. Log!Exchange(ok)
      BY <3>3 DEF Log!Exchange, Log!walk
    <3>5. \E x \in BOOLEAN : Log!Exchange(x)
      BY <3>4, Zenon
    <3> QED
      BY <3>5, Zenon DEF Log!Next
  <2>2. ASSUME log' = log PROVE UNCHANGED Log!vars
    BY <2>2 DEF Log!vars, Log!walk
  <2>3. (\E t \in Task : Leave(t)) \/ log' = log
    BY StepTraces DEF Next, vars
  <2> QED
    BY <2>1, <2>2, <2>3
<1>3. Spec => []Counted
  BY InitCounted, NextCounted, TasksCorrect, TracesKept, PTL DEF Spec
<1> QED
  BY <1>1, <1>2, <1>3, TasksCorrect, TracesKept, PTL DEF Spec, LogSpec, Log!Spec
=============================================================================
