---------------------------- MODULE RelayedCalls ----------------------------
(***************************************************************************)
(* A request on its way through AFRelay: ObservabilityMiddleware gives it  *)
(* a trace id and logs it when it is over; the handler reads the access    *)
(* ticket and calls AFIP through consult_afip_wsfe, _wspci or _wsaa, which *)
(* turn an exception into a result under a tenacity retry decorator; the   *)
(* readiness probe calls the two dummy methods instead.  Every call leaves *)
(* a domain event with the trace id of the coroutine's context.  Requests  *)
(* and the scheduler's jobs take turns on one event loop.                  *)
(*                                                                         *)
(* The process is not restarted: its logs and clients would be gone.       *)
(***************************************************************************)
EXTENDS Integers, Sequences, FiniteSets

CONSTANTS
    Request,     \* HTTP requests, each its own trace id
    JobRun,      \* calls of the scheduler's jobs
    None

Task == Request \cup JobRun

ASSUME TasksAssumption == Request \cap JobRun = {} /\ None \notin Task

VARIABLES
    pc,          \* where each task is
    kind,        \* what it asks for
    trace,       \* the trace id in its context
    attempts,    \* calls it has made to AFIP
    inflight,    \* whether AFIP has carried out the one it awaits
    served,      \* how many of its calls AFIP has carried out
    answer,      \* what it ends with
    log,         \* the request log
    events       \* the domain events, whatever their order and number
vars == <<pc, kind, trace, attempts, inflight, served, answer, log, events>>

(* The handlers that pass a request on, by what they ask AFIP for; and     *)
(* those of the tickets and of the readiness probe.                        *)
Handlers == [
    invoices |-> {"generate_invoice"},
    query    |-> {"last_authorized", "consult_invoice", "max_reg_x_request", "types_cbte",
                  "types_doc", "types_iva", "types_tributos", "types_monedas",
                  "condicion_iva_receptor", "puntos_venta", "cotizacion", "types_concepto",
                  "types_opcional", "types_paises", "actividades", "get_persona"},
    caea     |-> {"request_caea", "consult_caea", "inform_caea",
                  "consult_caea_sin_movimiento", "inform_caea_sin_movimiento"}]
Relayed == DOMAIN Handlers
Kind == Relayed \cup {"token", "readiness"}
Calls(k) == IF k = "readiness" THEN 2 ELSE 1     \* WSFE's and WSPCI's dummy

(* What ends a call without an answer, and what the decorator retries.  *)
Failure == {"ConnectError", "TimeoutException", "TransportError", "Fault",
            "XMLSyntaxError", "ConnectionResetError", "Exception"}
Retryable == {"ConnectionResetError", "ConnectError", "TransportError"}
MaxTries == 3

Answer == {"none", "success", "error", "rejected", "raised"}
Event == [trace : Request \cup {None}, by : Task, status : {"started", "success", "error"}]

TypeOK ==
    /\ pc \in [Task -> {"new", "accepted", "calling", "leaving", "done"}]
    /\ kind \in [Task -> Kind]
    /\ trace \in [Task -> Request \cup {None}]
    /\ attempts \in [Task -> 0..MaxTries]
    /\ inflight \in [Task -> {"none", "sent", "served"}]
    /\ served \in [Task -> 0..MaxTries]
    /\ answer \in [Task -> Answer]
    /\ log \in Seq([request : Request, ok : BOOLEAN])
    /\ events \subseteq Event

Init ==
    /\ pc = [t \in Task |-> "new"]
    /\ kind \in [Task -> Kind]
    /\ \A t \in JobRun : kind[t] \in {"caea", "token"}
    /\ trace = [t \in Task |-> None]
    /\ attempts = [t \in Task |-> 0]
    /\ inflight = [t \in Task |-> "none"]
    /\ served = [t \in Task |-> 0]
    /\ answer = [t \in Task |-> "none"]
    /\ log = <<>>
    /\ events = {}

-----------------------------------------------------------------------------
(* set_current_trace_id: a ContextVar, so that other requests keep theirs. *)
SetTraceForAll(t) ==                \* mutant: a module variable
    trace' = [u \in Task |-> t]
SetTrace(t) == trace' = [trace EXCEPT ![t] = t]

(* emit_domain_event stamps an event with the context's trace id. *)
EmitUnlessError(t, S) ==            \* mutant: the except branches emit nothing
    events' = events \cup {[trace |-> trace[t], by |-> t, status |-> s] : s \in S \ {"error"}}
Emit(t, S) ==
    events' = events \cup {[trace |-> trace[t], by |-> t, status |-> s] : s \in S}

End(t, a) ==
    /\ pc' = [pc EXCEPT ![t] = "leaving"]
    /\ answer' = [answer EXCEPT ![t] = a]
    /\ inflight' = [inflight EXCEPT ![t] = "none"]

Send(t) ==
    /\ pc' = [pc EXCEPT ![t] = "calling"]
    /\ attempts' = [attempts EXCEPT ![t] = @ + 1]
    /\ inflight' = [inflight EXCEPT ![t] = "sent"]
    /\ UNCHANGED answer

-----------------------------------------------------------------------------
(* dispatch up to call_next. *)
Accept(t) ==
    /\ t \in Request /\ pc[t] = "new"
    /\ SetTrace(t)
    /\ pc' = [pc EXCEPT ![t] = "accepted"]
    /\ UNCHANGED <<kind, attempts, inflight, served, answer, log, events>>

(* A job starts with the scheduler's context, which has no trace id. *)
StartJob(t) ==
    /\ t \in JobRun /\ pc[t] = "new"
    /\ pc' = [pc EXCEPT ![t] = "accepted"]
    /\ UNCHANGED <<kind, trace, attempts, inflight, served, answer, log, events>>

(* 401 or 422, before the handler; the probe takes every request. *)
Reject(t) ==
    /\ t \in Request /\ pc[t] = "accepted" /\ kind[t] # "readiness"
    /\ End(t, "rejected")
    /\ UNCHANGED <<kind, trace, attempts, served, log, events>>

(* A controller reads token and sign and calls.  Reading raises while the  *)
(* ticket file is missing or torn, which TokenRenewal says when it is.     *)
CallWithTicket(t) ==
    /\ pc[t] = "accepted" /\ kind[t] \in Relayed
    /\ Send(t) \/ (End(t, "raised") /\ UNCHANGED attempts)
    /\ UNCHANGED <<kind, trace, served, log, events>>

(* generate_*_access_token up to its await; without NTP or a certificate   *)
(* it raises there.                                                        *)
CallLogin(t) ==
    /\ pc[t] = "accepted" /\ kind[t] = "token"
    /\ Send(t) \/ (End(t, "raised") /\ UNCHANGED attempts)
    /\ Emit(t, {"started"})
    /\ UNCHANGED <<kind, trace, served, log>>

(* readiness_health_check: NTP, then the first dummy. *)
Probe(t) ==
    /\ pc[t] = "accepted" /\ kind[t] = "readiness"
    /\ Send(t)
    /\ UNCHANGED <<kind, trace, served, log, events>>

AfipServes(t) ==
    /\ pc[t] = "calling" /\ inflight[t] = "sent"
    /\ inflight' = [inflight EXCEPT ![t] = "served"]
    /\ served' = [served EXCEPT ![t] = @ + 1]
    /\ UNCHANGED <<pc, kind, trace, attempts, answer, log, events>>

(* The last except clause of consult_afip_* catches every Exception, so    *)
(* that none reaches the decorator.                                        *)
CaughtByName ==                     \* mutant: without that clause
    {"ConnectError", "TimeoutException", "TransportError", "Fault", "XMLSyntaxError"}
Caught == Failure
(* retry_if_exception_type and stop_after_attempt. *)
AgainFromZero(f, n) ==              \* mutant: the first try does not count
    n <= MaxTries
Again(f, n) == f \in Retryable \ Caught /\ n < MaxTries

(* A call is answered.  A login's answer is then parsed and saved, which   *)
(* may raise.                                                              *)
CallAnswered(t) ==
    /\ pc[t] = "calling" /\ kind[t] # "readiness" /\ inflight[t] = "served"
    /\ End(t, "success") \/ (kind[t] = "token" /\ End(t, "raised"))
    /\ Emit(t, {"success"})
    /\ UNCHANGED <<kind, trace, attempts, served, log>>

(* A call ends in an exception; only a connection that was never made      *)
(* tells that AFIP has not got the request.                                *)
CallFailed(t, f) ==
    /\ pc[t] = "calling" /\ kind[t] # "readiness"
    /\ f = "ConnectError" => inflight[t] = "sent"
    /\ IF Again(f, attempts[t])
       THEN Send(t) /\ UNCHANGED events
       ELSE IF f \in Caught
       THEN End(t, "error") /\ Emit(t, {"error"}) /\ UNCHANGED attempts
       ELSE End(t, "raised") /\ UNCHANGED <<attempts, events>>
    /\ UNCHANGED <<kind, trace, served, log>>

(* wsfe_dummy, then wspci_dummy.  Their except clause returns a variable   *)
(* that has no value then, which raises.                                   *)
DummyAnswered(t) ==
    /\ pc[t] = "calling" /\ kind[t] = "readiness" /\ inflight[t] = "served"
    /\ IF attempts[t] < Calls(kind[t]) THEN Send(t)
                                       ELSE End(t, "success") /\ UNCHANGED attempts
    /\ UNCHANGED <<kind, trace, served, log, events>>
DummyFailed(t) ==
    /\ pc[t] = "calling" /\ kind[t] = "readiness"
    /\ End(t, "raised")
    /\ UNCHANGED <<kind, trace, attempts, served, log, events>>

(* record_http_exchange.  It never sees a body (what call_next returns is  *)
(* a stream), so a request is ok unless it was rejected or raised.         *)
Ok(t) == answer[t] \notin {"rejected", "raised"}
(* The paths that leave an event as well. *)
Announced == {"invoices", "caea", "token"}
LeaveTwice(t) ==                    \* mutant: the except branch does not raise again
    /\ t \in Request /\ pc[t] = "leaving"
    /\ pc' = [pc EXCEPT ![t] = "done"]
    /\ LET entry == [request |-> t, ok |-> Ok(t)]
       IN  log' = log \o (IF answer[t] = "raised" THEN <<entry, entry>> ELSE <<entry>>)
    /\ Emit(t, IF kind[t] \in Announced THEN {IF Ok(t) THEN "success" ELSE "error"} ELSE {})
    /\ trace' = [trace EXCEPT ![t] = None]
    /\ UNCHANGED <<kind, attempts, inflight, served, answer>>
Leave(t) ==
    /\ t \in Request /\ pc[t] = "leaving"
    /\ pc' = [pc EXCEPT ![t] = "done"]
    /\ log' = Append(log, [request |-> t, ok |-> Ok(t)])
    /\ Emit(t, IF kind[t] \in Announced THEN {IF Ok(t) THEN "success" ELSE "error"} ELSE {})
    /\ trace' = [trace EXCEPT ![t] = None]
    /\ UNCHANGED <<kind, attempts, inflight, served, answer>>

(* What a job makes of its answer is CaeaOutbox's and TokenRenewal's. *)
EndJob(t) ==
    /\ t \in JobRun /\ pc[t] = "leaving"
    /\ pc' = [pc EXCEPT ![t] = "done"]
    /\ UNCHANGED <<kind, trace, attempts, inflight, served, answer, log, events>>

-----------------------------------------------------------------------------
Handle(t) == Reject(t) \/ CallWithTicket(t) \/ CallLogin(t) \/ Probe(t)
CallEndsWithAnswer(t) ==            \* mutant: an httpx client without a timeout
    CallAnswered(t) \/ DummyAnswered(t)
CallEnds(t) == CallAnswered(t) \/ (\E f \in Failure : CallFailed(t, f))
                 \/ DummyAnswered(t) \/ DummyFailed(t)
Next ==
    \E t \in Task :
        \/ Accept(t) \/ StartJob(t) \/ Handle(t)
        \/ AfipServes(t) \/ CallEnds(t)
        \/ Leave(t) \/ EndJob(t)

Spec == Init /\ [][Next]_vars

(* The event loop runs what is ready, and the transport times out. *)
Fairness == \A t \in Task : WF_vars(Handle(t)) /\ WF_vars(CallEnds(t)) /\ WF_vars(Leave(t) \/ EndJob(t))
FairSpec == Spec /\ Fairness

-----------------------------------------------------------------------------
(* AFIP carries out a request no more often than the client made it, an    *)
(* invoice once: although the call is decorated to be tried three times,   *)
(* on errors that say nothing about whether AFIP got it.                   *)
OncePerRequest == \A t \in Task : served[t] <= Calls(kind[t])

(* What a client may conclude from its answer.  Success means that AFIP    *)
(* has carried out all of it, readiness included.  A status of 400 or      *)
(* above on an invoice, a query or a CAEA call means that AFIP has not     *)
(* seen it, so that it can be sent again; only an error in the body leaves *)
(* that open.                                                              *)
AnswerIsTrue ==
    \A t \in Task :
        /\ answer[t] = "success" => served[t] = Calls(kind[t])
        /\ kind[t] \in Relayed /\ ~Ok(t) => served[t] = 0

(* An event bears the trace id of the request that caused it, and none if  *)
(* a job did, however their coroutines alternate.                          *)
EventsTraced ==
    \A e \in events : e.trace = IF e.by \in Request THEN e.by ELSE None

(* No failure goes untold: a request that was not answered with success    *)
(* has left an entry that is not ok, or an error event under its trace id. *)
(* The log alone would not do: an error AFIP answered with counts as ok.   *)
FailuresLeaveTrace ==
    \A t \in Request : pc[t] = "done" /\ answer[t] # "success" =>
        \/ \E i \in DOMAIN log : log[i].request = t /\ ~log[i].ok
        \/ \E e \in events : e.trace = t /\ e.status = "error"

(* Every request and job comes to an end, whatever AFIP does. *)
EveryTaskEnds == \A t \in Task : pc[t] # "new" ~> pc[t] = "done"

(* The log grows as RequestLog takes it to: by one entry when a request    *)
(* ends.  Time and the walks of its readers play no part.                  *)
Log == INSTANCE RequestLog WITH
    Reader <- {}, MaxLogs <- Cardinality(Request), PageSize <- 1,
    MaxEntries <- Cardinality(Request), MaxTime <- 0,
    now <- 0, log <- [i \in DOMAIN log |-> [at |-> 0, ok |-> log[i].ok]], first <- 1,
    pc <- <<>>, filter <- <<>>, page <- <<>>, total <- <<>>, wanted <- <<>>, shown <- <<>>
LogSpec == Log!Spec
=============================================================================
