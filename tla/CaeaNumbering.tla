---------------------------- MODULE CaeaNumbering ----------------------------
(***************************************************************************)
(* POST queue/issue-local (queue_issue_local_invoice): how an invoice gets *)
(* its number.  reserve_next_invoice_number reads MAX(cbte_nro) + 1 and    *)
(* stores nothing; create_local_invoice inserts the row under a UNIQUE     *)
(* index; add_outbox_job queues the INFORM job; then the client is told    *)
(* the number.  A handler has no await in between, so within a process the *)
(* requests follow one another, but the statements of several processes    *)
(* interleave and a process can die between any two of them.  Requests     *)
(* refused with 404 or 409 change nothing here.                            *)
(***************************************************************************)
EXTENDS Naturals

CONSTANTS
    Series,      \* (cuit, pto_vta, cbte_tipo)
    Handler,     \* request handlers
    Process,     \* worker processes
    ProcOf,      \* the process a handler runs in
    MaxNumber    \* bound: no request for a series that has reached it

ASSUME HandlerAssumption == ProcOf \in [Handler -> Process]
ASSUME BoundAssumption == MaxNumber \in Nat

VARIABLES
    invoice,     \* caea_invoice: the <<series, cbte_nro>> of its rows
    job,         \* afip_outbox: those with an INFORM_CAEA_MOVEMENT job
    told,        \* the numbers some client was answered with
    pc,          \* where each handler is
    series, nro  \* its locals
vars == <<invoice, job, told, pc, series, nro>>

Number == Series \X (Nat \ {0})
Issued(s) == {x[2] : x \in {y \in invoice : y[1] = s}}
Mine(h) == <<series[h], nro[h]>>

TypeOK ==
    /\ invoice \in SUBSET Number /\ job \in SUBSET Number /\ told \in SUBSET Number
    /\ pc \in [Handler -> {"idle", "reserving", "inserting", "queueing", "answering"}]
    /\ series \in [Handler -> Series]
    /\ nro \in [Handler -> Nat]

Init ==
    /\ invoice = {} /\ job = {} /\ told = {}
    /\ pc = [h \in Handler |-> "idle"]
    /\ series \in [Handler -> Series]
    /\ nro = [h \in Handler |-> 0]

(* One event loop per process, and no await between begin and answer. *)
MayRun(h) == \A g \in Handler \ {h} : ProcOf[g] = ProcOf[h] => pc[g] = "idle"

Return(h) == /\ pc' = [pc EXCEPT ![h] = "idle"]
             /\ nro' = [nro EXCEPT ![h] = 0]

Begin(h, s) ==
    /\ pc[h] = "idle"
    /\ \A n \in Issued(s) : n < MaxNumber
    /\ pc' = [pc EXCEPT ![h] = "reserving"]
    /\ series' = [series EXCEPT ![h] = s]
    /\ UNCHANGED <<invoice, job, told, nro>>

(* SELECT MAX(cbte_nro), 0 for an empty series. *)
Highest(S) == IF S = {} THEN 0 ELSE CHOOSE m \in S : \A n \in S : n <= m

ReserveNumber(h, n) ==
    /\ pc[h] = "reserving"
    /\ nro' = [nro EXCEPT ![h] = n]
    /\ pc' = [pc EXCEPT ![h] = "inserting"]
    /\ UNCHANGED <<invoice, job, told, series>>
(* Mutants: numbers in other hands count as taken; the last number itself. *)
InHands(h) == {nro[g] : g \in {x \in Handler \ {h} : series[x] = series[h] /\ nro[x] > 0}}
ReserveBeyondOthers(h) ==
    ReserveNumber(h, Highest(Issued(series[h]) \cup InHands(h)) + 1)
ReserveLast(h) == ReserveNumber(h, Highest(Issued(series[h])))

(* reserve_next_invoice_number *)
Reserve(h) == ReserveNumber(h, Highest(Issued(series[h])) + 1)

InsertOrIgnore(h) ==                \* mutant: no UNIQUE index
    /\ pc[h] = "inserting"
    /\ invoice' = invoice \cup {Mine(h)}
    /\ pc' = [pc EXCEPT ![h] = "queueing"]
    /\ UNCHANGED <<job, told, series, nro>>
InsertAndAnswer(h) ==               \* mutant: the job is left for later
    /\ pc[h] = "inserting" /\ Mine(h) \notin invoice
    /\ invoice' = invoice \cup {Mine(h)}
    /\ pc' = [pc EXCEPT ![h] = "answering"]
    /\ UNCHANGED <<job, told, series, nro>>

(* A number inserted by another process meanwhile: IntegrityError, HTTP 500. *)
Insert(h) ==
    /\ pc[h] = "inserting"
    /\ IF Mine(h) \in invoice
       THEN Return(h) /\ UNCHANGED invoice
       ELSE /\ pc' = [pc EXCEPT ![h] = "queueing"]
            /\ invoice' = invoice \cup {Mine(h)}
            /\ UNCHANGED nro
    /\ UNCHANGED <<job, told, series>>

Enqueue(h) ==
    /\ pc[h] = "queueing"
    /\ job' = job \cup {Mine(h)}
    /\ pc' = [pc EXCEPT ![h] = "answering"]
    /\ UNCHANGED <<invoice, told, series, nro>>

Answer(h) ==
    /\ pc[h] = "answering"
    /\ told' = told \cup {Mine(h)}
    /\ Return(h)
    /\ UNCHANGED <<invoice, job, series>>

(* The process dies, or a statement raises: what was written stays. *)
Crash(p) ==
    /\ pc' = [h \in Handler |-> IF ProcOf[h] = p THEN "idle" ELSE pc[h]]
    /\ nro' = [h \in Handler |-> IF ProcOf[h] = p THEN 0 ELSE nro[h]]
    /\ UNCHANGED <<invoice, job, told, series>>

Next ==
    \/ \E h \in Handler :
        /\ MayRun(h)
        /\ \/ \E s \in Series : Begin(h, s)
           \/ Reserve(h) \/ Insert(h) \/ Enqueue(h) \/ Answer(h)
    \/ \E p \in Process : Crash(p)

Spec == Init /\ [][Next]_vars

-----------------------------------------------------------------------------
(* The numbers of a series are 1, 2, ..., with no gap, although a number   *)
(* is not reserved when it is chosen and processes die holding one.        *)
NoGaps == \A s \in Series : \A n \in Issued(s) : 1..n \subseteq Issued(s)

(* A client that was told a number has its invoice stored and its INFORM   *)
(* job queued, whatever dies afterwards.                                   *)
ToldMeansQueued == told \subseteq job /\ job \subseteq invoice

(* No number is told to two clients: the handlers that chose the same one  *)
(* are told apart by the UNIQUE index, also across processes.              *)
ToldOnce == [][\A h \in Handler : Answer(h) => Mine(h) \notin told]_vars

(* Whatever the processes do, the invoices table implements DenseNumbering: *)
(* each insert adds the next number of one series, no other step any.       *)
Dense == INSTANCE DenseNumbering WITH issued <- [s \in Series |-> Issued(s)]
DenseSpec == Dense!Spec
=============================================================================
