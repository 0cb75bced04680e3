----------------------------- MODULE RequestLog -----------------------------
(***************************************************************************)
(* The request log behind AFRelay's dashboard: ObservabilityMiddleware     *)
(* adds an entry when a request ends, to a deque that holds the newest     *)
(* MaxLogs; /ui/logs serves it in pages, newest first, and the summary     *)
(* counts what is no older than a window.  A client that walks through the *)
(* pages does so while the log grows, by its own requests too, and while   *)
(* the oldest entries fall out of it.                                      *)
(*                                                                         *)
(* The deque of domain events is kept and paged by the same code.          *)
(***************************************************************************)
EXTENDS Integers, Sequences, FiniteSets

CONSTANTS
    Reader,      \* clients that walk through the pages
    MaxLogs,     \* OBS_MAX_LOGS
    PageSize,    \* page_size, the same for the whole of a walk
    MaxEntries,  \* bound: requests that are logged
    MaxTime      \* bound: how long the log is watched

ASSUME SizesAssumption ==
    /\ MaxLogs \in Nat /\ PageSize \in Nat \ {0}
    /\ MaxEntries \in Nat /\ MaxTime \in Nat

VARIABLES
    now,
    log,         \* every entry added so far
    first,       \* the deque is log from here on
    pc,          \* what each client does
    filter,      \* the filter of its walk
    page,        \* the pages it has been given
    total,       \* the total it was given last
    wanted,      \* ghost: the entries there were when it started
    shown        \* the entries it was given
walk == <<pc, filter, page, total, wanted, shown>>
vars == <<now, log, first, walk>>

(* An entry, down to when it was made and what the filters look at. *)
Entry == [at : 0..MaxTime, ok : BOOLEAN]
(* status = ok, error or not given *)
Filter == {{TRUE}, {FALSE}, BOOLEAN}

TypeOK ==
    /\ now \in 0..MaxTime
    /\ log \in Seq(Entry)
    /\ first \in Nat \ {0} /\ first <= Len(log) + 1
    /\ pc \in [Reader -> {"idle", "answered", "more", "done"}]
    /\ filter \in [Reader -> Filter]
    /\ page \in [Reader -> Nat]
    /\ total \in [Reader -> Nat]
    /\ wanted \in [Reader -> SUBSET (1..Len(log))]
    /\ shown \in [Reader -> SUBSET (1..Len(log))]

Init ==
    /\ now = 0 /\ log = <<>> /\ first = 1
    /\ pc = [r \in Reader |-> "idle"]
    /\ filter = [r \in Reader |-> BOOLEAN]
    /\ page = [r \in Reader |-> 0]
    /\ total = [r \in Reader |-> 0]
    /\ wanted = [r \in Reader |-> {}]
    /\ shown = [r \in Reader |-> {}]

-----------------------------------------------------------------------------
Stored == first..Len(log)
Matching(f) == {i \in Stored : log[i].ok \in f}

(* The place of an entry in the list that is paged: newest first. *)
Newer(i, f) == {j \in Matching(f) : j >= i}
Place(i, f) == Cardinality(Newer(i, f))

PageAfterOwn(p, f) ==               \* mutant: allows for what the walk itself has logged
    LET start == (p - 1) * (PageSize + 1)
    IN  {i \in Matching(f) : start < Place(i, f) /\ Place(i, f) <= start + PageSize}
Page(p, f) ==
    {i \in Matching(f) : (p - 1) * PageSize < Place(i, f) /\ Place(i, f) <= p * PageSize}

(* get_summary: what the window holds, of what the deque holds. *)
InWindow(w) == {i \in 1..Len(log) : log[i].at >= now - w}
Requests(w) == Cardinality(InWindow(w) \cap Stored)

-----------------------------------------------------------------------------
RecordKeptShort(ok) ==              \* mutant: makes room too soon
    /\ Len(log) < MaxEntries
    /\ log' = Append(log, [at |-> now, ok |-> ok])
    /\ first' = IF Len(log') - first + 1 >= MaxLogs THEN first + 1 ELSE first
(* add_request_log: a full deque drops its oldest entry. *)
Record(ok) ==
    /\ Len(log) < MaxEntries
    /\ log' = Append(log, [at |-> now, ok |-> ok])
    /\ first' = IF Len(log') - first + 1 > MaxLogs THEN first + 1 ELSE first

(* A request ends, with a status below 400 or not. *)
Exchange(ok) ==
    /\ Record(ok)
    /\ UNCHANGED <<now, walk>>

ReadPageRest(r, p, f) ==            \* mutant: the total is what is left to show
    /\ page' = [page EXCEPT ![r] = p]
    /\ total' = [total EXCEPT ![r] = Cardinality(Matching(f)) - p * PageSize]
    /\ pc' = [pc EXCEPT ![r] = "answered"]
    /\ UNCHANGED <<now, log, first>>
(* list_logs answers with the page it was asked for and the total. *)
ReadPage(r, p, f) ==
    /\ page' = [page EXCEPT ![r] = p]
    /\ total' = [total EXCEPT ![r] = Cardinality(Matching(f))]
    /\ pc' = [pc EXCEPT ![r] = "answered"]
    /\ UNCHANGED <<now, log, first>>

(* GET /ui/logs?page=1, by a client that is free or gives up on a walk. *)
FirstPage(r, f) ==
    /\ pc[r] # "answered"
    /\ ReadPage(r, 1, f)
    /\ filter' = [filter EXCEPT ![r] = f]
    /\ wanted' = [wanted EXCEPT ![r] = Matching(f)]
    /\ shown' = [shown EXCEPT ![r] = Page(1, f)]

NextPage(r) ==
    /\ pc[r] = "more"
    /\ ReadPage(r, page[r] + 1, filter[r])
    /\ shown' = [shown EXCEPT ![r] = @ \cup Page(page[r] + 1, filter[r])]
    /\ UNCHANGED <<filter, wanted>>

(* The answer passes the middleware, which logs it like any other, and the *)
(* client sees from the total whether there is another page.               *)
Return(r) ==
    /\ pc[r] = "answered"
    /\ Record(TRUE)
    /\ pc' = [pc EXCEPT ![r] = IF page[r] * PageSize >= total[r] THEN "done" ELSE "more"]
    /\ UNCHANGED <<now, filter, page, total, wanted, shown>>

Tick ==
    /\ now < MaxTime
    /\ now' = now + 1
    /\ UNCHANGED <<log, first, walk>>

Next ==
    \/ Tick
    \/ \E ok \in BOOLEAN : Exchange(ok)
    \/ \E r \in Reader :
           \/ \E f \in Filter : FirstPage(r, f)
           \/ NextPage(r) \/ Return(r)

Spec == Init /\ [][Next]_vars

-----------------------------------------------------------------------------
(* A walk misses nothing: the entries there were when it began, unless     *)
(* they have fallen out of the log since, are all shown when it ends,      *)
(* whatever was logged between two pages.                                  *)
NoneSkipped == \A r \in Reader : pc[r] = "done" => wanted[r] \cap Stored \subseteq shown[r]

(* The summary of any window counts every request that ended in it, or as  *)
(* many as the log holds: no entry of the window is dropped for one that   *)
(* is outside, and none before there is need.                              *)
SummaryExact ==
    \A w \in 0..MaxTime :
        LET ended == Cardinality(InWindow(w))
        IN  Requests(w) = IF ended <= MaxLogs THEN ended ELSE MaxLogs
=============================================================================
