------------------------------ MODULE EventLog ------------------------------
(***************************************************************************)
(* The platform's event log: RepositoryEventRecorder.Record, one           *)
(* WatchEvents stream polling the table with a cursor, and the retention   *)
(* loop (internal/server/event.go, internal/db/event_repository.go).  An   *)
(* event is its identifier; identifiers are random, so their order says    *)
(* nothing about the order of recording.                                   *)
(***************************************************************************)
EXTENDS Integers, Sequences, FiniteSets

CONSTANTS
    Ids,            \* identifiers of events, totally ordered by <
    Batch,          \* eventWatchBatchSize, 1000 in the code
    MaxAge, MaxCount,   \* config.EventRetentionConfig
    MaxTime         \* bound of the clock

ASSUME EventAssumption ==
    /\ Ids \subseteq Nat /\ Batch \in Nat \ {0}
    /\ MaxAge \in Nat /\ MaxCount \in Nat \ {0} /\ MaxTime \in Nat

VARIABLES
    clock,
    stamp,          \* created_at of each event, -1 before it is recorded
    log,            \* the events table
    pruned,         \* events the retention loop removed
    overtaken,      \* events stored after one with a later key
    watch,          \* the stream: since, cursor, events listed and not sent yet
    sent            \* what the client received, in order

logVars == <<clock, stamp, log, pruned, overtaken, watch, sent>>
streamVars == <<watch, sent>>

Key(e) == <<stamp[e], e>>
Before(x, y) == x[1] < y[1] \/ (x[1] = y[1] /\ x[2] < y[2])

LogInit ==
    /\ clock = 0 /\ stamp = [e \in Ids |-> -1]
    /\ log = {} /\ pruned = {} /\ overtaken = {}
    /\ watch = [since |-> -1, after |-> <<-1, -1>>, todo |-> <<>>]
    /\ sent = <<>>

Tick ==
    /\ clock < MaxTime /\ clock' = clock + 1
    /\ UNCHANGED <<stamp, log, pruned, overtaken, streamVars>>

Recording == {e \in Ids : stamp[e] # -1 /\ e \notin log \cup pruned}

\* Record takes the time ...
Stamp(e) ==
    /\ stamp[e] = -1
    /\ stamp' = [stamp EXCEPT ![e] = clock]
    /\ UNCHANGED <<clock, log, pruned, overtaken, streamVars>>

\* ... and then inserts the row; calls run concurrently, so a row with an
\* earlier key may come later.
Create(e) ==
    /\ e \in Recording
    /\ log' = log \cup {e}
    /\ overtaken' = overtaken \cup
            {x \in {e} : \E f \in log \cup pruned : Before(Key(x), Key(f))}
    /\ UNCHANGED <<clock, stamp, pruned, streamVars>>

---------------------------------------------------------------------------
\* WatchEvents without "since" starts at the present time.
StartWatch ==
    /\ watch.since = -1
    /\ watch' = [watch EXCEPT !.since = clock]
    /\ UNCHANGED <<clock, stamp, log, pruned, overtaken, sent>>

\* Mutant of Selected: the cursor has no identifier.
SelectedByTime == {e \in log : stamp[e] >= watch.since /\ stamp[e] >= watch.after[1]}

\* EventRepository.List: since, and after the cursor.
Selected == {e \in log : stamp[e] >= watch.since /\ Before(watch.after, Key(e))}

\* The rows of such a query in the order of their keys, at most Batch of them:
\* what is left out is behind a full page.
Pages ==
    {q \in UNION {[1 .. n -> Selected] : n \in 0 .. Batch} :
        /\ \A i, j \in 1 .. Len(q) : i < j => Before(Key(q[i]), Key(q[j]))
        /\ \A e \in Selected \ {q[i] : i \in 1 .. Len(q)} :
                Len(q) = Batch /\ Before(Key(q[Batch]), Key(e))}

\* Mutant of Poll: the cursor goes to the newest event, not to the end of the batch.
PollSkipping ==
    /\ watch.since # -1 /\ watch.todo = <<>>
    /\ \E page \in Pages, newest \in Selected :
        /\ \A e \in Selected : ~Before(Key(newest), Key(e))
        /\ watch' = [watch EXCEPT !.after = Key(newest)]
        /\ sent' = sent \o page
    /\ UNCHANGED <<clock, stamp, log, pruned, overtaken>>

\* One query of sendNew.  It is repeated at once after a full batch and at the
\* next tick otherwise; here it may be repeated at any time.
Poll ==
    /\ watch.since # -1 /\ watch.todo = <<>>
    /\ \E page \in Pages : watch' = [watch EXCEPT !.todo = page]
    /\ UNCHANGED <<clock, stamp, log, pruned, overtaken, sent>>

\* stream.Send of one event, and the cursor behind it.
Send ==
    /\ watch.todo # <<>>
    /\ sent' = Append(sent, Head(watch.todo))
    /\ watch' = [watch EXCEPT !.todo = Tail(watch.todo), !.after = Key(Head(watch.todo))]
    /\ UNCHANGED <<clock, stamp, log, pruned, overtaken>>

---------------------------------------------------------------------------
Delete(S) ==
    /\ S # {} /\ log' = log \ S /\ pruned' = pruned \cup S
    /\ UNCHANGED <<clock, stamp, overtaken, streamVars>>

PruneBefore == Delete({e \in log : stamp[e] < clock - MaxAge})

\* The events behind the MaxCount newest.
Excess == {e \in log : Cardinality({f \in log : Before(Key(e), Key(f))}) >= MaxCount}

PruneToLimit == Delete(Excess)

Watching == StartWatch \/ Poll \/ Send

LogNext ==
    \/ Tick \/ PruneBefore \/ PruneToLimit \/ Watching
    \/ \E e \in Ids : Stamp(e) \/ Create(e)

LogSpec == LogInit /\ [][LogNext]_logVars

\* The stream's loop runs as long as the client listens.
FairLogSpec == LogSpec /\ WF_logVars(Watching)

---------------------------------------------------------------------------
\* The client receives events in the order of their times and none twice,
\* whatever is recorded or pruned between and during the batches.
StreamOrdered == \A i, j \in 1 .. Len(sent) : i < j => Before(Key(sent[i]), Key(sent[j]))

\* An event of the watched time is sent or pruned, however many batches are
\* before it, whatever retention removes meanwhile and whatever other events
\* are stored out of order.  It does not hold of an event that is itself stored
\* after one with a later key: the cursor may be past it.
AheadIsDelivered ==
    \A e \in Ids :
        (e \in log \ overtaken /\ watch.since # -1 /\ stamp[e] >= watch.since)
            ~> (e \in pruned \/ \E i \in 1 .. Len(sent) : sent[i] = e)
=============================================================================
