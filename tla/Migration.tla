------------------------------ MODULE Migration ------------------------------
(***************************************************************************)
(* "task migrate" (task/migrateEventsTask.go, task/eventTask.go) gives the *)
(* events of a game the IDs of its players, batch by batch from the newest *)
(* event to the oldest, asking a person at the terminal. Here it runs      *)
(* beside the server of Backfill: a client that pages and others who post, *)
(* delete and share.                                                       *)
(*                                                                         *)
(* What is asked is whose an event is, and with a private one that is also *)
(* who can see it. Any answer is possible for any event.                   *)
(***************************************************************************)
EXTENDS Backfill

CONSTANTS
    BufferSize,     \* events of a batch
    MaxRuns         \* bound: how often the task is started

ASSUME MigrationAssumption == BufferSize \in Nat \ {0, 1} /\ MaxRuns \in Nat

VARIABLES
    task,       \* "off", "reading", "asking", "done" or "failed"
    batch,      \* the events of the round
    newestID,   \* where the next batch starts
    runs,
    (* Auxiliary; no action reads it. *)
    pending,    \* the IDs of the events that were there when the task started,
                \* and still are, that it has not written
    untold      \* the IDs of events that the task wrote so that the player can
                \* see them, which he could not before, or which were deleted

allVars == <<vars, task, batch, newestID, runs, pending, untold>>

\* A request or response, or what others do to events.
Beside ==
    /\ pending' = pending \cap IDs(hist')
    /\ UNCHANGED <<task, batch, newestID, runs, untold>>

Serve == Next /\ Beside

\* The first ID is made of the time: no event is newer yet.
StartTask ==
    /\ task = "off" /\ runs < MaxRuns
    /\ task' = "reading"
    /\ runs' = runs + 1
    /\ newestID' = lastID
    /\ pending' = IDs(hist)
    /\ UNCHANGED <<vars, batch, untold>>

\* Variant: one event more.
GetOlderThan_OffByOne(new) ==
    {e \in hist : /\ e.id <= new
                  /\ Cardinality({f \in hist : e.id < f.id /\ f.id <= new})
                        <= BufferSize}

\* Variant: upwards from the oldest event.
GetOlderThan_Upwards(new) ==
    {e \in hist : /\ e.id <= new
                  /\ Cardinality({f \in hist : f.id < e.id}) < BufferSize}

\* Like a page of GetBetween, from the newest ID downwards.
GetOlderThan(new) ==
    {e \in hist : /\ e.id <= new
                  /\ Cardinality({f \in hist : e.id < f.id /\ f.id <= new})
                        < BufferSize}

\* A batch starts with the last event of the one before.
LastBatch(found) == Cardinality(found) = 1

\* streamReadEvents reads a batch, and ends if it is the last.
ReadBatch ==
    LET found == GetOlderThan(newestID) IN
    /\ task = "reading"
    /\ task' = IF LastBatch(found) THEN "done" ELSE "asking"
    /\ batch' = IF LastBatch(found) THEN {} ELSE found
    /\ newestID' = IF LastBatch(found) THEN 0 ELSE newestID
    /\ pending' = IF LastBatch(found) THEN {} ELSE pending
    /\ UNCHANGED <<vars, runs, untold>>

\* Variant: the next batch starts with the first event of this one.
NextNewest_First(events) == Max(IDs(events))

NextNewest(events) == Min(IDs(events))

\* The round is over. An empty batch is written like others, and then there is
\* no last event to go on from.
NextRound ==
    IF batch = {} THEN task' = "failed" /\ newestID' = 0
    ELSE task' = "reading" /\ newestID' = NextNewest(batch)

\* What may become of the events of a batch: each is another player's or stays
\* as it is, and one of the game stays one of the game.
Migrated(events) ==
    {{IF e.share = "game" THEN e ELSE [e EXCEPT !.share = whose[e.id]] :
        e \in events} : whose \in [IDs(events) -> {"mine", "theirs"}]}

\* One transaction removes each of the events by its ID, if it is there, and
\* adds what has become of it. Nothing is streamed to anybody.
BulkUpdate(events) ==
    /\ hist' = {e \in hist : e.id \notin IDs(events)} \cup events
    /\ untold' = untold \cup (IDs(Visible(events)) \ IDs(Visible(hist)))

\* Assumed: a share has both its transactions before or after the one that
\* writes its event. One that came between them would leave the event in the
\* history twice.
SharesApart ==
    \A h \in Handlers : step[h] = "post" => copy[h].id \notin IDs(batch)

\* Variant: events are removed, and then added, in two transactions.
WriteBatch_Halves ==
    /\ task = "asking"
    /\ IF IDs(hist) \cap IDs(batch) # {}
       THEN /\ hist' = {e \in hist : e.id \notin IDs(batch)}
            /\ UNCHANGED <<task, batch, newestID, pending, untold>>
       ELSE /\ hist' = hist \cup batch
            /\ NextRound
            /\ pending' = pending \ IDs(batch)
            /\ batch' = {}
            /\ UNCHANGED untold
    /\ UNCHANGED <<lastID, client, newest, reply, known, handling, reached,
                   runs>>

\* Whose each event of the batch is has been asked, or was known.
WriteBatch ==
    /\ task = "asking" /\ SharesApart
    /\ \E events \in Migrated(batch) : BulkUpdate(events)
    /\ NextRound
    /\ pending' = pending \ IDs(batch)
    /\ batch' = {}
    /\ UNCHANGED <<lastID, client, newest, reply, known, handling, reached,
                   runs>>

\* The input ends, or Redis does: the task panics and may be started again.
CrashTask ==
    /\ task \in {"reading", "asking", "failed"}
    /\ task' = "off" /\ batch' = {} /\ newestID' = 0 /\ pending' = {}
    /\ UNCHANGED <<vars, runs, untold>>

Task == ReadBatch \/ WriteBatch

MigrationInit ==
    /\ Init
    /\ task = "off" /\ batch = {} /\ newestID = 0 /\ runs = 0
    /\ pending = {} /\ untold = {}

MigrationNext == Serve \/ StartTask \/ Task \/ CrashTask

MigrationSpec == MigrationInit /\ [][MigrationNext]_allVars

\* Requests are answered, a share does not stop between its transactions, and
\* the questions of a task are answered: it writes a batch even if now and then
\* somebody is sharing one of its events.
FairMigrationSpec ==
    /\ MigrationSpec
    /\ WF_allVars((HandleEvents \/ TakeReply) /\ Beside)
    /\ \A h \in Handlers : WF_allVars((SharePost(h) \/ Stop(h)) /\ Beside)
    /\ SF_allVars(Task)
-----------------------------------------------------------------------------
MigrationTypeOK ==
    /\ TypeOK
    /\ task \in {"off", "reading", "asking", "done", "failed"}
    /\ batch \subseteq Event /\ Cardinality(batch) <= BufferSize
    /\ newestID \in 0 .. MaxID
    /\ runs \in 0 .. MaxRuns
    /\ pending \subseteq IDs(hist)
    /\ untold \subseteq 1 .. MaxID

\* "If there's < max responses, client knows it's hit the boundary": a client
\* that is told there is no more has every event the player can see, whatever
\* was posted, deleted, shared and migrated meanwhile; down to a full page of
\* events he cannot see, which is answered as if there were nothing behind it.
\* He may lack those that the task has shown him, of which no client is told: an
\* event that was deleted, or made private, before the task wrote it back, and
\* a private one that is now his.
CompleteBesidesUntold ==
    client = "done" =>
        \A e \in Visible(hist) : e.id >= reached => e.id \in known \cup untold

\* "Found all the events!": a task that comes to its end has migrated every
\* event that was there when it started and still is, but for the oldest of the
\* history.
AllButOldest ==
    [][task = "reading" /\ task' = "done"
         => pending \subseteq {Min(IDs(hist))}]_allVars

\* Each batch gets the task further back, whatever is posted, deleted and
\* written back meanwhile: it ends.
MigrationEnds == task = "reading" ~> task \in {"off", "done", "failed"}
=============================================================================
