---------------------------- MODULE EventHistory ----------------------------
(***************************************************************************)
(* The event history of one game: the Redis sorted set "history:<game>",   *)
(* the channels its changes are published on, and the HTTP handlers that   *)
(* change it, running concurrently.                                        *)
(*                                                                         *)
(* Every handler of routes/game.go, routes/event.go and                    *)
(* routes/initiative.go works on a COPY of the event it read, and writes   *)
(* in one or two Redis transactions (game/eventManager.go).  A handler is  *)
(* therefore a first step that reads (and draws its event ID), followed by *)
(* one step per transaction; between them any other handler may run.       *)
(* A handler that answers 4xx before its first transaction changes nothing *)
(* and is no step.                                                         *)
(*                                                                         *)
(* Dice, glitches and initiative numbers are not told apart: "title"       *)
(* stands for the part of an event its owner may edit.  A roll all of      *)
(* whose dice are hits, which cannot be rerolled, is a roll nobody rerolls.*)
(***************************************************************************)
EXTENDS Naturals

CONSTANTS
    Workers,    \* the requests the server may be serving at one time
    Players,    \* the players of the game
    Titles,     \* the values an event's title (or base, ...) may take
    Requests,   \* the endpoints in use
    Distinct,   \* TRUE: no two IDs are drawn within one millisecond
    Faults,     \* TRUE: a handler may stop between two of its steps
    MaxTime     \* bound: the last millisecond

Endpoints == {"roll", "initiative", "reroll", "modify", "editInitiative",
              "delete", "share"}

ASSUME ConstantsAssumption ==
    /\ Requests \subseteq Endpoints
    /\ Distinct \in BOOLEAN
    /\ Faults \in BOOLEAN
    /\ MaxTime \in Nat
    /\ Titles # {}

Shares == {"inGame", "private"}

Types == {"roll", "edgeRoll", "rerollFailures", "initiativeRoll", "playerJoin"}

Time == 0 .. MaxTime

\* event.core with the editable part; prev is used by a reroll only.
Event == [id : Time, ty : Types, owner : Players, share : Shares,
          title : Titles, edit : Time, prev : Time]

Idle == [step |-> "idle"]

\* What a handler holds between two steps: the copy it read, the event it is
\* going to write, and whether the diff it will publish has a title.
Job == {Idle} \cup
       [step : {"post", "delete", "update"}, op : Endpoints,
        old : Event, new : Event, titled : BOOLEAN]

VARIABLES
    now,        \* the clock, in milliseconds
    hist,       \* the members of the sorted set; the score is the id
    view,       \* view[p]: the history p's client built from its channels
    job,        \* job[w]: the local state of the handler w runs
    (* Auxiliary: what players asked for and were told, as pairs of a roll and *)
    (* a player; no action reads them.                                         *)
    asked,      \* p rolled i, or rerolled it by its ID, or somebody who had
                \* asked for it to be seen in the game
    overheard,  \* p was told of i, or of a reroll of it
    gone        \* ids whose removal was answered with success

vars == <<now, hist, view, job, asked, overheard, gone>>
-----------------------------------------------------------------------------
\* id.NewEventID: the current millisecond, which may still be that of the
\* last call unless Distinct.
NewEventID == {t \in {now, now + 1} \cap Time : t > 0 /\ (Distinct => t > now)}

\* event.makeCore: every event starts unedited, under a new ID.
MakeCore(t, ty, p, s, n) ==
    [id |-> t, ty |-> ty, owner |-> p, share |-> s, title |-> n,
     edit |-> 0, prev |-> 0]

\* Variant: the wrong type constant.
ForReroll_WrongType(t, p, e) ==
    [MakeCore(t, "reroll", p, e.share, e.title) EXCEPT !.prev = e.id]

\* Variant: a reroll that is always public.
ForReroll_Public(t, p, e) ==
    [MakeCore(t, "rerollFailures", p, "inGame", e.title) EXCEPT !.prev = e.id]

\* Variant: the previous roll is not named.
ForReroll_NoPrev(t, p, e) == MakeCore(t, "rerollFailures", p, e.share, e.title)

\* event.ForReroll: the title and the share are the previous roll's, the
\* owner is whoever asked for the reroll.
ForReroll(t, p, e) ==
    [MakeCore(t, "rerollFailures", p, e.share, e.title) EXCEPT !.prev = e.id]

\* The members with a score: what ZREVRANGEBYSCORE id id ranges over.
At(i) == {e \in hist : e.id = i}

\* event.GetByID: one of the members with that score (the last in the byte
\* order of their JSON, which the model does not know); an error if none.
GetByID(i) == At(i)

PlayerCanSeeEvent(p, e) ==
    \/ e.share = "inGame"
    \/ e.share = "private" /\ e.owner = p

\* Variant: everything goes out on the game's channels.
Audience_Game(e) == Players

\* EventChannel and UpdateChannel: who is subscribed to the channel that a
\* message about e is published on (Subscribe gives every player the game's
\* channels and his own).
Audience(e) == IF e.share = "inGame" THEN Players ELSE {e.owner}

\* The roll whose dice and title e shows: a reroll's are the previous roll's.
Origin(e) == IF e.ty = "rerollFailures" THEN e.prev ELSE e.id

\* Who learns of which roll when e is published.
Hears(e) == {Origin(e)} \X Audience(e)

Tell(e) == overheard' = overheard \cup Hears(e)
-----------------------------------------------------------------------------
(* A player's client keeps events by ID. *)

ClientPost(V, e) == {x \in V : x.id # e.id} \cup {e}

ClientDelete(V, e) == {x \in V : x.id # e.id}

ClientDiff(V, e, titled) ==
    {IF x.id # e.id THEN x
     ELSE [x EXCEPT !.edit = e.edit,
                    !.title = IF titled THEN e.title ELSE @] : x \in V}
-----------------------------------------------------------------------------
(* The transactions of game/eventManager.go, as the last steps of handlers. *)

\* PostEvent: MULTI, ZADD NX, PUBLISH, EXEC.  A member that was already there
\* makes the request fail, after the message went out.
PostEvent(w) ==
    LET e == job[w].new IN
    /\ job[w].step = "post"
    /\ hist' = hist \cup {e}
    /\ view' = [p \in Players |-> IF p \in Audience(e)
                                  THEN ClientPost(view[p], e) ELSE view[p]]
    /\ Tell(e)
    /\ gone' = IF job[w].op = "reroll" /\ e \notin hist
               THEN gone \cup {job[w].old.id} ELSE gone
    /\ job' = [job EXCEPT ![w] = Idle]
    /\ UNCHANGED <<now, asked>>

\* Variant: the handler goes on whatever was counted.
DeletedOne_Unchecked(e) == TRUE

\* What DeleteEvent's EXEC must have counted for the handler to go on.
DeletedOne(e) == \E f \in hist : At(e.id) = {f}

\* DeleteEvent: MULTI, ZREMRANGEBYSCORE, PUBLISH, EXEC, on the channel of the
\* copy the handler read.  When the count is not 1 the handler answers with an
\* error, but the transaction is done.
DeleteEvent(w) ==
    LET e == job[w].old IN
    /\ job[w].step = "delete"
    /\ hist' = hist \ At(e.id)
    /\ view' = [p \in Players |-> IF p \in Audience(e)
                                  THEN ClientDelete(view[p], e) ELSE view[p]]
    /\ job' = [job EXCEPT ![w] =
                 IF job[w].op \in {"share", "reroll"} /\ DeletedOne(e)
                 THEN [@ EXCEPT !.step = "post"] ELSE Idle]
    /\ gone' = IF job[w].op = "delete" /\ DeletedOne(e)
               THEN gone \cup {e.id} ELSE gone
    /\ UNCHANGED <<now, asked, overheard>>

\* The history in which e replaces what had its ID.
Replaced(e) == (hist \ At(e.id)) \cup {e}

\* UpdateEvent: MULTI, ZREMRANGEBYSCORE, ZADD NX, PUBLISH the diff, EXEC.
\* Here too the counts are looked at when the transaction is done.
UpdateEvent(w) ==
    LET e == job[w].new IN
    /\ job[w].step = "update"
    /\ hist' = Replaced(e)
    /\ view' = [p \in Players |->
                  IF p \in Audience(e)
                  THEN ClientDiff(view[p], e, job[w].titled) ELSE view[p]]
    /\ Tell(e)
    /\ job' = [job EXCEPT ![w] = Idle]
    /\ UNCHANGED <<now, asked, gone>>
-----------------------------------------------------------------------------
(* The handlers, up to their first transaction. *)

Start(w, op, step, old, new, titled) ==
    /\ op \in Requests
    /\ job[w] = Idle
    /\ job' = [job EXCEPT ![w] = [step |-> step, op |-> op, old |-> old,
                                  new |-> new, titled |-> titled]]
    /\ UNCHANGED <<hist, view, overheard, gone>>

\* Player p asked for e to be posted as it is.
Ask(p, e) ==
    asked' = asked \cup ({Origin(e)} \X IF e.share = "inGame" THEN Players ELSE {p})

\* handleRoll and handleRollInitiative.
PostNew(w, op, ty) ==
    \E p \in Players, s \in Shares, n \in Titles, t \in NewEventID :
        LET e == MakeCore(t, ty, p, s, n) IN
        /\ Start(w, op, "post", e, e, FALSE)
        /\ Ask(p, e)
        /\ now' = t

Roll(w) == \E ty \in {"roll", "edgeRoll"} : PostNew(w, "roll", ty)

RollInitiative(w) == PostNew(w, "initiative", "initiativeRoll")

\* handleReroll: no owner is compared, so whoever names the ID of a private
\* roll gets its dice and title in a private event of his own.
Reroll(w) ==
    \E i \in Time : \E e \in GetByID(i), p \in Players, t \in NewEventID :
        /\ e.ty = "roll"
        /\ Start(w, "reroll", "delete", e, ForReroll(t, p, e), FALSE)
        /\ asked' = asked \cup {<<e.id, p>>}
        /\ now' = t

\* Variant: the type of the event is not looked at.
MayChange_AnyType(p, e) == e.owner = p

\* What handleUpdateEvent, handleDeleteEvent and handleShareEvent require.
MayChange(p, e) == e.owner = p /\ e.ty # "playerJoin"

\* handleUpdateEvent: with a title in the diff (even the old one), or with
\* nothing in it that the handler knows; SetEdit either way.
ModifyEvent(w) ==
    \E i \in Time : \E e \in GetByID(i), p \in Players, n \in Titles,
                       titled \in BOOLEAN, t \in NewEventID :
        /\ MayChange(p, e)
        /\ ~ titled => n = e.title
        /\ Start(w, "modify", "update", e,
                 [e EXCEPT !.edit = t, !.title = n], titled)
        /\ now' = t
        /\ UNCHANGED asked

\* handleEditInitiative: a value that is the old one is left out of the diff;
\* an empty diff is answered "(Idempotent, no changes made)" and then written
\* and published all the same, for the handler does not return there.
EditInitiative(w) ==
    \E i \in Time : \E e \in GetByID(i), p \in Players, n \in Titles, t \in NewEventID :
        /\ e.ty = "initiativeRoll" /\ e.owner = p
        /\ Start(w, "editInitiative", "update", e,
                 [e EXCEPT !.edit = t, !.title = n], n # e.title)
        /\ now' = t
        /\ UNCHANGED asked

\* handleDeleteEvent.
Delete(w) ==
    \E i \in Time : \E e \in GetByID(i), p \in Players :
        /\ MayChange(p, e)
        /\ Start(w, "delete", "delete", e, e, FALSE)
        /\ UNCHANGED <<now, asked>>

\* game.UpdateEventShare: what it posts once the event is deleted.
UpdateEventShare(e, s) == [e EXCEPT !.share = s]

\* handleShareEvent.
ShareEvent(w) ==
    \E i \in Time : \E e \in GetByID(i), p \in Players, s \in Shares :
        /\ MayChange(p, e)
        /\ e.share # s
        /\ Start(w, "share", "delete", e, UpdateEventShare(e, s), FALSE)
        /\ Ask(p, UpdateEventShare(e, s))
        /\ UNCHANGED now

\* The process dies, or Redis answers with an error: httpInternalErrorIf ends
\* the handler where it is.
Stop(w) ==
    /\ Faults
    /\ job[w] # Idle
    /\ job' = [job EXCEPT ![w] = Idle]
    /\ UNCHANGED <<now, hist, view, asked, overheard, gone>>
-----------------------------------------------------------------------------
\* The history holds what an earlier release left there: the event of a player
\* joining, which no handler posts any more.
Init ==
    /\ now = 0
    /\ \E p \in Players, n \in Titles :
          hist = {MakeCore(0, "playerJoin", p, "inGame", n)}
    /\ view = [p \in Players |-> hist]
    /\ job = [w \in Workers |-> Idle]
    /\ asked = {0} \X Players
    /\ overheard = {}
    /\ gone = {}

Next ==
    \E w \in Workers :
        \/ Roll(w)
        \/ RollInitiative(w)
        \/ Reroll(w)
        \/ ModifyEvent(w)
        \/ EditInitiative(w)
        \/ Delete(w)
        \/ ShareEvent(w)
        \/ PostEvent(w)
        \/ DeleteEvent(w)
        \/ UpdateEvent(w)
        \/ Stop(w)

Spec == Init /\ [][Next]_vars
-----------------------------------------------------------------------------
TypeOK ==
    /\ now \in Time
    /\ hist \subseteq Event
    /\ view \in [Players -> SUBSET Event]
    /\ job \in [Workers -> Job]
    /\ asked \subseteq Time \X Players
    /\ overheard \subseteq Time \X Players
    /\ gone \subseteq Time

\* An ID names one event: GetByID's "LIMIT 0 1" leaves nothing out, and
\* ZREMRANGEBYSCORE removes what the handler read and nothing else.
OneRecordPerId == \A e, f \in hist : e.id = f.id => e = f

\* A roll that nobody who had it asked to be seen in the game is shown to the
\* player who rolled it and to the players who rerolled it, which takes its ID,
\* and to no one else: neither in a stream nor by the history, as the roll or
\* as a reroll of it, however stale the copies that handlers write back are.
\* It is less than "share only to the originator" (event/share.go), which the
\* reroll of another player's private roll is not.
PrivateConfined ==
    /\ overheard \subseteq asked
    /\ \A e \in hist : Hears(e) \subseteq asked

\* An event whose deletion or reroll was answered with success ("Deleted
\* event", "Rerolled") does not come back.
DeletedStaysDeleted == \A e \in hist : e.id \notin gone

\* A roll is rerolled once, and not while it is still in the history: only
\* the request whose DeleteEvent counted 1 posts a reroll.
RerolledOnce ==
    \A e, f \in hist :
        e.ty = "rerollFailures" =>
            /\ f.id # e.prev
            /\ f.ty = "rerollFailures" /\ f.prev = e.prev => f.id = e.id

\* The clients' histories, built from the published messages alone, are what
\* GET /events would answer: each player's client has the events the player
\* can see, and has them as they are stored.
ClientsAgree ==
    \A p \in Players : view[p] = {e \in hist : PlayerCanSeeEvent(p, e)}

\* The event a handler has deleted and is about to post again, or to post the
\* reroll of, still counts as being on the board.
Carried == {job[w].old : w \in {v \in Workers :
                /\ job[v].step = "post"
                /\ job[v].op \in {"share", "reroll"}}}

Atomic == INSTANCE AtomicHistory WITH
              board <- hist \cup Carried, removed <- gone, MayFail <- Faults

\* Every request takes effect at once or not at all: the handlers, two
\* transactions apart and on copies, do what AtomicHistory promises.  A handler
\* that stops loses the one event it carries, and nothing else.
AtomicSpec == Atomic!Spec
=============================================================================
