------------------------------ MODULE Backfill ------------------------------
(***************************************************************************)
(* How a client that joins a game gets at the events before it joined: it  *)
(* pages backwards through the history with GET /game/events               *)
(* (routes/game.go, event/event.go), while players post, delete and share  *)
(* events and the client hears of those it may see on its subscription.    *)
(*                                                                         *)
(* A share deletes an event and posts it with the same ID, in two          *)
(* transactions. Edits, which write a copy back, are left to EventHistory. *)
(*                                                                         *)
(* The client is external: it asks for the events up to the last ID it got *)
(* for as long as there are more, and keeps events by ID. Migration says   *)
(* what it gets, with and without the task that rewrites events.           *)
(***************************************************************************)
EXTENDS Naturals, FiniteSetsExt

CONSTANTS
    Handlers,       \* the requests that delete and share events
    MaxEventRange,  \* the largest page
    MaxID,          \* bound: the last event ID
    MaxRemovals     \* bound: the events that are deleted or shared

ASSUME BackfillAssumption ==
    /\ MaxEventRange \in Nat \ {0, 1}
    /\ MaxID \in Nat /\ MaxRemovals \in Nat

\* The score "+inf".
Inf == MaxID + 1

\* Who an event is shared with: the game, or only the player it is of, who is
\* the one of the client or another. Whose an event of the game is is left open.
Event == [id : 1 .. MaxID, share : {"game", "mine", "theirs"}]

NoEvent == [id |-> 0, share |-> "game"]

VARIABLES
    hist,       \* the history
    lastID,     \* the last event ID that was drawn
    client,     \* "asking", "waiting" or "done"
    newest,     \* what the client asks for next
    reply,      \* the response under way
    known,      \* the IDs the client has
    step,       \* step[h]: "idle", "read" or, with half a share done, "post"
    copy,       \* copy[h]: the event handler h has read or is to post
    (* Bound and auxiliary. *)
    removals,   \* how many removals there were
    reached     \* where paging ended early: the oldest ID of a full page of
                \* which nothing was shown, 0 if there was none

handling == <<step, copy, removals>>
vars == <<hist, lastID, client, newest, reply, known, handling, reached>>

\* The answer without events.
NoReply == [ids |-> {}, lastID |-> 0, more |-> FALSE]

IDs(E) == {e.id : e \in E}

PlayerCanSeeEvent(e) == e.share \in {"game", "mine"}

Visible(E) == {e \in E : PlayerCanSeeEvent(e)}
-----------------------------------------------------------------------------
\* ZREVRANGEBYSCORE to -inf with LIMIT 0 MaxEventRange: GetBetween does not
\* use the oldest ID it is given, and the model has none.
GetBetween(new) ==
    {e \in hist : /\ e.id <= new
                  /\ Cardinality({f \in hist : e.id < f.id /\ f.id <= new})
                        < MaxEventRange}

\* The events of a page that PlayerCanSeeEvent lets through.
Shown(page) == Visible(page)

\* Variant: there are more whenever there was something.
More_Always(page) == page # {}

More(page) == Cardinality(page) = MaxEventRange

\* handleEvents: a page nothing of which is shown is answered as the last one.
HandleEvents ==
    LET page == GetBetween(newest) IN
    /\ client = "asking"
    /\ reply' = IF Shown(page) = {} THEN NoReply
                ELSE [ids |-> IDs(Shown(page)),
                      lastID |-> Min(IDs(Shown(page))),
                      more |-> More(page)]
    /\ reached' = IF Shown(page) = {} /\ Cardinality(page) = MaxEventRange
                  THEN Min(IDs(page)) ELSE reached
    /\ client' = "waiting"
    /\ UNCHANGED <<hist, lastID, newest, known, handling>>

\* The client takes the response, and asks again if there are more.
TakeReply ==
    /\ client = "waiting"
    /\ known' = known \cup reply.ids
    /\ client' = IF reply.more THEN "asking" ELSE "done"
    /\ newest' = IF reply.more THEN reply.lastID ELSE 0
    /\ reply' = NoReply
    /\ UNCHANGED <<hist, lastID, handling, reached>>

\* An event is added, and streamed to the client if the player can see it.
Add(e) ==
    /\ hist' = hist \cup {e}
    /\ known' = IF PlayerCanSeeEvent(e) THEN known \cup {e.id} ELSE known
    /\ UNCHANGED <<client, newest, reply, reached>>

PostEvent ==
    \E e \in Event :
        /\ e.id = lastID + 1
        /\ Add(e)
        /\ lastID' = e.id
        /\ UNCHANGED handling

\* A request to delete or share an event reads it.
ReadEvent(h) ==
    \E e \in hist :
        /\ step[h] = "idle"
        /\ step' = [step EXCEPT ![h] = "read"]
        /\ copy' = [copy EXCEPT ![h] = e]
        /\ UNCHANGED <<hist, lastID, client, newest, reply, known, reached,
                       removals>>

\* It is removed by its ID, and that is streamed to those who could see what
\* was read of it.
Remove(h) ==
    /\ step[h] = "read" /\ removals < MaxRemovals
    /\ removals' = removals + 1
    /\ hist' = {e \in hist : e.id # copy[h].id}
    /\ known' = IF PlayerCanSeeEvent(copy[h]) THEN known \ {copy[h].id}
                ELSE known
    /\ UNCHANGED <<lastID, client, newest, reply, reached>>

Ends(h) ==
    /\ step' = [step EXCEPT ![h] = "idle"]
    /\ copy' = [copy EXCEPT ![h] = NoEvent]

DeleteEvent(h) == Remove(h) /\ Ends(h)

\* From the game to one player, or from one to the game.
OtherShare(e, f) == e.id = f.id /\ (e.share = "game" <=> f.share # "game")

\* The first half of a share; the request ends if nothing was removed.
ShareDelete(h) ==
    /\ Remove(h)
    /\ IF copy[h].id \in IDs(hist)
       THEN \E e \in Event :
               /\ OtherShare(copy[h], e)
               /\ step' = [step EXCEPT ![h] = "post"]
               /\ copy' = [copy EXCEPT ![h] = e]
       ELSE Ends(h)

\* The second half.
SharePost(h) ==
    /\ step[h] = "post"
    /\ Add(copy[h])
    /\ Ends(h)
    /\ UNCHANGED <<lastID, removals>>

\* The request fails; of a share whose first half is done the event is lost.
Stop(h) ==
    /\ step[h] # "idle"
    /\ Ends(h)
    /\ UNCHANGED <<hist, lastID, client, newest, reply, known, reached,
                   removals>>

Init ==
    /\ lastID \in 0 .. MaxID
    /\ hist \in {H \in SUBSET Event : /\ \A e \in H : e.id <= lastID
                                      /\ \A e, f \in H : e.id = f.id => e = f}
    /\ client = "asking"
    /\ newest = Inf
    /\ reply = NoReply
    /\ known = {}
    /\ step = [h \in Handlers |-> "idle"]
    /\ copy = [h \in Handlers |-> NoEvent]
    /\ removals = 0 /\ reached = 0

Next ==
    \/ HandleEvents \/ TakeReply \/ PostEvent
    \/ \E h \in Handlers :
          \/ ReadEvent(h) \/ DeleteEvent(h)
          \/ ShareDelete(h) \/ SharePost(h) \/ Stop(h)
-----------------------------------------------------------------------------
TypeOK ==
    /\ hist \subseteq Event
    /\ lastID \in 0 .. MaxID
    /\ client \in {"asking", "waiting", "done"}
    /\ newest \in 0 .. Inf
    /\ reply \in [ids : SUBSET (1 .. MaxID), lastID : 0 .. MaxID, more : BOOLEAN]
    /\ known \subseteq 1 .. MaxID
    /\ step \in [Handlers -> {"idle", "read", "post"}]
    /\ copy \in [Handlers -> Event \cup {NoEvent}]
    /\ \A h \in Handlers : step[h] = "idle" <=> copy[h] = NoEvent
    /\ removals \in 0 .. MaxRemovals /\ reached \in 0 .. MaxID

\* A full page in which the player can see nothing but the event he asked
\* from, with more to come: he is told to ask for the same page again.
Stalled ==
    /\ client = "waiting" /\ reply.more /\ reply.lastID = newest
    /\ \E e \in hist : ~ PlayerCanSeeEvent(e) /\ e.id < newest

\* Paging comes to an end, if events that the player cannot see do not fill a
\* page but for one.
BackfillEnds == <>(client = "done" \/ Stalled)
=============================================================================
