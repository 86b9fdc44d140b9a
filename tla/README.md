# A TLA+ model of sr-server

`sr-server` is the backend of Shadowroller, a dice roller for Shadowrun: players
join a *game*, roll dice, and see each other's rolls as they happen. It is a Go
HTTP server over one Redis database. Handlers run concurrently, one goroutine
each; they keep no state between requests but what is in Redis; every Redis
command, or MULTI/EXEC transaction, is atomic and nothing larger is.

This directory holds TLA+ modules of the parts of the server that have state and
run concurrently, TLC configurations for small instances of them, and proofs for
TLAPS. Paths below are relative to the repository.

## 1. Inventory

| Part | State | Operations | What makes it correct |
|---|---|---|---|
| Event history (`game/eventManager.go`, `event/`, `routes/game.go`, `routes/event.go`, `routes/initiative.go`) | the sorted set `history:<game>`, JSON events scored by their ID, a millisecond timestamp; channels `history:*` and `update:*` | post (roll, initiative), reroll, edit, edit initiative, share, delete | an ID names one event; a private event is told to nobody else; a deleted one stays deleted; a roll is rerolled once; what the clients were told is what is stored; a request happens as a whole or not at all |
| Event pages (`handleEvents`, `event.GetBetween`) | none of its own | page backwards through the history | a client told there is no more has everything |
| Online status (`game/playerManager.go`, `player/player.go`, `routes/player.go`) | `connections` and `onlineMode` of `player:<id>` | connect, disconnect, change the mode | the count is right; what the game was last told is right |
| Sessions (`session/session.go`, `routes/auth.go`) | hashes `session:<id>` with a time to live | log in, log out, open and close a stream, the administrator's tasks | a session in use stays, one not in use goes, one that is gone stays gone |
| Subscription (`game/subscribe.go`, `routes/gameSubscription.go`) | two goroutines, two Go channels, a Redis connection | receive, forward, write, cancel, close | messages in order, all of them; both goroutines end |
| Shutdown (`shutdownHandler/`, `main/main.go`) | a routine with a map of clients, a WaitGroup, channels without buffers | register, close, interrupt | the process ends, and not before its handlers |
| Rate limiter (`routes/middleware.go`) | a counter for each address and ten seconds | count a request | the limit holds; who keeps to it is not limited |
| Game information (`game/game.go`, `auth/auth.go`), player storage (`player/player.go`) | the keys `game:<game>`, the sets `players:<game>`, the hashes `player:<id>`, `player_ids` | log in, list the players under WATCH, create a player, add one to a game | the list is one that was there; whoever is logged in belongs to the game; what is named is stored |
| Startup (`setup/`), administrator's tasks (`routes/task.go`) | the same keys | create games and players, add players | a server comes up, with everybody of its configuration in every game |
| Dice (`roll.go`) | a buffered channel | produce, take | each roll follows its rule whoever else rolls, and ends; all faces are equally likely |
| Migration (`task/`) | the history | read a batch, ask a person, write it back | it reaches every event and ends; clients lack nothing because of it |
| Configuration, identifiers, frontend files, HTTP plumbing, the pool of Redis connections | none that changes | | |

How they interact:

* A handler calls the event history; the history publishes on a channel; the
  *subscription* of each connected player reads four channels and writes to the
  client's event stream. `EventHistory` and `Backfill` take a message as heard
  by the clients in the step that publishes it; `Subscription` is what justifies
  that for a client that stays connected (in order, without a gap), and shows
  where it ends.
* A subscription counts its player in and out (`Presence`), keeps its session
  from expiring (`Sessions`), and is a client of the shutdown routine
  (`Shutdown`). Each of these is one of the deferred calls of
  `handleSubscription`, and the modules share its steps: set up, loop, leave.
* The migration is a process of its own: it shares the history with a server
  that may be running, and tells nobody. `Migration` extends `Backfill` and
  composes the two.
* The start of the server, the administrator's tasks and the logins share the
  keys of games and players; `Accounts` has all three.
* All of them end a handler where an error occurs (`httpInternalErrorIf` panics
  with `http.ErrAbortHandler`): the `Faults` constant of a module allows that,
  and a crash, between any two steps.

The hard part is the same everywhere: a handler reads in one Redis command,
decides, and writes in another; it does several writes that belong together;
it publishes in a different command from the one that changes the state. The
`hazards` of `PROJECT.json` list the places, with the properties for each.

## 2. Modules

Each component has a module `M`, a module `MCM` that instantiates it for TLC
with its symmetry set, configurations `MCM_<run>.cfg`, and where there are
theorems `M_proofs`; `RateLimiter` and `Dice`, the two things that a request to
roll goes through, share `RollRequests_proofs`. Definitions whose name contains an underscore
(`DeletedOne_Unchecked`) are variants of the definition that follows them: a
plausible slip in that piece of code. They are used in no behaviour of a
module; putting one in place of the original shows that a property notices.

### EventHistory, and AtomicHistory, which it implements

`hist` is the sorted set. `job[w]` is what the handler run by worker `w` holds
between two steps: the copy it read (`old`), the event it is going to write
(`new`). The first step of a handler (`Roll`, `RollInitiative`, `Reroll`,
`ModifyEvent`, `EditInitiative`, `Delete`, `ShareEvent`) reads the event, checks
what the code checks and draws an ID or an edit time; a handler that answers
4xx before it has written anything changes nothing and is no step. Then there is
one step per transaction: `PostEvent`, `DeleteEvent`, `UpdateEvent`. Sharing and
rerolling are a delete and a post. The counts in an EXEC are looked at after
the fact, as in the code: a handler whose count is wrong ends, and its
transaction stays done.

`view[p]` is what a client of player `p` has made of the messages on the game's
and the player's channels. `asked`, `overheard` and `gone` are auxiliary: pairs
of a roll and a player who may, by what was asked for, and who did hear of it,
and what was reported deleted. No action reads them. A reroll shows the dice and
the title of the roll before it, so that telling somebody of it tells him of
that roll (`Origin`). Who rerolls a roll need not be its owner
(`routes/game.go:237`): naming its ID is enough to be among those who may hear
of it, and `PrivateConfined` says that nobody else does, unless one of them has
it shown in the game.

`AtomicHistory` is the promise: a board on which each request is one step, IDs
are never used again, and an event keeps its owner and its type. The refinement
mapping takes the stored events and those that a handler has deleted and is
about to post again (`Carried`), so that sharing and rerolling are one step, in
which the event is never absent.

* `moves` — two handlers, everything that deletes and posts, and handlers that
  stop between two transactions. All the invariants hold: that `DeleteEvent`
  counts what it deleted is what makes one of two rerolls, shares or deletions
  of an event win. So does the refinement, in which a request that fails may
  `Lose` the one event it was moving and nothing else.
* `sequential` — all endpoints, edits included, one request at a time: the
  clients agree with the history at every step.
* `resurrection` — edits *and* deletes: an edit writes back a whole event as it
  was read, and so brings back one that was deleted since. The same stale copy
  has other effects; see *What does not hold*.

`Distinct` is TRUE in these runs: IDs are drawn in different milliseconds, which
is what the code relies on. `PrivateStaysConfined` is proved without it.

### Backfill, and Migration, which composes it with the task

A client that joins pages backwards with `GET /game/events` while events are
posted, deleted and shared, and hears of those it may see by its subscription.
An event is of the game, or a private one of the client's player (`mine`) or of
another (`theirs`). `HandleEvents` is the whole handler. What the client does
with the answer is outside this repository (`TakeReply`): it asks again from the
last ID, which the query includes, and merges by ID. The query ignores `oldest`,
and so does the model.

A request of `Handlers` reads an event (`ReadEvent`) and deletes it
(`DeleteEvent`), or shares it: `ShareDelete` removes it by its ID, and
`SharePost` adds the copy, visible to others than before, under the same ID. It
may stop in between, and what it has read may be out of date by then. Who may
delete or share an event is in EventHistory; here anybody may.

`Migration` adds `task migrate`: `StartTask` draws the ID it starts from,
`ReadBatch` is the read of a round and the test for the last one, `WriteBatch`
is `BulkUpdate`, one transaction that removes and adds each event as it was
read, while a person was answering, with the player it is given
(`Migrated`). The player is what decides who sees a private event, so that any
private event may become the client's or stop being so; no client is told. In
between the server does as it likes (`Serve`), and the task may panic
(`CrashTask`). That a batch is empty is not the end for `streamReadEvents`: it
goes on from the last event of no events, and panics (`failed`).

Auxiliary are `pending`, the events the task has still to write; `untold`, those
that the player can see because the task wrote them, which he could not before
or which were gone; and `reached`, where a full page of other players' private
events was answered as the end.

`paging` has every history of at most three events. `CompleteBesidesUntold`: a
client that is told there is no more has everything its player can see down to
`reached`, but for events that are untold. It needs that a batch is removed and
added in one transaction (`WriteBatch_Halves`), and it makes an assumption:
`SharesApart`, a guard of `WriteBatch`, has no share with one of its
transactions before the write of its event and the other after. Such a share
would add a second event with the same ID, in what is a person's pause between
two batches against two commands of a handler.

`AllButOldest`, of the step to `done`: the task has then written all that was
there and still is, but for the oldest event of the history; that one is real,
since a batch of one counts as the end. `MigrationEnds`: each batch starts
further back than the one before, whatever comes and goes. The last ID of a page
is that of its last *visible* event: when that is the very event that was asked
from, and the page is full, the next request is the same one. `Stalled` names
that state, and `BackfillEnds` says that nothing else keeps paging from ending.

### Accounts

Games, players, and who is in which game. `server` goes through the steps of
`CheckGamesAndPlayers` of a development server, each HMSET, transaction and
SADD one step; it may be cut off at any of them (`Crash`) and is started again.
`job[r]` is what a request is doing: the administrator's (`CreateGame`,
`CreatePlayer`, and `FindUser`, `FindPlayer`, `AddToGame`), a login (`LogIn`,
`GetByID`, then the list) or a `GetInfo`. `Watch`, `GetMembers` and `Exec` are
the three trips of `GetPlayersIn`. `Unchanged` is what WATCH does: sets of
players only grow, so that one that was written is a different one. An EXEC that
was aborted answers nil, which `redis.Values` makes an error of its own: the
retry for `ErrTransactionAborted` never happens, and `Exec` ends the request.

`Create` writes the username and the player before anybody looks whether the
username was there. So a start that finds one of its usernames panics, but has
stored one more player; the next start counts players, not names, and after
enough panics finds as many as it wants. That is why the server comes up in the
end (`ServerStarts`).

`Init` has the empty database (`ours`), and one that was set up for another
configuration, with `OtherUsernames` and `OtherGames`. The start compares
numbers, never names, and that is all that `StartComplete` says of the second
kind: as many games and players as configured, though `defaultData.go:80` says
that the names are added "if missing". Of the first kind it says that the games
are there, however often a start was cut off, and every player in every game,
unless the process ended (`cutOff`) after the first player of a start was
created and before the last was added. A panic at a username is no such
end by itself: with a database of its own it only follows one.

### Dice

`SendDie` and `SkipByte` are the goroutine of `GenerateRolls` with one byte,
`unread` the bytes it has not looked at. `Take` is one receive of a handler, in
`FillRolls`, `ExplodingSixes` or `RerollFailures`, with what follows the last
die of a round. Handlers interleave on the channel die by die. `RulesKept` says
what the comments of `roll.go` do of the three: a round for the sixes of the
one before, hits counted, misses rerolled. `RollsEnd`: every roll gets its dice,
though it may be larger than the buffer. That the conversion of bytes is
unbiased is a statement about constants, `Even`, which `MCDice` assumes, TLC
evaluates over all 256 bytes, and `EvenDice` proves. `rounds` keeps the last two
rounds only: the rule relates each to the next.

### Presence

One player with several devices. `Connect` is HINCRBY, `Publish` the PUBLISH
that may follow it; `ReadPlayer` and `UpdatePlayer` are the two halves of
`/player/update`. Handlers may stop anywhere; the auxiliary `lost` counts those
that stopped between their increment and their decrement, and `announced` the
messages, published or lost with their handler, as +1 and -1. `count` shows that
the stored count is exact up to `lost` (so that a connected player is never
counted out), and that for each rise from 0 and each fall to 0 exactly one
handler takes it upon itself to tell the game: no arrival is announced by two
devices or by none. What does not follow is that the messages arrive in that
order (`overlap`).

### Sessions

`ttl[s]` is the time to live Redis has for a session, `Forever` when it has
none. Every command is a step. The units are constants made small, so that the
conversion in `Session.Expire` is the code's, nanoseconds and all. `lifecycle`
has two sessions, two streams that may share one, logouts
and the administrator's tasks, and handlers that stop anywhere ("lost" marks a
login or a stream that did): a session without a time to live is always
accounted for by a login or a stream, and neither a late Expire nor a late
Unexpire brings back one that is gone. One that nobody reads with any more, and
that no task has listed, is gone in the end (`AbandonedExpires`). The condition
on tasks is needed: times to live have two ticks, and `TimeoutAllSessions` again
and again sets them anew, for ever.

### Subscription

`subscribeTask` and `handleSubscription`, step by step. `messages` has no
buffer, so that a send and its receive are one step (`TakeMessage`) and the task
waits in `send`; `errors` has room for one. The `select` of the handler is a
choice between whatever is ready, among it the zero value of a closed channel.
With a connection that may break, a client that may leave and a server that may
shut down (`faults`) the messages written are those published, in order and
without a gap; every one gets there unless the handler is on its way out.
`TypeOK` says among other things that the task never blocks on `errors`.

The deferred calls are two steps: `Return`, down to `cancel` and `stream.Close`,
and `CloseClient`, the last, which sends to the shutdown routine. `routine` says
where that one is: in its select (`select`), sending to this handler (`here`,
where it stays until the handler takes it), or with other clients (`elsewhere`).
A client that leaves while the server shuts down may find it sending for good:
`StuckInClose` is this handler's view of the `Stuck` of `Shutdown`, and
`HandlerEnds` says that a handler whose client has left, or that is told to shut
down, returns unless it stays in that state for ever.

### Shutdown

The routine that owns the map of clients, the goroutine of each server, the
subscriptions and `main`. Sends without a buffer are one step with their
receive. A subscription counts its player's connection in and out; a PUBLISH
that fails after the increment ends the handler before the decrement is
deferred, and a decrement that fails is logged. The auxiliary `uncounted` has
those, and `CleanExit` says that when `main` returns no other connection is left
counted: it cuts nobody off. `WaitGroupExact` and `CleanExit` hold for every
interleaving (`clean`).
The end itself does not follow: the routine may be sending to a client which is
in `Close`, sending to the routine. `Stuck` names that state, and `ShutdownEnds`
says that it is the only one in which a signal does not end the process.
`ServerShutdown` may happen at any time once no request of the main server is
in `MakeClient`: it returns when requests are done or after ten seconds.

### RateLimiter

One address. `Get` and `Increment` are the two trips to Redis. The window is 10
seconds and the key lives for 15; the model has 2 and 3. `Prompt` says that a
request is through the middleware before the key of its window may expire, five
seconds after the window; without it an old counter may start over.

## 3. Bounds

| Constant | Module | Why it is enough |
|---|---|---|
| `Workers` 2 (1 in `sequential`), `Players` 2 | EventHistory | each race is between two handlers; an owner and somebody else |
| `MaxTime` 3 | EventHistory | a roll, its reroll and one more, or an edit time |
| `Titles` 1–2 | EventHistory | an edit that changes something and one that does not |
| `Devices` 4 (2 in `overlap`), `Settings` 2 | Presence | several on each side of 0 and 1 connections |
| `MaxCount` 5 | Presence | above the number of devices; it also stops the leaked count |
| `Ids` 2, `Streams` 2 | Sessions | two tabs of one session, or one each |
| `TempSessionTTLSecs` 2, units of time 1–2 | Sessions | keeps the times to live of both kinds of session apart, with time to renew each before it is over |
| `MaxMessages` 3, `MaxWritten` 4 | Subscription | one written, one in flight, one waiting; room for a zero Message |
| `Servers` 2, `Subs` 2, `MaxSignals` 2 | Shutdown | late, told, and leaving by itself; a second signal |
| `Requests` 2, `MaxRequestsPer10Secs` 2, `MaxTime` 4, `MaxArrivals` 5 | RateLimiter | two windows and part of a third; below, at and above the limit |
| `MaxEventRange` 2, `MaxID` 3 | Backfill | pages overlap by one event, so that two is the least that advances; up to three pages, each visible, hidden or mixed, with posts in between |
| `Handlers` 1, `MaxRemovals` 1 | Backfill | one event deleted or shared beside a page and a batch; a copy of it that the task has made out of date; proved for any number |
| `BufferSize` 2, `MaxRuns` 1 | Migration | batches overlap like pages; two batches and the last one |
| `UsernameCount` 2, `GameCount` 2, `Usernames` 2, `Games` 3 | Accounts | the first and the last of each loop; a game that is not of the configuration |
| `OtherUsernames` {2}, `OtherGames` {1, 3} | Accounts | as many games as configured, but one of them another; fewer players, and a username that the start is going to create |
| `Readers` 1, `Tasks` 1 | Accounts | each race is between a reading and a writing request, or the start; proved for any number |
| `MaxCrashes` 1, `MaxPlayerID` 3 | Accounts | a start that is cut off, then panics, then comes up; a username taken over by another player |
| `RollBufferSize` 2, `MaxSingleRoll` 2, `Handlers` 2 | Dice | exploding rolls that need more dice than the buffer holds, interleaved with another's |
| `Bytes` {0, 5, 252} | Dice | a miss, a six, and a byte that is skipped; in rerolls also fives of the roll before |
| `MaxSixes` 3 | Dice | an exploding roll ends with probability one only: the bound stands for that |

Every configuration says `CHECK_DEADLOCK FALSE` where the bounds, or the system
itself, come to an end: IDs run out, the process has exited, a client has all it
asked for.

## 4. Fairness

* Sessions: time goes on, and a handler that has started a pair of commands
  sends the second. Clients owe nothing.
* Subscription: both goroutines run when they can (weak fairness); a case of
  the `select` that is ready time and again is taken, because Go chooses at
  random (strong fairness of the three cases that end it or make progress).
  `CloseClient` too is a case of a select, the shutdown routine's (strong
  fairness); that the routine comes back to it is not assumed.
* Shutdown: the same for the routine's `select`, weak fairness for the rest.
  Signals and the departure of clients are never forced.
* Migration: requests are answered, the client asks on, a handler that has read
  an event goes on or stops, and the person at the terminal answers (strong
  fairness of the task, since `SharesApart` may hold a write up for the length
  of a share, again and again). Posts, deletions and crashes are never forced.
* Accounts: whoever develops starts a server that is down again, and Redis
  answers, so that a start goes on. This is an assumption about people: nothing
  in the repository restarts a server. Requests owe nothing.
* Dice: the generator of random numbers does not fail for ever, nor yield only
  bytes that are skipped; Go serves those that wait on a channel in their turn
  (strong fairness of each handler's `Take`).

Everything else is safety.

## 5. Proofs

TLC checks small instances; these hold for all values of the constants.

* `EventHistory_proofs` — `TypeCorrect`. `PrivateStaysConfined`: for any number
  of handlers, with faults, equal IDs and every mixture of requests. The
  invariant is that whoever would hear of a *copy* in a handler's hands may hear
  of the roll it shows (`CopiesAsked`): it is the copies, not the history, that
  a step writes and publishes. That a player who rerolls a roll by its ID is
  among those who may is in the definition (section 6), not proved away. `OneRecord`: with distinct IDs and without both edits
  and moves in use (`NoMoveWithEdit`), an ID names one event; the invariant
  says of each handler in which step its ID may be in the history.

  `DeletedForGood` (`DeletedStaysDeleted`), `OneReroll` (`RerolledOnce`) and
  `ImplementsAtomic` (`AtomicSpec`) assume `EditsAlone`: distinct IDs, and edits
  are not among the requests unless there is one handler. The condition is not
  for the proof's sake: `resurrection` is what happens without it. Neither of
  the first two is inductive, for two handlers may hold copies of one event,
  each about to delete it and post what it made of it. `BoardInv` is about the
  *board*, the history and what a handler has deleted and not posted yet, and
  says: an ID names one event of the board, and none that is gone (`OnBoard`);
  what a handler carries is nowhere else, neither in the history nor with
  another handler (`Carrying`): this is what the count of a deletion buys;
  nobody knows the ID of a new event but its handler (`Bringing`); a copy
  differs from the event with its ID in the share at most, because an event may
  have been shared since (`Copied`); each endpoint holds what its code made
  (`Shape`); what was rerolled is gone (`Rerolled`); and the clock is ahead of
  all of it (`Drawn`). The refinement follows from it a step at a time: a
  transaction that deletes in order to post leaves the board as it was, the one
  that posts is the `Share` or `Reroll` of `AtomicHistory`, and a handler that
  stops in between is its `Lose`.

  `ClientsInStep` (`ClientsAgree`) assumes `MovesAlone`: no shares either,
  beside other requests, since a deletion is published to those who saw the
  share that the handler read (section 6). An edit is told as a diff, so the
  invariant adds that a copy is still the event (`Exact`).
* `Presence_proofs` — `PresenceTypeCorrect`, `Accounting` (`CountAccounted`) and
  `Announcing` (`AnnouncedOnce`), all with handlers that may stop anywhere. They
  rest on what one device's change of phase does to the cardinality of the set
  of counted devices (`CountedIn`, `CountedOut`) and of those about to publish
  (`PhaseStep`). That the count stays in `Nat` needs the accounting: a
  disconnecting device is counted, so the count is at least 1.
* `Sessions_proofs` — `SessionsTypeCorrect`; `NothingLeftForever`, of
  `UnattendedExpires`; `GoneForGood`, an action property. `OnlyUseProlongs`:
  whatever puts off the end of a session is its login, a stream that uses it, or
  a task that has listed it. Faults included.
* `Subscription_proofs` — `SubscriptionTypeCorrect` rests on `Errorless`: until
  the task sends its one error the buffer is empty. `MessagesInOrder`
  (`InOrder`) rests on `Chained`: the message the handler is writing, the one
  the task is sending and those on the connection are, in this order, the ones
  that follow the `k` messages written, without a gap. A message moves along the
  chain with every step, and `k` grows when one is written. Zero messages pass
  beside it. A handler on its way out may break the chain, but writes no more.
  From `Chained` follows `NothingLost` too: each message that was published is
  written, with one of the goroutines, or on the connection. `TaskLeftBehind`:
  a task that is receiving when its handler returns does not get out of `receive`
  and `send` while the connection holds, and once it is sending never.
* `Shutdown_proofs` — `ShutdownTypeCorrect`; `Counting` (`WaitGroupExact`),
  from `MapInv`: the map holds exactly the clients between `MakeClient` and
  `Close`, but for the one that came late and is being told. `CleanEnd`
  (`CleanExit`), from `EndInv`: a subscription is a counted connection only
  inside its loop, where it is in the map, or when a command of its own failed; `main` exits when the WaitGroup is 0,
  and by then the main server's `Shutdown` has returned, after which no
  subscription can register any more. `OneDeadlock`: `Ready` spells out who can
  go on after the signal without being asked to, and until the process has ended
  somebody can, or the routine and a client that left wait for each other
  (`Stuck`). It rests on `TurnInv`: whom the routine tells and who was told it
  knows exactly, and a server is not closed before it was told. `StuckForGood`:
  from there nothing leads on, not even a second signal.
* `RollRequests_proofs` — of the limit: `RateLimiterTypeCorrect`; `OnlyForCause`
  (`LimitedForCause`), for the count and the requests under way are never more
  than those that have arrived. `BoundedAdmission` (`AdmittedBound`), which
  assumes `Prompt`: until its key may expire no served request is missing from
  the count (`NotForgotten`), so that whoever is let through finds at most the
  setting, and those between GET and INCR are no more than `Requests`.
  Of the dice: `DiceTypeCorrect`; `RollsByTheRules` (`RulesKept`), for any buffer,
  pools and number of handlers. It rests on `DiceInv`: between two receives a
  handler has counted the dice of its own round, as many as it has (`Drawing`),
  and when a round is full its rule holds between it and the next, or the roll
  before it (`Drawn`); one more die is one more of those counted or none.
  `RoundsShrink`: a roll changes by its own receives only, and no round is larger
  than the one before. `EvenDice`: each face has 42 of the 252 bytes.
* `Migration_proofs` — `MigrationTypeCorrect`; `PagingIsComplete`
  (`CompleteBesidesUntold`) and `TaskLeavesOldest` (`AllButOldest`, an action
  property), for any history, any sizes of pages and batches from two, and any
  number of handlers. They rest on what a page is, whatever the history:
  everything between its last event and the ID that was asked for (`PageUp`),
  and everything up to that ID when it is not full (`PageWhole`); both are
  counting arguments over finite sets (`MaxFact`, `PageSize`). `Paging` says what
  the client has at each point: of the events its player may see all those from
  the ID it asks from next, but for untold ones (`Known`). `Progress` says the
  same of the task: what it has still to write is in its batch or older than all
  of the batch. `Records` says that an ID names one event of the history, one of
  the batch, and that an event between the two halves of a share is with one
  handler and not in the history, so that what is written back or posted again
  replaces no other: this is where `SharesApart` is used.
  `BatchesGoBack`: a round that is over has got the task further back, since a
  batch of two or more has an event older than the ID it was read from, and none
  is newer (`Older`). `PagesGoBack`: so has a page that says there is more, but
  for one that shows nothing but the event asked from.
* `Accounts_proofs` — `AccountsTypeCorrect`. `NamesAreStored` (`Referential`):
  nothing is removed (`OnlyAdded`), and whoever is about to be added to a game,
  by the start or by a task, is stored (`AddsStored`). `LoginsBelong`
  (`LoggedInBelongs`) and `ListsAreCurrent` (`ListIsCurrent`, an action
  property) for any number of requests: a request past `GetByID` holds a player
  that is stored under its username, and what it watched is part of the set
  (`ReadsHold`); an EXEC that finds the set unchanged found it so at SMEMBERS,
  which came between. `StartsComplete` (`StartComplete`), for every configuration,
  every database and number of crashes: `StartInv` says how far each loop has
  come. No ID is used twice (`IdsUsed`), so that each turn of the loop over
  usernames has made one more player (`EnoughPlayers`), whatever is in the
  database; and on a database of its own, before everybody is there, either a
  start was cut off, or there are no players, so that the next start creates
  them all (`PlayersDone`).
  `FailedStartsHelp`: a start that panics at a username that was there has made
  a player, so fewer starts do so than there are usernames. On a database of its
  own they never make more players than that, which rests on `FromTheFirst`: the
  usernames that are there begin with the first.

All of them assume only what the modules do of their constants
(`ConstantsAssumption`, `PresenceAssumption` and so on), and what a theorem itself names.

Not proved is liveness, which is out of the prover's reach, for it rests on
fairness and on when actions are enabled. TLC checks it, and what it rests on
that is safety is proved:

| Liveness | Safety it rests on |
|---|---|
| `EveryMessageWritten` | `NothingLost`: the message is somewhere on its way |
| `HandlerEnds` | `OneDeadlock`, of the routine it waits for; else it rests on Go's choice among ready cases |
| `ShutdownEnds` | `OneDeadlock`: somebody can go on, or the state is `Stuck` |
| `AbandonedExpires` | `OnlyUseProlongs`: without use there is only less time left |
| `MigrationEnds`, `BackfillEnds` | `BatchesGoBack`, `PagesGoBack`: each round or page gets further back |
| `RollsEnd` | `RoundsShrink`: no other handler sets a roll back |
| `ServerStarts` | `FailedStartsHelp`: each start that fails leaves fewer players to create |

`ShownAtRest`, and `DeletedStaysDeleted` without `EditsAlone`, do not hold
(section 6). In `Dice`, `Take` names `roll[h]` where TLA+ would allow nested
`@`, which the prover misreads.

## 6. What does not hold

Two statements of the sources are checked and found violated (`findings` in
`PROJECT.json`): an event that was deleted comes back (`resurrection`), and the
last message about a player is not the last change of the count (`overlap`).
Reading and modelling showed more, which no run of its own is kept for:

* A share is a delete and a post (`game/eventManager.go:122`): a handler that
  stops in between has lost the event. `Lose` of `AtomicHistory` stands for it.
* An edit that read an event before it was shared writes the old share back
  (`routes/game.go:106`); of two concurrent edits the history keeps the last
  copy while the clients merge both diffs; a deletion is published on the
  channel of the share the handler read, which may not be the stored one any
  more (`game/eventManager.go:74`). With two workers, therefore, `ClientsAgree`
  holds without edits and shares (`ClientsInStep`), and not in general.
* `handleEditInitiative` answers an empty diff with "(Idempotent, no changes
  made)" and then writes and publishes it (`routes/initiative.go:147`).
* `handleReroll` does not look whose roll it is (`routes/game.go:237`), as the
  handlers that edit, share and delete do. Another player who names the ID of a
  private roll takes it: it is removed, and its title and dice go out in a reroll
  that is his, although `event/share.go:11` says "share only to the originator".
  `PrivateConfined` counts him among those who asked for it.
* Two events of one millisecond have one ID (`id/timestamp.go:20`), and then
  `OneRecordPerId` fails: `Distinct` is an assumption.
* `UpdatePlayerConnections` announces a player whatever the online mode
  (`game/playerManager.go:65`), although `player/player.go:27` says of one in
  offline mode that he is always shown as offline.
* A handler that stops leaves its count of connections behind, or a session
  without a time to live (`routes/gameSubscription.go:85`,
  `session/session.go:78`): `lost` in Presence and Sessions. So does one whose
  PUBLISH fails after the increment, for the decrement is not deferred yet, and
  one whose decrement fails, which is logged (`routes/gameSubscription.go:94`):
  `uncounted` in Shutdown.
* A session whose time to live the administrator's task sets anew before it is
  over, again and again, is never gone, whether it is used or not
  (`routes/task.go:60`).
* `client.Close`, the last deferred call of a subscription, may wait for ever for
  a shutdown routine that waits for a client to take its message
  (`routes/gameSubscription.go:51`): `StuckInClose` in Subscription, `Stuck` in
  Shutdown.
* The first of two streams of one session to close sets it to expire while the
  other is open (`routes/gameSubscription.go:77`), although `database.org:17`
  says that it is kept while a player is connected.
* The handler may take the zero Message of the closed channel and write it
  (`routes/gameSubscription.go:129`), and a task that receives a message after
  its handler has returned waits for ever to send it (`game/subscribe.go:61`).
  The comment there says that this leak "is not indefinite" (line 34), as if the
  next message ended it: it does not (`TaskLeftBehind`).
* A persistent session is given nanoseconds for seconds (`session/session.go:142`),
  although `config/config.go:188` has days of it.
* While the shutdown routine sends to its clients it does not read a second
  signal (`shutdownHandler/shutdownHandler.go:87`), although line 80 says
  "ctrl+C to force"; if it is stuck it never does (`StuckForGood`).
* `player.Create` looks at the results when both hashes are written
  (`player/player.go:310`): a username that was there now names a new player,
  who is in no game, and the caller is told of an error. A development server
  whose start was cut off while it created players therefore panics when it is
  started again, or finds enough of them and runs without adding them to games
  (`setup/defaultData.go:60`).
* Names of games and players are not compared with the configuration, only their
  numbers: on a database that was set up for another configuration a server may
  run without a game or a player of its own, although `setup/defaultData.go:80`
  says that what is missing is added.
* `ErrTransactionAborted` is never returned: an EXEC that was aborted answers
  nil, of which `redis.Values` makes `ErrNil` (`game/game.go:50`), so that the
  transaction "should be retried" (line 15) and is not.
* `/task/delete-game` is registered with `handleCreateGame`
  (`routes/task.go:132`); `handleTrimPlayers` sends MULTI and then reads
  sessions, whose replies are QUEUED, so that it ends with an error at the
  first of them.
* The migration writes deleted events back, undoes shares that were made since
  it read, and gives private events to other players, of all of which no client
  is told (`task/migrateEventsTask.go:110`); a share with its two transactions
  around the write of its event would leave it in the history twice; it takes a
  batch of one event for the end, although that event may not be migrated; and
  panics at an empty history (`task/eventTask.go:24`, `:44`).
* With `ROLL_BUFFER_SIZE` 0 the goroutine of the dice reads nothing for ever
  (`roll.go:159`).
* The rate limit admits one request more than the setting, for the count of
  the requests *before* is compared with `>` (`routes/middleware.go:118`).
* `GetBetween` ignores the oldest ID it is given (`event/event.go:48`), and a
  full page of hidden events is answered as the end (`routes/game.go:363`).

## 7. Plan

Done, in this order: EventHistory and AtomicHistory, Presence, Sessions,
Subscription, Shutdown, RateLimiter, Backfill; proofs for five of them; Accounts
(logins, lists of players, the start, the administrator's tasks) with its
proofs; Migration, composed with Backfill; Dice; proofs of what EventHistory
promises of deleted and rerolled events and of its clients, of its refinement
of AtomicHistory, of Migration and of Subscription; proofs of Dice, of the
states that Shutdown can be stuck in, and of the safety that liveness rests on.

Left: compose Subscription with Presence and Sessions in the order of the
deferred calls; replace the immediate delivery in EventHistory by queues.

## 8. Not modelled

* The configuration is read once, and checked before anything runs.
* Frontend files, the routers, TLS, CORS, logging and headers are I/O without
  state of their own; that an error ends its handler is in every module.
* Random identifiers are taken to be unique. `id/tid.go` is not used.
* `fixPresite` rewrites one HTML file. `handleDeleteGame` is registered nowhere,
  and `handleTrimPlayers` writes nothing.
* The name and hue of a player (`/player/update`), which no other state depends
  on, and the JSON of updates.
* Redis is taken to do what it documents: a command or a transaction is atomic,
  a message goes to whoever is subscribed. Losing the last seconds of the
  database when Redis itself crashes is outside the program.
