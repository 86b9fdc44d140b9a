------------------------------ MODULE Accounts ------------------------------
(***************************************************************************)
(* Games, players and who is in which game: the start of a development     *)
(* server, which creates those of its configuration (setup/defaultData.go),*)
(* the administrator's tasks that create more (routes/task.go), and the    *)
(* requests that read them, with the optimistic transaction of             *)
(* GetPlayersIn (game/game.go, player/player.go, auth/auth.go).            *)
(*                                                                         *)
(* Nothing removes a game or a player: /task/delete-game is registered     *)
(* with handleCreateGame.                                                  *)
(***************************************************************************)
EXTENDS Naturals, FiniteSets

CONSTANTS
    UsernameCount,  \* the HardcodedUsernames are 1 .. UsernameCount
    GameCount,      \* the HardcodedGameNames are 1 .. GameCount
    Usernames,      \* all usernames that are ever used
    Games,          \* all game IDs that are ever used
    OtherUsernames, \* the usernames and the game names of another configuration,
    OtherGames,     \* which the database may have been set up for
    Readers,        \* the requests that log in or ask for a game
    Tasks,          \* the requests of the administrator
    MaxCrashes,     \* bound: how often the server is cut off
    MaxPlayerID     \* bound: the administrator creates no more players

HardcodedUsernames == 1 .. UsernameCount
HardcodedGames == 1 .. GameCount

Requests == Readers \cup Tasks

ASSUME AccountsAssumption ==
    /\ UsernameCount \in Nat \ {0} /\ GameCount \in Nat \ {0}
    /\ HardcodedUsernames \subseteq Usernames /\ Usernames \subseteq Nat
    /\ HardcodedGames \subseteq Games /\ IsFiniteSet(Games)
    /\ OtherUsernames \subseteq Usernames \ {0} /\ OtherGames \subseteq Games
    /\ MaxCrashes \in Nat /\ MaxPlayerID \in Nat

\* No player: IDs are numbers from 1, in the order they are made.
Nobody == 0

Player == [id : Nat \ {Nobody}, uname : Usernames]

VARIABLES
    (* What is stored. *)
    games,      \* the keys game:*
    players,    \* the keys player:*
    playerIDs,  \* player_ids: the ID of each username, or Nobody
    members,    \* members[g]: the set players:g
    (* The server. *)
    server,     \* "down", a step of its start, or "running"
    user, game, \* where the loops of the start are
    plr,        \* the player it is adding to the games
    job,        \* job[r]: what request r is doing
    (* Bounds and auxiliary. *)
    lastID,     \* the last player ID
    crashes,
    cutOff,     \* the process ended between creating the first player of a
                \* start and adding the last one
    ours        \* the database is one that this configuration has made

stored == <<games, players, playerIDs, members, lastID>>
starting == <<user, game, plr>>
vars == <<stored, server, starting, job, crashes, cutOff, ours>>

Steps == {"idle", "put", "found", "add", "player", "watch", "members", "exec",
          "listed"}

\* A request: its step, the game, the username and the player it is about, and
\* the IDs it watched and read.
Job == [step : Steps, game : Games, name : Usernames \cup {Nobody},
        plr : Nat, watched : SUBSET Nat, list : SUBSET Nat]

Idle == [step |-> "idle", game |-> 1, name |-> Nobody, plr |-> Nobody,
         watched |-> {}, list |-> {}]

Stored(p) == \E q \in players : q.id = p
-----------------------------------------------------------------------------
(* player.Create and game.AddPlayer, one transaction each. *)

\* The result data[0] is 1: HSET has added a field.
IsNew(u) == playerIDs[u] = Nobody

\* Variant: the username is looked up first, and nothing written if it exists.
Create_Checked(u) ==
    IF IsNew(u)
    THEN /\ lastID' = lastID + 1
         /\ players' = players \cup {[id |-> lastID + 1, uname |-> u]}
         /\ playerIDs' = [playerIDs EXCEPT ![u] = lastID + 1]
    ELSE UNCHANGED <<lastID, players, playerIDs>>

\* Variant: only the username is written.
Create_NoHash(u) ==
    /\ lastID' = lastID + 1
    /\ playerIDs' = [playerIDs EXCEPT ![u] = lastID + 1]
    /\ UNCHANGED players

\* The results are looked at when all is written: a player whose username was
\* there takes it over, and the caller is told of an error.
Create(u) ==
    /\ lastID' = lastID + 1
    /\ players' = players \cup {[id |-> lastID + 1, uname |-> u]}
    /\ playerIDs' = [playerIDs EXCEPT ![u] = lastID + 1]

AddPlayer(g, p) == members' = [members EXCEPT ![g] = @ \cup {p}]
-----------------------------------------------------------------------------
(* The start of the server: CheckGamesAndPlayers. *)

Boot ==
    /\ server = "down"
    /\ server' = "games"
    /\ UNCHANGED <<stored, starting, job, crashes, cutOff, ours>>

\* KEYS game:*; only their number counts.
ListGames ==
    /\ server = "games"
    /\ server' = IF Cardinality(games) < GameCount THEN "hmset" ELSE "players"
    /\ game' = 1
    /\ UNCHANGED <<stored, user, plr, job, crashes, cutOff, ours>>

\* Variant: the loop goes one game too far.
LastGame_Past == game > GameCount

\* Variant: the last game is left out.
LastGame_OffByOne == game + 1 >= GameCount

LastGame == game = GameCount

AddHardcodedGame ==
    /\ server = "hmset"
    /\ games' = games \cup {game}
    /\ server' = IF LastGame THEN "players" ELSE "hmset"
    /\ game' = IF LastGame THEN 1 ELSE game + 1
    /\ UNCHANGED <<players, playerIDs, members, lastID, user, plr, job,
                   crashes, cutOff, ours>>

\* KEYS player:*; again only their number counts.
ListPlayers ==
    /\ server = "players"
    /\ server' = IF Cardinality(players) < UsernameCount THEN "create"
                 ELSE "running"
    /\ user' = 1
    /\ UNCHANGED <<stored, game, plr, job, crashes, cutOff, ours>>

\* Creating a player fails if the username is there, and that is a panic.
CreateHardcodedPlayer ==
    /\ server = "create"
    /\ Create(user)
    /\ server' = IF IsNew(user) THEN "sadd" ELSE "down"
    /\ plr' = lastID + 1
    /\ game' = 1
    /\ UNCHANGED <<games, members, user, job, crashes, cutOff, ours>>

AddHardcodedPlayer ==
    /\ server = "sadd"
    /\ AddPlayer(game, plr)
    /\ IF ~ LastGame
       THEN server' = "sadd" /\ game' = game + 1 /\ user' = user
       ELSE /\ server' = IF user = UsernameCount THEN "running" ELSE "create"
            /\ game' = 1
            /\ user' = IF user = UsernameCount THEN 1 ELSE user + 1
    /\ UNCHANGED <<games, players, playerIDs, lastID, plr, job, crashes, cutOff,
                   ours>>

\* The process ends: it is killed, or panics at an error of Redis.
Crash ==
    /\ server # "down" /\ crashes < MaxCrashes
    /\ server' = "down"
    /\ job' = [r \in Requests |-> Idle]
    /\ crashes' = crashes + 1
    /\ cutOff' = (cutOff \/ server = "sadd" \/ (server = "create" /\ user > 1))
    /\ UNCHANGED <<stored, starting, ours>>
-----------------------------------------------------------------------------
(* The administrator's tasks. *)

\* Request r goes on, or ends.
Goes(r, j) ==
    /\ job' = [job EXCEPT ![r] = j]
    /\ UNCHANGED <<server, starting, crashes, cutOff, ours>>

Begins(r) == server = "running" /\ job[r].step = "idle"

\* handleCreateGame looks for the game, and ends if there is one.
CreateGame(r) ==
    \E g \in Games :
        /\ Begins(r) /\ g \notin games
        /\ Goes(r, [Idle EXCEPT !.step = "put", !.game = g])
        /\ UNCHANGED stored

\* HSET; of two that create one game the second is told of an error.
PutGame(r) ==
    /\ job[r].step = "put"
    /\ games' = games \cup {job[r].game}
    /\ Goes(r, Idle)
    /\ UNCHANGED <<players, playerIDs, members, lastID>>

CreatePlayer(r) ==
    \E u \in Usernames :
        /\ Begins(r) /\ lastID < MaxPlayerID
        /\ Create(u)
        /\ Goes(r, Idle)
        /\ UNCHANGED <<games, members>>

\* GetByUsername: HGET player_ids.
FindUser(r) ==
    \E u \in Usernames, g \in Games :
        /\ Begins(r) /\ playerIDs[u] # Nobody
        /\ Goes(r, [Idle EXCEPT !.step = "found", !.game = g, !.name = u,
                                !.plr = playerIDs[u]])
        /\ UNCHANGED stored

\* GetByID: HGETALL.
FindPlayer(r) ==
    /\ job[r].step = "found"
    /\ Goes(r, IF Stored(job[r].plr) THEN [job[r] EXCEPT !.step = "add"]
               ELSE Idle)
    /\ UNCHANGED stored

\* Nobody looks whether there is such a game.
AddToGame(r) ==
    /\ job[r].step = "add"
    /\ AddPlayer(job[r].game, job[r].plr)
    /\ Goes(r, Idle)
    /\ UNCHANGED <<games, players, playerIDs, lastID>>
-----------------------------------------------------------------------------
(* Reading: LogPlayerIn and GetInfo. *)

\* Logging in starts with HGET player_ids.
LogIn(r) ==
    \E u \in Usernames, g \in Games :
        /\ Begins(r) /\ playerIDs[u] # Nobody
        /\ Goes(r, [Idle EXCEPT !.step = "player", !.game = g, !.name = u,
                                !.plr = playerIDs[u]])
        /\ UNCHANGED stored

GetByID(r) ==
    /\ job[r].step = "player"
    /\ Goes(r, IF Stored(job[r].plr) THEN [job[r] EXCEPT !.step = "watch"]
               ELSE Idle)
    /\ UNCHANGED stored

\* GET /game/info, of somebody who is logged in.
GetInfo(r) ==
    \E g \in Games :
        /\ Begins(r) /\ members[g] # {}
        /\ Goes(r, [Idle EXCEPT !.step = "watch", !.game = g])
        /\ UNCHANGED stored

Watch(r) ==
    /\ job[r].step = "watch"
    /\ Goes(r, [job[r] EXCEPT !.step = "members",
                              !.watched = members[job[r].game]])
    /\ UNCHANGED stored

\* SMEMBERS; without any the game counts as not found.
GetMembers(r) ==
    /\ job[r].step = "members"
    /\ Goes(r, IF members[job[r].game] = {} THEN Idle
               ELSE [job[r] EXCEPT !.step = "exec",
                                   !.list = members[job[r].game]])
    /\ UNCHANGED stored

\* Variant: the key was not watched.
Unchanged_Unwatched(r) == TRUE

\* The watched key has not been written: players are only ever added, so that
\* a set that was written is another one.
Unchanged(r) == members[job[r].game] = job[r].watched

\* Variant: whoever has an account may log in.
Authorized_Anyone(r) == TRUE

\* For a login, the player is one of the list.
Authorized(r) == job[r].name = Nobody \/ job[r].plr \in job[r].list

\* EXEC of an HGETALL for each ID. The nil reply of an EXEC that was aborted
\* is an error of redis.Values: it ends the request, and is not tried again.
\* So does a player that is not stored.
Exec(r) ==
    /\ job[r].step = "exec"
    /\ Goes(r, IF /\ Unchanged(r)
                  /\ \A p \in job[r].list : Stored(p)
                  /\ Authorized(r)
               THEN [job[r] EXCEPT !.step = "listed"] ELSE Idle)
    /\ UNCHANGED stored

\* The answer is sent, or a command of Redis has failed.
End(r) ==
    /\ job[r].step # "idle"
    /\ Goes(r, Idle)
    /\ UNCHANGED stored
-----------------------------------------------------------------------------
\* A server is started on an empty database, or on one that was set up for
\* another configuration, whose players are in all its games.
Init ==
    LET U == IF ours THEN {} ELSE OtherUsernames IN
    /\ ours \in BOOLEAN
    /\ games = IF ours THEN {} ELSE OtherGames
    /\ lastID \in {0} \cup U /\ U \subseteq 1 .. lastID
    /\ players = {[id |-> u, uname |-> u] : u \in U}
    /\ playerIDs = [u \in Usernames |-> IF u \in U THEN u ELSE Nobody]
    /\ members = [g \in Games |-> IF g \in games THEN U ELSE {}]
    /\ server = "down"
    /\ user = 1 /\ game = 1 /\ plr = Nobody
    /\ job = [r \in Requests |-> Idle]
    /\ crashes = 0 /\ cutOff = FALSE

Start ==
    \/ Boot \/ ListGames \/ AddHardcodedGame
    \/ ListPlayers \/ CreateHardcodedPlayer \/ AddHardcodedPlayer

Task(r) ==
    \/ CreateGame(r) \/ PutGame(r) \/ CreatePlayer(r)
    \/ FindUser(r) \/ FindPlayer(r) \/ AddToGame(r)

Read(r) ==
    \/ LogIn(r) \/ GetByID(r) \/ GetInfo(r)
    \/ Watch(r) \/ GetMembers(r) \/ Exec(r)

Next ==
    \/ Start \/ Crash
    \/ \E r \in Tasks : Task(r)
    \/ \E r \in Readers : Read(r)
    \/ \E r \in Requests : End(r)

Spec == Init /\ [][Next]_vars

\* A server that is down is started again, and goes on with its start.
FairSpec == Spec /\ WF_vars(Start)
-----------------------------------------------------------------------------
TypeOK ==
    /\ games \subseteq Games
    /\ players \subseteq Player
    /\ playerIDs \in [Usernames -> Nat]
    /\ members \in [Games -> SUBSET Nat]
    /\ server \in {"down", "games", "hmset", "players", "create", "sadd",
                   "running"}
    /\ user \in HardcodedUsernames /\ game \in HardcodedGames
    /\ plr \in Nat
    /\ job \in [Requests -> Job]
    /\ lastID \in Nat /\ crashes \in 0 .. MaxCrashes
    /\ cutOff \in BOOLEAN /\ ours \in BOOLEAN

\* What is named is stored, under that name: the usernames of player_ids and
\* the members of the games, through every cut of a start or a task.
Referential ==
    /\ \A u \in Usernames :
          IsNew(u) \/ [id |-> playerIDs[u], uname |-> u] \in players
    /\ \A g \in Games : \A p \in members[g] : Stored(p)

\* A list of players is the one that is stored at the moment of the EXEC, and
\* never half of a change that came between SMEMBERS and EXEC.
ListIsCurrent ==
    [][\A r \in Requests :
          job[r].step # "listed" /\ job'[r].step = "listed"
             => job'[r].list = members[job'[r].game]]_vars

\* "Ensure player is in the game": whoever is logged in has the username he
\* gave and is in the game, however tasks interleave with the reading.
LoggedInBelongs ==
    \A r \in Requests :
        job[r].step = "listed" /\ job[r].name # Nobody
            => /\ [id |-> job[r].plr, uname |-> job[r].name] \in players
               /\ job[r].plr \in members[job[r].game]

\* Everybody of the configuration is in all its games.
AllThere ==
    \A u \in HardcodedUsernames, g \in HardcodedGames :
        \E p \in members[g] : [id |-> p, uname |-> u] \in players

\* "CheckGamesAndPlayers adds the game names from the config to Redis if
\* missing": it does so when there are fewer games than names.  A server that
\* runs has as many games and players as its configuration; on a database that
\* was empty at first the games are those of the configuration, however often
\* the start was cut off, and so are the players, each in each game, unless it
\* was cut off while it created them.
StartComplete ==
    server = "running" =>
        /\ Cardinality(games) >= GameCount
        /\ Cardinality(players) >= UsernameCount
        /\ ours => HardcodedGames \subseteq games /\ (AllThere \/ cutOff)
\* A server comes up in the end. A start that finds some of its usernames there
\* panics, but it leaves one more player behind each time, until it finds
\* enough of them and creates none.
ServerStarts == <>[](server = "running")
=============================================================================
