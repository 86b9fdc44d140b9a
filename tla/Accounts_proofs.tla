--------------------------- MODULE Accounts_proofs ---------------------------
(***************************************************************************)
(* Games, players and logins, for any configuration, any number of         *)
(* concurrent requests and a server that may be cut off anywhere.          *)
(***************************************************************************)
EXTENDS Accounts, FiniteSetTheorems, TLAPS

\* The constants as the proofs use them.
LEMMA ConstantsType ==
  /\ UsernameCount \in Nat \ {0} /\ GameCount \in Nat \ {0}
  /\ HardcodedUsernames \subseteq Usernames /\ Usernames \subseteq Nat
  /\ HardcodedGames \subseteq Games
  /\ 1 \in HardcodedUsernames /\ 1 \in HardcodedGames /\ 1 \in Games
  /\ MaxCrashes \in Nat
  /\ OtherUsernames \subseteq Usernames \ {0} /\ OtherGames \subseteq Games
BY AccountsAssumption DEF HardcodedUsernames, HardcodedGames

LEMMA IdleType == Idle \in Job
BY ConstantsType DEF Idle, Job, Steps, Nobody

LEMMA InitType == Init => TypeOK
<1> SUFFICES ASSUME Init PROVE TypeOK
  OBVIOUS
<1> DEFINE U == IF ours THEN {} ELSE OtherUsernames
<1>1. games \subseteq Games /\ lastID \in Nat /\ ours \in BOOLEAN
  BY ConstantsType DEF Init
<1>2. \A u \in U : u \in Usernames /\ u \in Nat \ {0}
  BY ConstantsType
<1>3. players \subseteq Player
  <2>1. players = {[id |-> u, uname |-> u] : u \in U}
    BY DEF Init
  <2> QED
    BY <1>2, <2>1 DEF Player, Nobody
<1>4. playerIDs \in [Usernames -> Nat]
  <2>1. playerIDs = [u \in Usernames |-> IF u \in U THEN u ELSE Nobody]
    BY DEF Init
  <2> QED
    BY <1>2, <2>1, ConstantsType DEF Nobody
<1>5. members \in [Games -> SUBSET Nat]
  <2>1. members = [g \in Games |-> IF g \in games THEN U ELSE {}]
    BY DEF Init
  <2> QED
    BY <1>2, <2>1
<1>6. /\ server \in {"down", "games", "hmset", "players", "create", "sadd",
                     "running"}
      /\ user \in HardcodedUsernames /\ game \in HardcodedGames
      /\ plr \in Nat /\ crashes \in 0 .. MaxCrashes /\ cutOff \in BOOLEAN
  <2>1. server = "down" /\ user = 1 /\ game = 1 /\ plr = 0 /\ crashes = 0
    BY DEF Init, Nobody
  <2>2. cutOff \in BOOLEAN
    BY DEF Init
  <2>3. plr \in Nat /\ crashes \in 0 .. MaxCrashes
    BY <2>1, AccountsAssumption
  <2> QED
    BY <2>1, <2>2, <2>3, ConstantsType
<1>7. job \in [Requests -> Job]
  BY IdleType DEF Init
<1> QED
  BY <1>1, <1>3, <1>4, <1>5, <1>6, <1>7 DEF TypeOK

\* A request goes on with a job of the right type.
LEMMA GoesType ==
  ASSUME TypeOK, NEW r \in Requests, NEW j \in Job, Goes(r, j)
  PROVE  /\ job' \in [Requests -> Job]
         /\ UNCHANGED <<server, starting, crashes, cutOff, ours>>
BY DEF Goes, TypeOK

LEMMA CreateType ==
  ASSUME TypeOK, NEW u \in Usernames, Create(u)
  PROVE  /\ lastID' = lastID + 1 /\ lastID' \in Nat \ {0}
         /\ players' \subseteq Player
         /\ playerIDs' \in [Usernames -> Nat]
BY DEF Create, TypeOK, Player, Nobody

LEMMA AddPlayerType ==
  ASSUME TypeOK, NEW g \in Games, NEW p \in Nat, AddPlayer(g, p)
  PROVE  members' \in [Games -> SUBSET Nat]
BY DEF AddPlayer, TypeOK

LEMMA StepType == TypeOK /\ [Next]_vars => TypeOK'
<1> SUFFICES ASSUME TypeOK, [Next]_vars PROVE TypeOK'
  OBVIOUS
<1> USE ConstantsType
<1>1. CASE UNCHANGED vars
  BY <1>1 DEF vars, stored, starting, TypeOK
<1>2. CASE Boot
  BY <1>2 DEF Boot, stored, starting, TypeOK
<1>3. CASE ListGames
  BY <1>3 DEF ListGames, stored, TypeOK
<1>4. CASE AddHardcodedGame
  <2>1. ~ LastGame => game + 1 \in HardcodedGames
    BY DEF TypeOK, LastGame, HardcodedGames
  <2>2. game' \in HardcodedGames
    BY <1>4, <2>1 DEF AddHardcodedGame
  <2> QED
    BY <1>4, <2>2 DEF AddHardcodedGame, TypeOK
<1>5. CASE ListPlayers
  BY <1>5 DEF ListPlayers, stored, TypeOK
<1>6. CASE CreateHardcodedPlayer
  <2>1. Create(user) /\ user \in Usernames
    BY <1>6 DEF CreateHardcodedPlayer, TypeOK
  <2>2. server' \in {"down", "sadd"} /\ cutOff' \in BOOLEAN
    BY <1>6 DEF CreateHardcodedPlayer, TypeOK
  <2> QED
    BY <1>6, <2>1, <2>2, CreateType DEF CreateHardcodedPlayer, TypeOK
<1>7. CASE AddHardcodedPlayer
  <2>1. AddPlayer(game, plr) /\ game \in Games /\ plr \in Nat
    BY <1>7 DEF AddHardcodedPlayer, TypeOK
  <2>2. ~ LastGame => game + 1 \in HardcodedGames
    BY DEF TypeOK, LastGame, HardcodedGames
  <2>3. user # UsernameCount => user + 1 \in HardcodedUsernames
    BY DEF TypeOK, HardcodedUsernames
  <2>4. /\ game' \in HardcodedGames /\ user' \in HardcodedUsernames
        /\ server' \in {"sadd", "create", "running"}
    BY <1>7, <2>2, <2>3 DEF AddHardcodedPlayer, TypeOK
  <2> QED
    BY <1>7, <2>1, <2>4, AddPlayerType DEF AddHardcodedPlayer, TypeOK
<1>8. CASE Crash
  <2>1. cutOff' \in BOOLEAN /\ crashes' \in 0 .. MaxCrashes
    BY <1>8 DEF Crash, TypeOK
  <2> QED
    BY <1>8, <2>1, IdleType DEF Crash, stored, starting, TypeOK
<1>9. ASSUME NEW r \in Tasks, Task(r) PROVE TypeOK'
  <2> r \in Requests /\ job[r] \in Job
    BY DEF Requests, TypeOK
  <2>1. CASE CreateGame(r)
    <3>1. PICK g \in Games : Goes(r, [Idle EXCEPT !.step = "put", !.game = g])
      BY <2>1 DEF CreateGame
    <3>2. [Idle EXCEPT !.step = "put", !.game = g] \in Job
      BY IdleType DEF Job, Steps
    <3> QED
      BY <2>1, <3>1, <3>2, GoesType DEF CreateGame, stored, starting, TypeOK
  <2>2. CASE PutGame(r)
    <3>1. job[r].game \in Games
      BY DEF Job
    <3> QED
      BY <2>2, <3>1, IdleType, GoesType DEF PutGame, starting, TypeOK
  <2>3. CASE CreatePlayer(r)
    <3>1. PICK u \in Usernames : Create(u)
      BY <2>3 DEF CreatePlayer
    <3> QED
      BY <2>3, <3>1, CreateType, IdleType, GoesType
      DEF CreatePlayer, starting, TypeOK
  <2>4. CASE FindUser(r)
    <3>1. PICK u \in Usernames, g \in Games :
             Goes(r, [Idle EXCEPT !.step = "found", !.game = g, !.name = u,
                                  !.plr = playerIDs[u]])
      BY <2>4 DEF FindUser
    <3>2. [Idle EXCEPT !.step = "found", !.game = g, !.name = u,
                       !.plr = playerIDs[u]] \in Job
      BY IdleType DEF Job, Steps, TypeOK
    <3> QED
      BY <2>4, <3>1, <3>2, GoesType DEF FindUser, stored, starting, TypeOK
  <2>5. CASE FindPlayer(r)
    <3>1. [job[r] EXCEPT !.step = "add"] \in Job
      BY DEF Job, Steps
    <3> QED
      BY <2>5, <3>1, IdleType, GoesType DEF FindPlayer, stored, starting, TypeOK
  <2>6. CASE AddToGame(r)
    <3>1. job[r].game \in Games /\ job[r].plr \in Nat
      BY DEF Job
    <3> QED
      BY <2>6, <3>1, IdleType, GoesType, AddPlayerType
      DEF AddToGame, starting, TypeOK
  <2> QED
    BY <1>9, <2>1, <2>2, <2>3, <2>4, <2>5, <2>6 DEF Task
<1>10. ASSUME NEW r \in Readers, Read(r) PROVE TypeOK'
  <2> r \in Requests /\ job[r] \in Job
    BY DEF Requests, TypeOK
  <2>1. UNCHANGED stored
    BY <1>10
    DEF Read, LogIn, GetByID, GetInfo, Watch, GetMembers, Exec
  <2>2. PICK j \in Job : Goes(r, j)
    <3>1. CASE LogIn(r)
      <4>1. PICK u \in Usernames, g \in Games :
               Goes(r, [Idle EXCEPT !.step = "player", !.game = g, !.name = u,
                                    !.plr = playerIDs[u]])
        BY <3>1 DEF LogIn
      <4>2. [Idle EXCEPT !.step = "player", !.game = g, !.name = u,
                         !.plr = playerIDs[u]] \in Job
        BY IdleType DEF Job, Steps, TypeOK
      <4> QED
        BY <4>1, <4>2
    <3>2. CASE GetByID(r)
      <4>1. [job[r] EXCEPT !.step = "watch"] \in Job
        BY DEF Job, Steps
      <4> QED
        BY <3>2, <4>1, IdleType DEF GetByID
    <3>3. CASE GetInfo(r)
      <4>1. PICK g \in Games :
               Goes(r, [Idle EXCEPT !.step = "watch", !.game = g])
        BY <3>3 DEF GetInfo
      <4>2. [Idle EXCEPT !.step = "watch", !.game = g] \in Job
        BY IdleType DEF Job, Steps
      <4> QED
        BY <4>1, <4>2
    <3>4. CASE Watch(r)
      <4>1. [job[r] EXCEPT !.step = "members",
                           !.watched = members[job[r].game]] \in Job
        BY DEF Job, Steps, TypeOK
      <4> QED
        BY <3>4, <4>1 DEF Watch
    <3>5. CASE GetMembers(r)
      <4>1. [job[r] EXCEPT !.step = "exec",
                           !.list = members[job[r].game]] \in Job
        BY DEF Job, Steps, TypeOK
      <4> QED
        BY <3>5, <4>1, IdleType DEF GetMembers
    <3>6. CASE Exec(r)
      <4>1. [job[r] EXCEPT !.step = "listed"] \in Job
        BY DEF Job, Steps
      <4> QED
        BY <3>6, <4>1, IdleType DEF Exec
    <3> QED
      BY <1>10, <3>1, <3>2, <3>3, <3>4, <3>5, <3>6 DEF Read
  <2> QED
    BY <2>1, <2>2, GoesType DEF stored, starting, TypeOK
<1>11. ASSUME NEW r \in Requests, End(r) PROVE TypeOK'
  BY <1>11, IdleType, GoesType DEF End, stored, starting, TypeOK
<1> QED
  BY <1>1, <1>2, <1>3, <1>4, <1>5, <1>6, <1>7, <1>8, <1>9, <1>10, <1>11
  DEF Next, Start

\* The type invariant holds for every configuration and any requests, whatever
\* is cut off (setup/defaultData.go, game/game.go).
THEOREM AccountsTypeCorrect == Spec => []TypeOK
BY InitType, StepType, PTL DEF Spec
-----------------------------------------------------------------------------
(* What a step does to what is stored, and to one request. *)

\* Games, players and members are only ever added.
LEMMA OnlyAdded ==
  ASSUME TypeOK, [Next]_vars
  PROVE  /\ games \subseteq games' /\ players \subseteq players'
         /\ \A g \in Games : members[g] \subseteq members'[g]
<1>1. CASE UNCHANGED stored
  BY <1>1 DEF stored
<1>2. ASSUME NEW u \in Usernames, Create(u), UNCHANGED <<games, members>>
      PROVE  players \subseteq players'
  BY <1>2 DEF Create
<1>3. ASSUME NEW g \in Games, NEW p \in Nat, AddPlayer(g, p)
      PROVE  \A h \in Games : members[h] \subseteq members'[h]
  BY <1>3 DEF AddPlayer, TypeOK
<1>4. CASE Start
  <2>1. CASE Boot \/ ListGames \/ ListPlayers
    BY <1>1, <2>1 DEF Boot, ListGames, ListPlayers
  <2>2. CASE AddHardcodedGame
    BY <2>2 DEF AddHardcodedGame
  <2>3. CASE CreateHardcodedPlayer
    BY <2>3 DEF CreateHardcodedPlayer, Create
  <2>4. CASE AddHardcodedPlayer
    BY <1>3, <2>4, ConstantsType DEF AddHardcodedPlayer, TypeOK
  <2> QED
    BY <1>4, <2>1, <2>2, <2>3, <2>4 DEF Start
<1>5. ASSUME NEW r \in Tasks, Task(r)
      PROVE  /\ games \subseteq games' /\ players \subseteq players'
             /\ \A g \in Games : members[g] \subseteq members'[g]
  <2>1. CASE PutGame(r)
    BY <2>1 DEF PutGame
  <2>2. CASE CreatePlayer(r)
    BY <2>2 DEF CreatePlayer, Create
  <2>3. CASE AddToGame(r)
    <3>1. job[r].game \in Games /\ job[r].plr \in Nat
      BY DEF TypeOK, Requests, Job
    <3> QED
      BY <1>3, <2>3, <3>1 DEF AddToGame
  <2>4. CASE CreateGame(r) \/ FindUser(r) \/ FindPlayer(r)
    BY <1>1, <2>4 DEF CreateGame, FindUser, FindPlayer
  <2> QED
    BY <1>5, <2>1, <2>2, <2>3, <2>4 DEF Task
<1>6. ASSUME NEW r \in Readers, Read(r) PROVE UNCHANGED stored
  BY <1>6 DEF Read, LogIn, GetByID, GetInfo, Watch, GetMembers, Exec
<1>7. CASE Crash \/ UNCHANGED vars
  BY <1>1, <1>7 DEF Crash, vars
<1>8. ASSUME NEW r \in Requests, End(r) PROVE UNCHANGED stored
  BY <1>8 DEF End
<1> QED
  BY <1>1, <1>4, <1>5, <1>6, <1>7, <1>8 DEF Next

\* Request r looked up username u, in step s.
Looked(r, s, u) ==
    /\ playerIDs[u] # Nobody
    /\ job'[r].step = s /\ job'[r].name = u /\ job'[r].plr = playerIDs[u]

\* Request r goes from step s to step t with what it had.
Moved(r, s, t) ==
    /\ job[r].step = s /\ job'[r].step = t
    /\ job'[r].name = job[r].name /\ job'[r].plr = job[r].plr
    /\ job'[r].game = job[r].game

\* What one step may do to a request, other than to leave or to end it.
Advanced(r) ==
    \/ job'[r].step \in {"put", "watch"} /\ job'[r].name = Nobody
    \/ \E u \in Usernames : Looked(r, "found", u) \/ Looked(r, "player", u)
    \/ Stored(job[r].plr) /\ Moved(r, "found", "add")
    \/ Moved(r, "player", "watch")
    \/ Moved(r, "watch", "members") /\ job'[r].watched = members[job[r].game]
    \/ /\ Moved(r, "members", "exec") /\ job'[r].watched = job[r].watched
       /\ job'[r].list = members[job[r].game]
    \/ /\ Moved(r, "exec", "listed") /\ job'[r].list = job[r].list
       /\ Unchanged(r) /\ Authorized(r)

\* A step ends a request, or leaves it as it is, or advances it and leaves
\* everything that is stored as it is.
LEMMA JobStep ==
  ASSUME TypeOK, [Next]_vars, NEW r \in Requests
  PROVE  \/ job'[r] = job[r] \/ job'[r] = Idle
         \/ UNCHANGED stored /\ Advanced(r)
<1> DEFINE P == \/ job'[r] = job[r] \/ job'[r] = Idle
                \/ UNCHANGED stored /\ Advanced(r)
<1>0. job \in [Requests -> Job]
  BY DEF TypeOK
<1>1. ASSUME NEW q \in Requests, NEW j, Goes(q, j), q # r
      PROVE  job'[r] = job[r]
  BY <1>0, <1>1 DEF Goes
<1>2. ASSUME NEW j, Goes(r, j) PROVE job'[r] = j
  BY <1>0, <1>2 DEF Goes
<1>3. CASE Start \/ UNCHANGED vars
  BY <1>3 DEF Start, Boot, ListGames, AddHardcodedGame, ListPlayers,
              CreateHardcodedPlayer, AddHardcodedPlayer, vars
<1>4. CASE Crash
  BY <1>4 DEF Crash
<1>5. ASSUME NEW q \in Requests, q # r,
             Task(q) \/ Read(q) \/ End(q)
      PROVE  job'[r] = job[r]
  <2>1. \E j : Goes(q, j)
    BY <1>5
    DEF Task, CreateGame, PutGame, CreatePlayer, FindUser, FindPlayer,
        AddToGame, Read, LogIn, GetByID, GetInfo, Watch, GetMembers, Exec, End
  <2> QED
    BY <1>1, <1>5, <2>1
<1>6. CASE Task(r)
  <2>1. CASE PutGame(r) \/ CreatePlayer(r) \/ AddToGame(r)
    BY <1>2, <2>1 DEF PutGame, CreatePlayer, AddToGame
  <2>2. CASE CreateGame(r)
    <3>1. PICK g \in Games : Goes(r, [Idle EXCEPT !.step = "put", !.game = g])
      BY <2>2 DEF CreateGame
    <3>2. job'[r] = [Idle EXCEPT !.step = "put", !.game = g]
      BY <1>2, <3>1
    <3>3. job'[r].step = "put" /\ job'[r].name = Nobody
      BY <3>2 DEF Idle
    <3> QED
      BY <2>2, <3>3 DEF CreateGame, Advanced
  <2>3. CASE FindUser(r)
    <3>1. PICK u \in Usernames, g \in Games :
             /\ playerIDs[u] # Nobody
             /\ Goes(r, [Idle EXCEPT !.step = "found", !.game = g, !.name = u,
                                     !.plr = playerIDs[u]])
      BY <2>3 DEF FindUser
    <3>2. job'[r] = [Idle EXCEPT !.step = "found", !.game = g, !.name = u,
                                 !.plr = playerIDs[u]]
      BY <1>2, <3>1
    <3>3. Looked(r, "found", u)
      BY <3>1, <3>2 DEF Idle, Looked
    <3> QED
      BY <2>3, <3>3 DEF FindUser, Advanced
  <2>4. CASE FindPlayer(r)
    <3>1. CASE ~ Stored(job[r].plr)
      BY <1>2, <2>4, <3>1 DEF FindPlayer
    <3>2. CASE Stored(job[r].plr)
      <4>1. job'[r] = [job[r] EXCEPT !.step = "add"] /\ job[r] \in Job
        BY <1>0, <1>2, <2>4, <3>2 DEF FindPlayer
      <4>2. Moved(r, "found", "add")
        BY <2>4, <4>1 DEF FindPlayer, Moved, Job
      <4> QED
        BY <2>4, <3>2, <4>2 DEF FindPlayer, Advanced
    <3> QED
      BY <3>1, <3>2
  <2> QED
    BY <1>6, <2>1, <2>2, <2>3, <2>4 DEF Task
<1>7. CASE Read(r)
  <2>1. CASE LogIn(r)
    <3>1. PICK u \in Usernames, g \in Games :
             /\ playerIDs[u] # Nobody
             /\ Goes(r, [Idle EXCEPT !.step = "player", !.game = g, !.name = u,
                                     !.plr = playerIDs[u]])
      BY <2>1 DEF LogIn
    <3>2. job'[r] = [Idle EXCEPT !.step = "player", !.game = g, !.name = u,
                                 !.plr = playerIDs[u]]
      BY <1>2, <3>1
    <3>3. Looked(r, "player", u)
      BY <3>1, <3>2 DEF Idle, Looked
    <3> QED
      BY <2>1, <3>3 DEF LogIn, Advanced
  <2>2. CASE GetByID(r)
    <3>1. CASE ~ Stored(job[r].plr)
      BY <1>2, <2>2, <3>1 DEF GetByID
    <3>2. CASE Stored(job[r].plr)
      <4>1. job'[r] = [job[r] EXCEPT !.step = "watch"] /\ job[r] \in Job
        BY <1>0, <1>2, <2>2, <3>2 DEF GetByID
      <4>2. Moved(r, "player", "watch")
        BY <2>2, <4>1 DEF GetByID, Moved, Job
      <4> QED
        BY <2>2, <4>2 DEF GetByID, Advanced
    <3> QED
      BY <3>1, <3>2
  <2>3. CASE GetInfo(r)
    <3>1. PICK g \in Games : Goes(r, [Idle EXCEPT !.step = "watch", !.game = g])
      BY <2>3 DEF GetInfo
    <3>2. job'[r] = [Idle EXCEPT !.step = "watch", !.game = g]
      BY <1>2, <3>1
    <3>3. job'[r].step = "watch" /\ job'[r].name = Nobody
      BY <3>2 DEF Idle
    <3> QED
      BY <2>3, <3>3 DEF GetInfo, Advanced
  <2>4. CASE Watch(r)
    <3>1. /\ job'[r] = [job[r] EXCEPT !.step = "members",
                                      !.watched = members[job[r].game]]
          /\ job[r] \in Job
      BY <1>0, <1>2, <2>4 DEF Watch
    <3>2. /\ Moved(r, "watch", "members")
          /\ job'[r].watched = members[job[r].game]
      BY <2>4, <3>1 DEF Watch, Moved, Job
    <3> QED
      BY <2>4, <3>2 DEF Watch, Advanced
  <2>5. CASE GetMembers(r)
    <3>1. CASE members[job[r].game] = {}
      BY <1>2, <2>5, <3>1 DEF GetMembers
    <3>2. CASE members[job[r].game] # {}
      <4>1. /\ job'[r] = [job[r] EXCEPT !.step = "exec",
                                        !.list = members[job[r].game]]
            /\ job[r] \in Job
        BY <1>0, <1>2, <2>5, <3>2 DEF GetMembers
      <4>2. /\ Moved(r, "members", "exec")
            /\ job'[r].watched = job[r].watched
            /\ job'[r].list = members[job[r].game]
        BY <2>5, <4>1 DEF GetMembers, Moved, Job
      <4> QED
        BY <2>5, <4>2 DEF GetMembers, Advanced
    <3> QED
      BY <3>1, <3>2
  <2>6. CASE Exec(r)
    <3>1. PICK j : Goes(r, j) /\ (j = Idle \/ j = [job[r] EXCEPT !.step = "listed"])
      BY <2>6 DEF Exec
    <3>2. CASE j = Idle
      BY <1>2, <3>1, <3>2
    <3>3. CASE job'[r] = [job[r] EXCEPT !.step = "listed"] /\ job'[r] # Idle
      <4>1. Moved(r, "exec", "listed") /\ job'[r].list = job[r].list
        BY <1>0, <2>6, <3>3 DEF Exec, Moved, Job
      <4>2. Unchanged(r) /\ Authorized(r)
        BY <1>2, <2>6, <3>3 DEF Exec
      <4> QED
        BY <2>6, <4>1, <4>2 DEF Exec, Advanced
    <3> QED
      BY <1>2, <3>1, <3>2, <3>3
  <2> QED
    BY <1>7, <2>1, <2>2, <2>3, <2>4, <2>5, <2>6 DEF Read
<1>8. CASE End(r)
  BY <1>2, <1>8 DEF End
<1> QED
  BY <1>3, <1>4, <1>5, <1>6, <1>7, <1>8 DEF Next, Requests
-----------------------------------------------------------------------------
(* References. *)

\* Whoever is about to be added to a game is stored.
AddsStored ==
    /\ server = "sadd" => Stored(plr)
    /\ \A r \in Requests : job[r].step = "add" => Stored(job[r].plr)

\* A stored player stays, and so do the name and the ID it is stored under.
LEMMA StoredStays ==
  ASSUME TypeOK, [Next]_vars, NEW p, Stored(p)
  PROVE  Stored(p)'
BY OnlyAdded DEF Stored

LEMMA AddsStoredStep ==
  ASSUME TypeOK, AddsStored, [Next]_vars
  PROVE  AddsStored'
<1>1. server' = "sadd" => Stored(plr)'
  <2>1. CASE UNCHANGED <<server, plr>>
    BY <2>1, StoredStays DEF AddsStored, Stored
  <2>2. CASE CreateHardcodedPlayer
    <3> DEFINE new == [id |-> lastID + 1, uname |-> user]
    <3>1. new \in players' /\ new.id = plr'
      BY <2>2 DEF CreateHardcodedPlayer, Create
    <3> QED
      BY <3>1 DEF Stored
  <2>3. CASE AddHardcodedPlayer
    BY <2>3, StoredStays DEF AddHardcodedPlayer, AddsStored, Stored
  <2>4. CASE Boot \/ ListGames \/ AddHardcodedGame \/ ListPlayers \/ Crash
    BY <2>4 DEF Boot, ListGames, AddHardcodedGame, ListPlayers, Crash
  <2>5. ASSUME NEW r \in Requests, Task(r) \/ Read(r) \/ End(r)
        PROVE  server' = server /\ plr' = plr
    BY <2>5
    DEF Task, CreateGame, PutGame, CreatePlayer, FindUser, FindPlayer,
        AddToGame, Read, LogIn, GetByID, GetInfo, Watch, GetMembers, Exec, End,
        Goes, starting
  <2>6. CASE UNCHANGED vars
    BY <2>1, <2>6 DEF vars, starting
  <2>7. CASE \E r \in Requests : Task(r) \/ Read(r) \/ End(r)
    BY <2>1, <2>5, <2>7
  <2>8. \/ Start \/ Crash \/ UNCHANGED vars
        \/ \E r \in Requests : Task(r) \/ Read(r) \/ End(r)
    BY DEF Next, Requests
  <2> QED
    BY <2>2, <2>3, <2>4, <2>6, <2>7, <2>8 DEF Start
<1>2. ASSUME NEW r \in Requests, job'[r].step = "add"
      PROVE  Stored(job[r].plr)'
  <2>1. CASE job'[r] = job[r]
    BY <1>2, <2>1, StoredStays DEF AddsStored, Stored
  <2>2. CASE job'[r] = Idle
    BY <1>2, <2>2 DEF Idle
  <2>3. CASE UNCHANGED stored /\ Advanced(r)
    BY <1>2, <2>3, StoredStays DEF Advanced, Looked, Moved, Stored, stored
  <2> QED
    BY <2>1, <2>2, <2>3, JobStep
<1> QED
  BY <1>1, <1>2 DEF AddsStored

\* A new username and its player are stored together; others stay.
LEMMA NamesStep ==
  ASSUME TypeOK, Referential, [Next]_vars, NEW u \in Usernames,
         playerIDs'[u] # Nobody
  PROVE  [id |-> playerIDs'[u], uname |-> u] \in players'
<1>1. CASE UNCHANGED playerIDs
  BY <1>1, OnlyAdded DEF Referential, IsNew
<1>2. ASSUME NEW v \in Usernames, Create(v)
      PROVE  [id |-> playerIDs'[u], uname |-> u] \in players'
  <2>1. CASE u = v
    BY <1>2, <2>1 DEF Create, TypeOK
  <2>2. CASE u # v
    BY <1>2, <2>2 DEF Create, TypeOK, Referential, IsNew
  <2> QED
    BY <2>1, <2>2
<1>3. CASE CreateHardcodedPlayer
  BY <1>2, <1>3, ConstantsType DEF CreateHardcodedPlayer, TypeOK
<1>4. ASSUME NEW r \in Tasks, Task(r)
      PROVE  UNCHANGED playerIDs \/ \E v \in Usernames : Create(v)
  BY <1>4
  DEF Task, CreateGame, PutGame, CreatePlayer, FindUser, FindPlayer,
      AddToGame, stored
<1>5. ASSUME NEW r \in Requests, Read(r) \/ End(r)
      PROVE  UNCHANGED playerIDs
  BY <1>5
  DEF Read, LogIn, GetByID, GetInfo, Watch, GetMembers, Exec, End, stored
<1>6. CASE \/ Boot \/ ListGames \/ AddHardcodedGame \/ ListPlayers
           \/ AddHardcodedPlayer \/ Crash \/ UNCHANGED vars
  BY <1>1, <1>6
  DEF Boot, ListGames, AddHardcodedGame, ListPlayers, AddHardcodedPlayer,
      Crash, vars, stored
<1> QED
  BY <1>1, <1>2, <1>3, <1>4, <1>5, <1>6 DEF Next, Start, Requests

\* Only players that are stored become members.
LEMMA MembersStep ==
  ASSUME TypeOK, Referential, AddsStored, [Next]_vars,
         NEW g \in Games, NEW p \in members'[g]
  PROVE  Stored(p)'
<1>1. CASE UNCHANGED members
  BY <1>1, StoredStays DEF Referential
<1>2. ASSUME NEW h \in Games, NEW q, Stored(q), AddPlayer(h, q)
      PROVE  Stored(p)
  BY <1>2 DEF AddPlayer, TypeOK, Referential
<1>3. CASE AddHardcodedPlayer
  <2>1. game \in Games /\ Stored(plr) /\ AddPlayer(game, plr)
    BY <1>3, ConstantsType DEF AddHardcodedPlayer, AddsStored, TypeOK
  <2> QED
    BY <1>2, <2>1, StoredStays
<1>4. ASSUME NEW r \in Tasks, AddToGame(r) PROVE Stored(p)'
  <2>1. /\ job[r].game \in Games /\ Stored(job[r].plr)
        /\ AddPlayer(job[r].game, job[r].plr)
    BY <1>4 DEF AddToGame, AddsStored, TypeOK, Requests, Job
  <2> QED
    BY <1>2, <2>1, StoredStays
<1>5. ASSUME NEW r \in Tasks, Task(r), ~ AddToGame(r) PROVE UNCHANGED members
  BY <1>5
  DEF Task, CreateGame, PutGame, CreatePlayer, FindUser, FindPlayer, stored
<1>6. ASSUME NEW r \in Requests, Read(r) \/ End(r) PROVE UNCHANGED members
  BY <1>6
  DEF Read, LogIn, GetByID, GetInfo, Watch, GetMembers, Exec, End, stored
<1>7. CASE \/ Boot \/ ListGames \/ AddHardcodedGame \/ ListPlayers
           \/ CreateHardcodedPlayer \/ Crash \/ UNCHANGED vars
  BY <1>1, <1>7
  DEF Boot, ListGames, AddHardcodedGame, ListPlayers, CreateHardcodedPlayer,
      Crash, vars, stored
<1> QED
  BY <1>1, <1>3, <1>4, <1>5, <1>6, <1>7 DEF Next, Start, Requests

LEMMA InitReferential == Init => Referential /\ AddsStored
<1> SUFFICES ASSUME Init PROVE Referential /\ AddsStored
  OBVIOUS
<1> DEFINE U == IF ours THEN {} ELSE OtherUsernames
<1>1. \A p \in U : [id |-> p, uname |-> p] \in players /\ Stored(p)
  BY DEF Init, Stored
<1>2. \A u \in Usernames :
         IsNew(u) \/ [id |-> playerIDs[u], uname |-> u] \in players
  <2>1. \A u \in Usernames : playerIDs[u] = IF u \in U THEN u ELSE Nobody
    BY DEF Init
  <2> QED
    BY <1>1, <2>1 DEF IsNew
<1>3. \A g \in Games : \A p \in members[g] : Stored(p)
  <2>1. \A g \in Games : members[g] \subseteq U
    BY DEF Init
  <2> QED
    BY <1>1, <2>1
<1>4. AddsStored
  BY DEF Init, AddsStored, Idle
<1> QED
  BY <1>2, <1>3, <1>4 DEF Referential

\* Every username and every member of a game names a stored player, for any
\* number of requests, through every crash (player/player.go:287,
\* game/playerManager.go:14).
THEOREM NamesAreStored == Spec => []Referential
<1>1. TypeOK /\ Referential /\ AddsStored /\ [Next]_vars
         => (TypeOK /\ Referential /\ AddsStored)'
  <2> SUFFICES ASSUME TypeOK, Referential, AddsStored, [Next]_vars
               PROVE  TypeOK' /\ Referential' /\ AddsStored'
    OBVIOUS
  <2>1. Referential'
    BY NamesStep, MembersStep DEF Referential, IsNew
  <2> QED
    BY <2>1, StepType, AddsStoredStep
<1> QED
  BY InitType, InitReferential, <1>1, PTL DEF Spec
-----------------------------------------------------------------------------
(* Lists and logins. *)

\* What a request that reads has read so far is still there.
ReadsHold ==
    \A r \in Requests :
        LET j == job[r] IN
        /\ j.name # Nobody => [id |-> j.plr, uname |-> j.name] \in players
        /\ j.step \in {"members", "exec"} => j.watched \subseteq members[j.game]
        /\ j.step = "exec" =>
              j.watched \subseteq j.list /\ j.list \subseteq members[j.game]
        /\ j.step = "listed" =>
              /\ j.list \subseteq members[j.game]
              /\ j.name # Nobody => j.plr \in j.list

LEMMA ReadsHoldStep ==
  ASSUME TypeOK, Referential, ReadsHold, [Next]_vars
  PROVE  ReadsHold'
<1> SUFFICES ASSUME NEW r \in Requests
    PROVE  LET j == job'[r] IN
           /\ j.name # Nobody => [id |-> j.plr, uname |-> j.name] \in players'
           /\ j.step \in {"members", "exec"} => j.watched \subseteq members'[j.game]
           /\ j.step = "exec" =>
                 j.watched \subseteq j.list /\ j.list \subseteq members'[j.game]
           /\ j.step = "listed" =>
                 /\ j.list \subseteq members'[j.game]
                 /\ j.name # Nobody => j.plr \in j.list
  BY DEF ReadsHold
<1>1. job[r].game \in Games
  BY DEF TypeOK, Job
<1>2. CASE job'[r] = job[r]
  BY <1>1, <1>2, OnlyAdded DEF ReadsHold
<1>3. CASE job'[r] = Idle
  BY <1>3 DEF Idle
<1>4. CASE UNCHANGED stored /\ Advanced(r)
  <2>1. UNCHANGED <<players, members>>
    BY <1>4 DEF stored
  <2>2. CASE job'[r].step \in {"put", "watch"} /\ job'[r].name = Nobody
    BY <2>2
  <2>3. CASE \E u \in Usernames : Looked(r, "found", u) \/ Looked(r, "player", u)
    BY <2>1, <2>3 DEF Looked, Referential, IsNew
  <2>4. CASE Moved(r, "found", "add") \/ Moved(r, "player", "watch")
    BY <2>1, <2>4 DEF Moved, ReadsHold
  <2>5. CASE Moved(r, "watch", "members") /\ job'[r].watched = members[job[r].game]
    BY <2>1, <2>5 DEF Moved, ReadsHold
  <2>6. CASE /\ Moved(r, "members", "exec") /\ job'[r].watched = job[r].watched
             /\ job'[r].list = members[job[r].game]
    BY <2>1, <2>6 DEF Moved, ReadsHold
  <2>7. CASE /\ Moved(r, "exec", "listed") /\ job'[r].list = job[r].list
             /\ Unchanged(r) /\ Authorized(r)
    BY <2>1, <2>7 DEF Moved, ReadsHold, Authorized
  <2> QED
    BY <1>4, <2>2, <2>3, <2>4, <2>5, <2>6, <2>7 DEF Advanced
<1> QED
  BY <1>2, <1>3, <1>4, JobStep

LEMMA ReadsAlwaysHold == Spec => [](TypeOK /\ Referential /\ ReadsHold)
<1>1. Init => ReadsHold
  BY DEF Init, ReadsHold, Idle
<1>2. TypeOK /\ Referential /\ ReadsHold /\ [Next]_vars => ReadsHold'
  BY ReadsHoldStep
<1> QED
  BY AccountsTypeCorrect, NamesAreStored, <1>1, <1>2, PTL DEF Spec

\* Whoever is logged in has the username he gave and is in the game, however
\* many tasks and logins interleave (auth/auth.go:34).
THEOREM LoginsBelong == Spec => []LoggedInBelongs
<1>1. TypeOK /\ ReadsHold => LoggedInBelongs
  <2> SUFFICES ASSUME TypeOK, ReadsHold, NEW r \in Requests,
                      job[r].step = "listed", job[r].name # Nobody
               PROVE  /\ [id |-> job[r].plr, uname |-> job[r].name] \in players
                      /\ job[r].plr \in members[job[r].game]
    BY DEF LoggedInBelongs
  <2> QED
    BY DEF ReadsHold
<1> QED
  BY ReadsAlwaysHold, <1>1, PTL

\* A list of players is the one stored at the moment of its EXEC, for any
\* number of requests (game/game.go:50).
THEOREM ListsAreCurrent == Spec => ListIsCurrent
<1> DEFINE Current ==
      \A r \in Requests :
          job[r].step # "listed" /\ job'[r].step = "listed"
             => job'[r].list = members[job'[r].game]
<1>1. TypeOK /\ ReadsHold /\ [Next]_vars => Current \/ UNCHANGED vars
  <2> SUFFICES ASSUME TypeOK, ReadsHold, [Next]_vars, NEW r \in Requests,
                      job[r].step # "listed", job'[r].step = "listed"
               PROVE  job'[r].list = members[job'[r].game]
    OBVIOUS
  <2>1. job'[r] # Idle
    BY DEF Idle
  <2>2. /\ Moved(r, "exec", "listed") /\ job'[r].list = job[r].list
        /\ Unchanged(r)
    BY <2>1, JobStep DEF Advanced, Looked, Moved
  <2> QED
    BY <2>2 DEF Moved, Unchanged, ReadsHold
<1> QED
  BY ReadsAlwaysHold, <1>1, PTL DEF Spec, ListIsCurrent
-----------------------------------------------------------------------------
(* What a server that runs was started with. *)

\* The player of a username is in a game.
There(u, g) == \E p \in members[g] : [id |-> p, uname |-> u] \in players

\* The games before the loop's are there; on a database of its own there are
\* none but those of the configuration before the server runs for the first
\* time.
GamesDone ==
    /\ ours => HardcodedGames \subseteq games \/ games \subseteq HardcodedGames
    /\ server = "hmset" => \A g \in 1 .. game - 1 : g \in games
    /\ server \in {"players", "create", "sadd", "running"}
          => /\ Cardinality(games) >= GameCount
             /\ ours => HardcodedGames \subseteq games

\* Requests are served by a server that runs.
OnlyServed ==
    \A r \in Requests : job[r].step # "idle" => server = "running"

\* No ID is used twice: a player that is created is one more.
IdsUsed == IsFiniteSet(players) /\ \A p \in players : p.id <= lastID

\* Each turn of the loop has made a player.
EnoughPlayers ==
    /\ server = "create" => Cardinality(players) >= user - 1
    /\ server = "sadd" => Cardinality(players) >= user
    /\ server = "running" => Cardinality(players) >= UsernameCount

\* On a database of its own, and unless a start was cut off while it created
\* players: all of them are there, or none and no username is taken, or the
\* start has got to some username and game.
PlayersDone ==
    \/ cutOff \/ ~ ours
    \/ AllThere
    \/ /\ server \in {"down", "games", "hmset", "players"}
       /\ players = {} /\ \A u \in HardcodedUsernames : IsNew(u)
    \/ /\ server = "create"
       /\ user = 1 => players = {}
       /\ \A u \in HardcodedUsernames : u >= user => IsNew(u)
       /\ \A u \in 1 .. user - 1, g \in HardcodedGames : There(u, g)
    \/ /\ server = "sadd"
       /\ \A u \in HardcodedUsernames : u > user => IsNew(u)
       /\ \A u \in 1 .. user - 1, g \in HardcodedGames : There(u, g)
       /\ [id |-> plr, uname |-> user] \in players
       /\ \A g \in 1 .. game - 1 : plr \in members[g]

StartInv == GamesDone /\ OnlyServed /\ IdsUsed /\ EnoughPlayers /\ PlayersDone

\* As many games of the configuration as it has are all of them.
LEMMA EnoughGames ==
  ASSUME games \subseteq HardcodedGames, ~ (Cardinality(games) < GameCount)
  PROVE  HardcodedGames \subseteq games
<1>1. IsFiniteSet(HardcodedGames) /\ Cardinality(HardcodedGames) = GameCount
  BY FS_Interval, ConstantsType DEF HardcodedGames
<1>2. /\ IsFiniteSet(games) /\ Cardinality(games) <= Cardinality(HardcodedGames)
      /\ Cardinality(HardcodedGames) = Cardinality(games) => HardcodedGames = games
  BY <1>1, FS_Subset
<1>3. Cardinality(games) \in Nat
  BY <1>2, FS_CardinalityType
<1> QED
  BY <1>1, <1>2, <1>3, ConstantsType

LEMMA OursStays == [Next]_vars => ours' = ours
BY DEF Next, Start, Boot, ListGames, AddHardcodedGame, ListPlayers,
       CreateHardcodedPlayer, AddHardcodedPlayer, Crash, Task, CreateGame,
       PutGame, CreatePlayer, FindUser, FindPlayer, AddToGame, Read, LogIn,
       GetByID, GetInfo, Watch, GetMembers, Exec, End, Goes, vars

\* Games that hold those of the configuration are as many; games and players
\* do not get fewer.
LEMMA GamesCount ==
  ASSUME NEW G \in SUBSET Games
  PROVE  /\ IsFiniteSet(G) /\ Cardinality(G) \in Nat
         /\ HardcodedGames \subseteq G => Cardinality(G) >= GameCount
<1>1. IsFiniteSet(G) /\ Cardinality(G) \in Nat
  BY AccountsAssumption, FS_Subset, FS_CardinalityType
<1>2. IsFiniteSet(HardcodedGames) /\ Cardinality(HardcodedGames) = GameCount
  BY FS_Interval, ConstantsType DEF HardcodedGames
<1>3. HardcodedGames \subseteq G => Cardinality(HardcodedGames) <= Cardinality(G)
  BY <1>1, FS_Subset
<1> QED
  BY <1>1, <1>2, <1>3, ConstantsType

LEMMA NoFewer ==
  ASSUME NEW S, NEW T, IsFiniteSet(T), S \subseteq T
  PROVE  /\ Cardinality(S) <= Cardinality(T)
         /\ Cardinality(S) \in Nat /\ Cardinality(T) \in Nat
BY FS_Subset, FS_CardinalityType

LEMMA ThereStays ==
  ASSUME TypeOK, [Next]_vars, NEW u, NEW g \in Games, There(u, g)
  PROVE  There(u, g)'
BY OnlyAdded DEF There

LEMMA AllThereStays ==
  ASSUME TypeOK, [Next]_vars, AllThere
  PROVE  AllThere'
<1> SUFFICES ASSUME NEW u \in HardcodedUsernames, NEW g \in HardcodedGames
             PROVE  There(u, g)'
  BY DEF AllThere, There
<1> QED
  BY ThereStays, ConstantsType DEF AllThere, There

LEMMA InitStart == Init => StartInv
<1> SUFFICES ASSUME Init PROVE StartInv
  OBVIOUS
<1> DEFINE U == IF ours THEN {} ELSE OtherUsernames
           Of == [u \in U |-> [id |-> u, uname |-> u]]
<1>1. server = "down" /\ (ours => games = {})
  BY DEF Init
<1>2. GamesDone
  BY <1>1 DEF GamesDone
<1>3. OnlyServed
  BY DEF Init, OnlyServed, Idle
<1>4. lastID \in Nat /\ U \subseteq 1 .. lastID
  BY ConstantsType DEF Init
<1>5. IsFiniteSet(1 .. lastID)
  BY <1>4, FS_Interval
<1>6. IsFiniteSet(U)
  BY <1>4, <1>5, FS_Subset
<1>7. players = {[id |-> u, uname |-> u] : u \in U}
  BY DEF Init
<1>8. Of \in Surjection(U, players)
  BY <1>7 DEF Surjection
<1>9. IsFiniteSet(players)
  BY <1>6, <1>8, FS_Surjection
<1>10. IdsUsed
  BY <1>4, <1>7, <1>9 DEF IdsUsed
<1>11. EnoughPlayers
  BY <1>1 DEF EnoughPlayers
<1>12. PlayersDone
  <2>1. ours => players = {}
    BY <1>7
  <2>2. ours => \A u \in HardcodedUsernames : IsNew(u)
    BY ConstantsType DEF Init, IsNew
  <2> QED
    BY <1>1, <2>1, <2>2 DEF PlayersDone
<1> QED
  BY <1>2, <1>3, <1>10, <1>11, <1>12 DEF StartInv

\* A step of a request is made by a server that runs, which stays so.
LEMMA RequestStep ==
  ASSUME TypeOK, OnlyServed, NEW r \in Requests,
         Task(r) \/ Read(r) \/ End(r)
  PROVE  server = "running" /\ UNCHANGED <<server, user, game, plr, cutOff>>
<1>1. server = "running"
  BY DEF Task, CreateGame, PutGame, CreatePlayer, FindUser, FindPlayer,
         AddToGame, Read, LogIn, GetByID, GetInfo, Watch, GetMembers, Exec, End,
         Begins, OnlyServed
<1>2. UNCHANGED <<server, starting, cutOff>>
  BY DEF Task, CreateGame, PutGame, CreatePlayer, FindUser, FindPlayer,
         AddToGame, Read, LogIn, GetByID, GetInfo, Watch, GetMembers, Exec, End,
         Goes
<1> QED
  BY <1>1, <1>2 DEF starting

LEMMA OnlyServedStep ==
  ASSUME TypeOK, OnlyServed, [Next]_vars
  PROVE  OnlyServed'
<1>1. CASE Start
  <2>1. server # "running" /\ UNCHANGED job
    BY <1>1
    DEF Start, Boot, ListGames, AddHardcodedGame, ListPlayers,
        CreateHardcodedPlayer, AddHardcodedPlayer
  <2> QED
    BY <2>1 DEF OnlyServed
<1>2. CASE Crash
  BY <1>2 DEF Crash, OnlyServed, Idle
<1>3. ASSUME NEW r \in Requests, Task(r) \/ Read(r) \/ End(r)
      PROVE  OnlyServed'
  BY <1>3, RequestStep DEF OnlyServed
<1>4. CASE UNCHANGED vars
  BY <1>4 DEF vars, OnlyServed
<1> QED
  BY <1>1, <1>2, <1>3, <1>4 DEF Next, Requests

LEMMA GamesDoneStep ==
  ASSUME TypeOK, OnlyServed, GamesDone, [Next]_vars
  PROVE  GamesDone'
<1>0. /\ ours' = ours /\ games \subseteq games' /\ TypeOK'
      /\ games \subseteq Games /\ games' \subseteq Games
      /\ Cardinality(games) <= Cardinality(games')
      /\ Cardinality(games) \in Nat /\ Cardinality(games') \in Nat
  <2>1. ours' = ours /\ games \subseteq games' /\ TypeOK'
    BY OursStays, OnlyAdded, StepType
  <2>2. games \subseteq Games /\ games' \subseteq Games
    BY <2>1 DEF TypeOK
  <2> QED
    BY <2>1, <2>2, GamesCount, NoFewer
<1>1. CASE Boot \/ ListPlayers \/ Crash
  BY <1>0, <1>1 DEF Boot, ListPlayers, Crash, GamesDone, stored, starting
<1>2. CASE ListGames
  <2>1. CASE Cardinality(games) < GameCount
    BY <1>0, <1>2, <2>1, ConstantsType DEF ListGames, GamesDone, stored
  <2>2. CASE ~ (Cardinality(games) < GameCount)
    <3>1. Cardinality(games) >= GameCount
      BY <1>0, <2>2, ConstantsType
    <3>2. ours => HardcodedGames \subseteq games
      BY <2>2, EnoughGames DEF GamesDone
    <3> QED
      BY <1>0, <1>2, <2>2, <3>1, <3>2 DEF ListGames, GamesDone, stored
  <2> QED
    BY <2>1, <2>2
<1>3. CASE AddHardcodedGame
  <2>1. /\ server = "hmset" /\ games' = games \cup {game}
        /\ game \in HardcodedGames /\ game \in Nat \ {0}
        /\ \A g \in 1 .. game - 1 : g \in games
    BY <1>3, ConstantsType
    DEF AddHardcodedGame, GamesDone, TypeOK, HardcodedGames
  <2>2. \A g \in 1 .. game : g \in games'
    BY <2>1
  <2>3. CASE LastGame
    <3>1. server' = "players" /\ HardcodedGames \subseteq games'
      BY <1>3, <2>2, <2>3 DEF AddHardcodedGame, LastGame, HardcodedGames
    <3>2. Cardinality(games') >= GameCount
      BY <1>0, <3>1, GamesCount
    <3> QED
      BY <3>1, <3>2 DEF GamesDone
  <2>4. CASE ~ LastGame
    <3>1. server' = "hmset" /\ game' = game + 1
      BY <1>3, <2>4 DEF AddHardcodedGame
    <3>2. ours => HardcodedGames \subseteq games'
                  \/ games' \subseteq HardcodedGames
      BY <2>1 DEF GamesDone
    <3> QED
      BY <1>0, <2>1, <2>2, <3>1, <3>2 DEF GamesDone
  <2> QED
    BY <2>3, <2>4
<1>4. CASE CreateHardcodedPlayer
  BY <1>0, <1>4 DEF CreateHardcodedPlayer, GamesDone
<1>5. CASE AddHardcodedPlayer
  BY <1>0, <1>5 DEF AddHardcodedPlayer, GamesDone
<1>6. ASSUME NEW r \in Requests, Task(r) \/ Read(r) \/ End(r)
      PROVE  GamesDone'
  <2>1. server = "running" /\ server' = "running"
    BY <1>6, RequestStep
  <2>2. Cardinality(games') >= GameCount
    BY <1>0, <2>1, ConstantsType DEF GamesDone
  <2> QED
    BY <1>0, <2>1, <2>2 DEF GamesDone
<1>7. CASE UNCHANGED vars
  BY <1>0, <1>7 DEF vars, stored, starting, GamesDone
<1> QED
  BY <1>1, <1>2, <1>3, <1>4, <1>5, <1>6, <1>7 DEF Next, Start, Requests

\* Creating a player makes one more, and takes the username.
LEMMA OneMore ==
  ASSUME TypeOK, IdsUsed, NEW u \in Usernames, Create(u)
  PROVE  /\ IsFiniteSet(players') /\ players' # {}
         /\ \A p \in players' : p.id <= lastID'
         /\ Cardinality(players') = Cardinality(players) + 1
         /\ \A v \in Usernames : IsNew(v)' <=> IsNew(v) /\ v # u
<1> DEFINE new == [id |-> lastID + 1, uname |-> u]
<1>1. lastID \in Nat /\ players' = players \cup {new} /\ lastID' = lastID + 1
  BY DEF Create, TypeOK
<1>2. \A p \in players : p.id \in Nat /\ p.id <= lastID
  BY DEF TypeOK, Player, IdsUsed
<1>3. new.id = lastID + 1 /\ new \notin players
  BY <1>1, <1>2
<1>4. IsFiniteSet(players)
  BY DEF IdsUsed
<1>5. /\ IsFiniteSet(players \cup {new})
      /\ Cardinality(players \cup {new}) = Cardinality(players) + 1
  <2> HIDE DEF new
  <2> QED
    BY <1>3, <1>4, FS_AddElement
<1>6. \A p \in players' : p.id <= lastID'
  BY <1>1, <1>2, <1>3
<1>7. \A v \in Usernames : IsNew(v)' <=> IsNew(v) /\ v # u
  BY <1>1 DEF Create, TypeOK, IsNew, Nobody
<1> QED
  BY <1>1, <1>5, <1>6, <1>7

\* Only creating a player changes the players and their usernames.
LEMMA WhoCreates ==
  ASSUME TypeOK, OnlyServed, [Next]_vars
  PROVE  \/ UNCHANGED <<players, playerIDs, lastID>>
         \/ CreateHardcodedPlayer
         \/ \E r \in Requests : CreatePlayer(r)
<1>1. ASSUME NEW r \in Tasks, Task(r)
      PROVE  UNCHANGED <<players, playerIDs, lastID>> \/ CreatePlayer(r)
  BY <1>1
  DEF Task, CreateGame, PutGame, FindUser, FindPlayer, AddToGame, stored
<1>2. ASSUME NEW r \in Requests, Read(r) \/ End(r)
      PROVE  UNCHANGED <<players, playerIDs, lastID>>
  BY <1>2
  DEF Read, LogIn, GetByID, GetInfo, Watch, GetMembers, Exec, End, stored
<1>3. CASE Start
  BY <1>3
  DEF Start, Boot, ListGames, AddHardcodedGame, ListPlayers,
      AddHardcodedPlayer, stored
<1>4. CASE Crash \/ UNCHANGED vars
  BY <1>4 DEF Crash, vars, stored
<1> QED
  BY <1>1, <1>2, <1>3, <1>4 DEF Next, Requests

LEMMA IdsUsedStep ==
  ASSUME TypeOK, OnlyServed, IdsUsed, [Next]_vars
  PROVE  /\ IdsUsed'
         /\ Cardinality(players) <= Cardinality(players')
         /\ Cardinality(players) \in Nat /\ Cardinality(players') \in Nat
<1>1. IdsUsed'
  <2>1. CASE UNCHANGED <<players, playerIDs, lastID>>
    BY <2>1 DEF IdsUsed
  <2>2. ASSUME NEW u \in Usernames, Create(u) PROVE IdsUsed'
    BY <2>2, OneMore DEF IdsUsed
  <2>3. CASE CreateHardcodedPlayer
    BY <2>2, <2>3, ConstantsType DEF CreateHardcodedPlayer, TypeOK
  <2>4. CASE \E r \in Requests : CreatePlayer(r)
    BY <2>2, <2>4 DEF CreatePlayer
  <2> QED
    BY <2>1, <2>3, <2>4, WhoCreates
<1>2. IsFiniteSet(players') /\ players \subseteq players'
  BY <1>1, OnlyAdded DEF IdsUsed
<1> QED
  BY <1>1, <1>2, NoFewer

LEMMA EnoughPlayersStep ==
  ASSUME TypeOK, OnlyServed, IdsUsed, EnoughPlayers, [Next]_vars
  PROVE  EnoughPlayers'
<1>0. /\ Cardinality(players) <= Cardinality(players')
      /\ Cardinality(players) \in Nat /\ Cardinality(players') \in Nat
      /\ user \in Nat \ {0} /\ UsernameCount \in Nat /\ user \in Usernames
  BY IdsUsedStep, ConstantsType DEF TypeOK, HardcodedUsernames
<1>1. CASE Boot \/ ListGames \/ AddHardcodedGame \/ Crash
  <2>1. server' \in {"down", "games", "hmset", "players"}
    BY <1>1 DEF Boot, ListGames, AddHardcodedGame, Crash
  <2> QED
    BY <2>1 DEF EnoughPlayers
<1>2. CASE ListPlayers
  <2>1. /\ players' = players /\ user' = 1
        /\ \/ server' = "create"
           \/ server' = "running" /\ ~ (Cardinality(players) < UsernameCount)
    BY <1>2 DEF ListPlayers, stored
  <2> QED
    BY <1>0, <2>1 DEF EnoughPlayers
<1>3. CASE CreateHardcodedPlayer
  <2>1. Create(user) /\ server = "create" /\ user' = user
        /\ server' \in {"sadd", "down"}
    BY <1>3 DEF CreateHardcodedPlayer
  <2>2. Cardinality(players') = Cardinality(players) + 1
    BY <1>0, <2>1, OneMore
  <2>3. Cardinality(players) >= user - 1
    BY <2>1 DEF EnoughPlayers
  <2>4. Cardinality(players') >= user'
    BY <1>0, <2>1, <2>2, <2>3
  <2> QED
    BY <2>1, <2>4 DEF EnoughPlayers
<1>4. CASE AddHardcodedPlayer
  <2>1. /\ players' = players /\ server = "sadd"
        /\ \/ server' = "sadd" /\ user' = user
           \/ server' = "running" /\ user = UsernameCount
           \/ server' = "create" /\ user' = user + 1
    BY <1>4 DEF AddHardcodedPlayer
  <2>2. Cardinality(players) >= user
    BY <2>1 DEF EnoughPlayers
  <2> QED
    BY <1>0, <2>1, <2>2 DEF EnoughPlayers
<1>5. ASSUME NEW r \in Requests, Task(r) \/ Read(r) \/ End(r)
      PROVE  EnoughPlayers'
  <2>1. server = "running" /\ server' = "running"
    BY <1>5, RequestStep
  <2> QED
    BY <1>0, <2>1 DEF EnoughPlayers
<1>6. CASE UNCHANGED vars
  BY <1>6 DEF vars, stored, starting, EnoughPlayers
<1> QED
  BY <1>1, <1>2, <1>3, <1>4, <1>5, <1>6 DEF Next, Start, Requests

LEMMA PlayersDoneStep ==
  ASSUME TypeOK, OnlyServed, IdsUsed, PlayersDone, [Next]_vars
  PROVE  PlayersDone'
<1> DEFINE Whole == AllThere \/ cutOff \/ ~ ours
<1>0. /\ 1 \in HardcodedUsernames /\ HardcodedUsernames \subseteq Usernames
      /\ HardcodedUsernames \subseteq Nat \ {0} /\ user \in HardcodedUsernames
      /\ UsernameCount \in Nat \ {0}
  BY ConstantsType DEF TypeOK, HardcodedUsernames
<1>1. CASE AllThere
  BY <1>1, AllThereStays DEF PlayersDone
<1>2. CASE cutOff \/ ~ ours
  <2>1. cutOff => cutOff'
    BY RequestStep
    DEF Next, Start, Boot, ListGames, AddHardcodedGame, ListPlayers,
        CreateHardcodedPlayer, AddHardcodedPlayer, Crash, vars, Requests
  <2> QED
    BY <1>2, <2>1, OursStays DEF PlayersDone
<1>3. ASSUME ~ Whole, NEW r \in Requests, Task(r) \/ Read(r) \/ End(r)
      PROVE  FALSE
  BY <1>3, RequestStep DEF PlayersDone
<1>4. ASSUME ~ Whole, Boot \/ ListGames \/ AddHardcodedGame
      PROVE  PlayersDone'
  <2>1. /\ server \in {"down", "games", "hmset"}
        /\ server' \in {"games", "hmset", "players"}
        /\ players' = players /\ playerIDs' = playerIDs
    BY <1>4 DEF Boot, ListGames, AddHardcodedGame, stored
  <2> QED
    BY <1>4, <2>1 DEF PlayersDone, IsNew
<1>5. ASSUME ~ Whole, ListPlayers PROVE PlayersDone'
  <2>1. players = {} /\ \A u \in HardcodedUsernames : IsNew(u)
    BY <1>5 DEF PlayersDone, ListPlayers
  <2>2. Cardinality(players) < UsernameCount
    BY <1>0, <2>1, FS_EmptySet
  <2>3. /\ server' = "create" /\ user' = 1
        /\ players' = players /\ playerIDs' = playerIDs
    BY <1>5, <2>2 DEF ListPlayers, stored
  <2>4. 1 .. user' - 1 = {}
    BY <2>3
  <2> QED
    BY <2>1, <2>3, <2>4 DEF PlayersDone, IsNew
<1>6. ASSUME ~ Whole, CreateHardcodedPlayer PROVE PlayersDone'
  <2>1. /\ server = "create" /\ user' = user /\ game' = 1
        /\ Create(user) /\ plr' = lastID + 1
    BY <1>6 DEF CreateHardcodedPlayer
  <2>2. /\ \A u \in HardcodedUsernames : u >= user => IsNew(u)
        /\ \A u \in 1 .. user - 1, g \in HardcodedGames : There(u, g)
    BY <1>6, <2>1 DEF PlayersDone
  <2>3. server' = "sadd"
    <3>1. IsNew(user)
      BY <1>0, <2>2
    <3> QED
      BY <1>6, <3>1 DEF CreateHardcodedPlayer
  <2>4. \A u \in Usernames : IsNew(u)' <=> IsNew(u) /\ u # user
    BY <1>0, <2>1, OneMore
  <2>5. \A u \in HardcodedUsernames : u > user' => IsNew(u)'
    BY <1>0, <2>1, <2>2, <2>4
  <2>6. \A u \in 1 .. user' - 1, g \in HardcodedGames : There(u, g)'
    BY <2>1, <2>2, ThereStays, ConstantsType
  <2>7. [id |-> plr', uname |-> user'] \in players'
    BY <2>1 DEF Create
  <2>8. 1 .. game' - 1 = {}
    BY <2>1
  <2> QED
    BY <2>3, <2>5, <2>6, <2>7, <2>8 DEF PlayersDone, IsNew, There
<1>7. ASSUME ~ Whole, AddHardcodedPlayer PROVE PlayersDone'
  <2>1. /\ server = "sadd" /\ players' = players /\ plr' = plr
        /\ playerIDs' = playerIDs
        /\ game \in HardcodedGames /\ game \in Games /\ game \in Nat \ {0}
    BY <1>7, ConstantsType DEF AddHardcodedPlayer, TypeOK, HardcodedGames
  <2>2. /\ \A u \in 1 .. user - 1, g \in HardcodedGames : There(u, g)'
        /\ [id |-> plr, uname |-> user] \in players
        /\ \A g \in 1 .. game - 1 : plr \in members[g]
        /\ \A u \in HardcodedUsernames : u > user => IsNew(u)
    BY <1>7, <2>1, ThereStays, ConstantsType DEF PlayersDone
  <2>3. \A g \in 1 .. game : g \in Games => plr \in members'[g]
    <3>1. plr \in members'[game]
      BY <1>7, <2>1 DEF AddHardcodedPlayer, AddPlayer, TypeOK
    <3>2. \A g \in 1 .. game : g = game \/ g \in 1 .. game - 1
      BY <2>1
    <3> QED
      BY <2>2, <3>1, <3>2, OnlyAdded
  <2>4. \A g \in 1 .. game : g \in Games
    BY <2>1, ConstantsType DEF HardcodedGames
  <2>5. CASE ~ LastGame
    <3>1. server' = "sadd" /\ game' = game + 1 /\ user' = user
      BY <1>7, <2>5 DEF AddHardcodedPlayer
    <3>2. 1 .. game' - 1 = 1 .. game
      BY <2>1, <3>1
    <3>3. \A u \in HardcodedUsernames : u > user' => IsNew(u)'
      BY <2>1, <2>2, <3>1 DEF IsNew
    <3> QED
      BY <2>1, <2>2, <2>3, <2>4, <3>1, <3>2, <3>3
      DEF PlayersDone, There, IsNew
  <2>6. CASE LastGame
    <3>1. HardcodedGames = 1 .. game
      BY <2>6 DEF LastGame, HardcodedGames
    <3>2. \A g \in HardcodedGames :
             \E p \in members'[g] : [id |-> p, uname |-> user] \in players'
      BY <2>1, <2>2, <2>3, <2>4, <3>1
    <3>3. ASSUME NEW u \in 1 .. user, NEW g \in HardcodedGames
          PROVE  There(u, g)'
      <4>1. CASE u = user
        BY <3>2, <4>1 DEF There
      <4>2. CASE u # user
        <5>1. user \in Nat \ {0}
          BY <1>0
        <5>2. u \in 1 .. user - 1
          BY <4>2, <5>1
        <5> QED
          BY <2>2, <5>2
      <4> QED
        BY <4>1, <4>2
    <3>4. CASE user = UsernameCount
      BY <3>3, <3>4 DEF PlayersDone, AllThere, There, HardcodedUsernames
    <3>5. CASE user # UsernameCount
      <4>1. server' = "create" /\ user' = user + 1
        BY <1>7, <2>6, <3>5 DEF AddHardcodedPlayer
      <4>2. 1 .. user' - 1 = 1 .. user /\ user' # 1
        BY <1>0, <4>1
      <4>3. \A u \in HardcodedUsernames : u >= user' => IsNew(u)'
        <5>1. user \in Nat /\ \A u \in HardcodedUsernames : u \in Nat
          BY <1>0
        <5>2. \A u \in HardcodedUsernames : u >= user' => u > user
          BY <4>1, <5>1
        <5> QED
          BY <2>1, <2>2, <5>2 DEF IsNew
      <4> QED
        BY <3>3, <4>1, <4>2, <4>3 DEF PlayersDone, There, IsNew
    <3> QED
      BY <3>4, <3>5
  <2> QED
    BY <2>5, <2>6
<1>8. ASSUME ~ Whole, Crash PROVE PlayersDone'
  <2>1. /\ server' = "down" /\ players' = players /\ playerIDs' = playerIDs
        /\ cutOff' = (cutOff \/ server = "sadd" \/ (server = "create" /\ user > 1))
    BY <1>8 DEF Crash, stored
  <2>2. CASE server = "sadd" \/ (server = "create" /\ user > 1)
    BY <2>1, <2>2 DEF PlayersDone
  <2>3. CASE ~ (server = "sadd" \/ (server = "create" /\ user > 1))
    <3>1. server = "create" => user = 1
      BY <1>0, <2>3
    <3>2. players = {} /\ \A u \in HardcodedUsernames : IsNew(u)
      <4>1. \A u \in HardcodedUsernames : u >= 1
        BY <1>0
      <4> QED
        BY <1>8, <2>3, <3>1, <4>1 DEF PlayersDone
    <3> QED
      BY <2>1, <3>2 DEF PlayersDone, IsNew
  <2> QED
    BY <2>2, <2>3
<1>9. CASE UNCHANGED vars
  BY <1>9 DEF vars, stored, starting, PlayersDone, AllThere, There, IsNew
<1> QED
  BY <1>1, <1>2, <1>3, <1>4, <1>5, <1>6, <1>7, <1>8, <1>9
  DEF Next, Start, Requests

\* A server that runs has at least as many games and players as its
\* configuration, whatever database it was started on; on one that was empty it
\* has the games of the configuration and, unless a start was cut off while it
\* created them, the players in all of them, for every configuration and
\* however often it crashed (setup/defaultData.go:60).
THEOREM StartsComplete == Spec => []StartComplete
<1>1. TypeOK /\ StartInv /\ [Next]_vars => StartInv'
  BY OnlyServedStep, GamesDoneStep, IdsUsedStep, EnoughPlayersStep,
     PlayersDoneStep
  DEF StartInv
<1>2. StartInv => StartComplete
  BY DEF StartInv, GamesDone, EnoughPlayers, PlayersDone, StartComplete
<1> QED
  BY AccountsTypeCorrect, InitStart, <1>1, <1>2, PTL DEF Spec
-----------------------------------------------------------------------------
(* Starts that fail. *)

\* On a database of its own, until there are enough players the usernames that
\* are there are the first ones: a start that goes past the first username finds
\* the others new.
FromTheFirst ==
    /\ IdsUsed
    /\ players = {} => \A u \in Usernames : IsNew(u)
    /\ players # {} => ~ IsNew(1)
    /\ server = "create" /\ user = 1 => Cardinality(players) < UsernameCount
    /\ server = "create" /\ user > 1 =>
          \A u \in HardcodedUsernames : u >= user => IsNew(u)
    /\ server = "sadd" => \A u \in HardcodedUsernames : u > user => IsNew(u)
    /\ server \in {"running", "sadd"} => players # {}
    /\ server = "create" /\ user > 1 => players # {}

LEMMA InitFirst == Init /\ ours => FromTheFirst
<1> SUFFICES ASSUME Init, ours PROVE FromTheFirst
  OBVIOUS
<1>1. IdsUsed
  BY InitStart DEF StartInv
<1>2. players = {} /\ server = "down"
  BY DEF Init
<1>3. \A u \in Usernames : IsNew(u)
  BY DEF Init, IsNew
<1> QED
  BY <1>1, <1>2, <1>3 DEF FromTheFirst

LEMMA FirstStep ==
  ASSUME TypeOK, OnlyServed, FromTheFirst, [Next]_vars
  PROVE  FromTheFirst'
<1>0. /\ 1 \in HardcodedUsernames /\ HardcodedUsernames \subseteq Usernames
      /\ HardcodedUsernames \subseteq Nat /\ UsernameCount \in Nat \ {0}
      /\ user \in HardcodedUsernames /\ (user = 1 \/ user > 1)
      /\ \A u \in HardcodedUsernames : u = 1 \/ u > 1
  BY ConstantsType, AccountsAssumption DEF TypeOK, HardcodedUsernames
<1> IdsUsed /\ IdsUsed'
  BY IdsUsedStep DEF FromTheFirst
<1>1. ASSUME UNCHANGED <<players, playerIDs, lastID>>,
             UNCHANGED <<server, user>> \/ server' \in {"down", "games", "hmset", "players"}
      PROVE  FromTheFirst'
  <2>1. CASE UNCHANGED <<server, user>>
    BY <1>1, <2>1 DEF FromTheFirst, IsNew
  <2>2. CASE server' \in {"down", "games", "hmset", "players"}
    BY <1>1, <2>2 DEF FromTheFirst, IsNew
  <2> QED
    BY <1>1, <2>1, <2>2
<1>2. CASE ListPlayers
  <2>1. /\ UNCHANGED <<players, playerIDs, lastID>> /\ user' = 1
        /\ \/ server' = "create" /\ Cardinality(players) < UsernameCount
           \/ server' = "running" /\ ~ (Cardinality(players) < UsernameCount)
    BY <1>2 DEF ListPlayers, stored
  <2>2. ~ (Cardinality(players) < UsernameCount) => players # {}
    BY <1>0, FS_EmptySet
  <2> QED
    BY <2>1, <2>2 DEF FromTheFirst, IsNew
<1>3. CASE CreateHardcodedPlayer
  <2>1. Create(user) /\ server = "create" /\ user' = user
    BY <1>3 DEF CreateHardcodedPlayer
  <2>2. /\ players' # {}
        /\ \A v \in Usernames : IsNew(v)' <=> IsNew(v) /\ v # user
    BY <1>0, <2>1, OneMore
  <2>3. ~ IsNew(1)'
    <3>1. ~ IsNew(1) \/ user = 1
      BY <1>0, <2>1 DEF FromTheFirst
    <3> QED
      BY <1>0, <2>2, <3>1 DEF IsNew
  <2>4. CASE ~ IsNew(user)
    <3>1. server' = "down"
      BY <1>3, <2>4 DEF CreateHardcodedPlayer
    <3> QED
      BY <2>2, <2>3, <3>1 DEF FromTheFirst
  <2>5. CASE IsNew(user)
    <3>1. server' = "sadd"
      BY <1>3, <2>5 DEF CreateHardcodedPlayer
    <3>2. \A u \in HardcodedUsernames : u > user => IsNew(u)
      <4>1. CASE user = 1
        <5>1. players = {}
          BY <2>5, <4>1 DEF FromTheFirst
        <5> QED
          BY <1>0, <5>1 DEF FromTheFirst
      <4>2. CASE user > 1
        BY <1>0, <2>1, <4>2 DEF FromTheFirst
      <4> QED
        BY <1>0, <4>1, <4>2
    <3>3. \A u \in HardcodedUsernames : u > user' => IsNew(u)'
      BY <1>0, <2>1, <2>2, <3>2 DEF IsNew
    <3> QED
      BY <2>2, <2>3, <3>1, <3>3 DEF FromTheFirst
  <2> QED
    BY <2>4, <2>5
<1>4. CASE AddHardcodedPlayer
  <2>1. /\ UNCHANGED <<players, playerIDs, lastID>> /\ server = "sadd"
        /\ \/ server' = "sadd" /\ user' = user
           \/ server' = "running"
           \/ server' = "create" /\ user' = user + 1
    BY <1>4 DEF AddHardcodedPlayer
  <2>2. \A u \in HardcodedUsernames : u \in Nat /\ user \in Nat /\ user > 0
    BY <1>0
  <2>3. \A u \in HardcodedUsernames : u > user => IsNew(u)
    BY <2>1 DEF FromTheFirst
  <2>4. CASE server' = "create" /\ user' = user + 1
    <3>1. \A u \in HardcodedUsernames : u >= user' => IsNew(u)
      BY <2>2, <2>3, <2>4
    <3>2. ~ (user' = 1)
      BY <1>0, <2>4
    <3> QED
      BY <2>1, <2>4, <3>1, <3>2 DEF FromTheFirst, IsNew
  <2> QED
    BY <2>1, <2>4 DEF FromTheFirst, IsNew
<1>5. ASSUME NEW r \in Requests, CreatePlayer(r) PROVE FromTheFirst'
  <2>1. PICK u \in Usernames : Create(u)
    BY <1>5 DEF CreatePlayer
  <2>2. /\ players' # {}
        /\ \A v \in Usernames : IsNew(v)' <=> IsNew(v) /\ v # u
    BY <2>1, OneMore
  <2>3. server = "running" /\ server' = server
    BY <1>5 DEF CreatePlayer, Begins, Goes
  <2>4. ~ IsNew(1)'
    <3>1. ~ IsNew(1)
      BY <2>3 DEF FromTheFirst
    <3> QED
      BY <1>0, <2>2, <3>1 DEF IsNew
  <2> QED
    BY <2>2, <2>3, <2>4 DEF FromTheFirst
<1>6. ASSUME NEW r \in Requests, Task(r) \/ Read(r) \/ End(r),
             ~ CreatePlayer(r)
      PROVE  FromTheFirst'
  <2>1. UNCHANGED <<server, user>>
    BY <1>6, RequestStep
  <2>2. UNCHANGED <<players, playerIDs, lastID>>
    <3>1. CASE Task(r)
      BY <1>6, <3>1
      DEF Task, CreateGame, PutGame, FindUser, FindPlayer, AddToGame, stored
    <3>2. CASE Read(r) \/ End(r)
      BY <3>2
      DEF Read, LogIn, GetByID, GetInfo, Watch, GetMembers, Exec, End, stored
    <3> QED
      BY <1>6, <3>1, <3>2
  <2> QED
    BY <1>1, <2>1, <2>2
<1>7. CASE Boot \/ ListGames \/ AddHardcodedGame
  <2>1. /\ UNCHANGED <<players, playerIDs, lastID>>
        /\ server' \in {"games", "hmset", "players"}
    BY <1>7 DEF Boot, ListGames, AddHardcodedGame, stored
  <2> QED
    BY <1>1, <2>1
<1>8. CASE Crash
  <2>1. UNCHANGED <<players, playerIDs, lastID>> /\ server' = "down"
    BY <1>8 DEF Crash, stored
  <2> QED
    BY <1>1, <2>1
<1>9. CASE UNCHANGED vars
  BY <1>1, <1>9 DEF vars, stored, starting
<1> QED
  BY <1>2, <1>3, <1>4, <1>5, <1>6, <1>7, <1>8, <1>9 DEF Next, Start, Requests

\* What ServerStarts, which is liveness, rests on: a start that ends in a panic,
\* for a username of the configuration was there (setup/defaultData.go:65), has
\* created a player nevertheless, so that there are fewer such starts than
\* usernames before one finds enough players and runs. On a database of its own
\* no such start makes more players than the configuration has; on that of
\* another configuration one may.
THEOREM FailedStartsHelp ==
  Spec =>
      [][server = "create" /\ server' = "down" /\ crashes' = crashes =>
            /\ Cardinality(players') = Cardinality(players) + 1
            /\ ours => Cardinality(players') <= UsernameCount]_vars
<1> DEFINE A == server = "create" /\ server' = "down" /\ crashes' = crashes =>
                    /\ Cardinality(players') = Cardinality(players) + 1
                    /\ ours => Cardinality(players') <= UsernameCount
           First == ours => FromTheFirst
<1>1. TypeOK /\ OnlyServed /\ IdsUsed /\ First /\ [Next]_vars => [A]_vars
  <2> SUFFICES ASSUME TypeOK, OnlyServed, IdsUsed, First, Next,
                      server = "create", server' = "down", crashes' = crashes
               PROVE  /\ Cardinality(players') = Cardinality(players) + 1
                      /\ ours => Cardinality(players') <= UsernameCount
    OBVIOUS
  <2>1. CreateHardcodedPlayer
    <3>1. ~ Crash
      BY DEF Crash, TypeOK
    <3>2. \A r \in Requests : ~ (Task(r) \/ Read(r) \/ End(r))
      BY RequestStep
    <3>3. ~ (Boot \/ ListGames \/ AddHardcodedGame \/ ListPlayers
             \/ AddHardcodedPlayer)
      BY DEF Boot, ListGames, AddHardcodedGame, ListPlayers, AddHardcodedPlayer
    <3> QED
      BY <3>1, <3>2, <3>3 DEF Next, Start, Requests
  <2>2. Create(user) /\ ~ IsNew(user)
    BY <2>1 DEF CreateHardcodedPlayer
  <2>3. /\ user \in HardcodedUsernames /\ user \in Usernames
        /\ user \in Nat /\ user >= 1 /\ UsernameCount \in Nat
    BY ConstantsType, AccountsAssumption DEF TypeOK, HardcodedUsernames
  <2>4. Cardinality(players') = Cardinality(players) + 1
    BY <2>2, <2>3, OneMore
  <2>5. ASSUME ours PROVE Cardinality(players') <= UsernameCount
    <3>1. user = 1
      BY <2>2, <2>3, <2>5 DEF FromTheFirst
    <3>2. Cardinality(players) < UsernameCount /\ Cardinality(players) \in Nat
      BY <2>5, <3>1, FS_CardinalityType DEF FromTheFirst, IdsUsed
    <3> QED
      BY <2>3, <2>4, <3>2
  <2> QED
    BY <2>4, <2>5
<1>2. Init => OnlyServed /\ IdsUsed /\ First
  BY InitStart, InitFirst DEF StartInv
<1>3. TypeOK /\ OnlyServed /\ IdsUsed /\ First /\ [Next]_vars
        => OnlyServed' /\ IdsUsed' /\ First'
  BY OnlyServedStep, IdsUsedStep, FirstStep, OursStays
<1> QED
  BY <1>1, <1>2, <1>3, AccountsTypeCorrect, PTL DEF Spec
=============================================================================
