------------------------------ MODULE Presence ------------------------------
(***************************************************************************)
(* Whether one player is shown as online: the "connections" and            *)
(* "onlineMode" fields of the player's Redis hash, changed by the          *)
(* subscription handlers of the player's devices and by /player/update,    *)
(* and the online messages published to the game.                          *)
(*                                                                         *)
(* UpdatePlayerConnections (game/playerManager.go) increments or           *)
(* decrements the count with HINCRBY and publishes in a second command, so *)
(* that another handler may run between the two; handleUpdatePlayer reads  *)
(* the player first and writes what it worked out in a later transaction.  *)
(***************************************************************************)
EXTENDS Integers, FiniteSets

CONSTANTS
    Devices,    \* the player's subscriptions
    Settings,   \* the /player/update requests served at one time
    Modes,      \* the online modes the player uses
    Faults,     \* TRUE: a handler may stop between two steps
    MaxCount    \* bound on the count of connections

OnlineModes == {"auto", "online", "offline"}

ASSUME PresenceAssumption ==
    /\ IsFiniteSet(Devices)
    /\ Modes \subseteq OnlineModes
    /\ Faults \in BOOLEAN

VARIABLES
    connections,    \* player:<id> connections
    mode,           \* player:<id> onlineMode
    device,         \* device[d]: where the subscription handler of d is
    setting,        \* setting[u]: what an update request is about to write
    shown,          \* the last "online" the game's clients were told
    (* Auxiliary: what handlers that stopped left undone; no action reads them. *)
    lost,           \* handlers stopped between their increment and decrement
    announced       \* online less offline messages, published or lost with
                    \* the handler that was about to publish them

vars == <<connections, mode, device, setting, shown, lost, announced>>

\* A handler is off, about to publish that the player is online, in its loop,
\* or about to publish that the player is offline.
Phase == {"off", "sendOnline", "on", "sendOffline"}

NoRequest == [step |-> "idle"]

\* An update request holds the mode to be set, whether it has a message to
\* publish, and the "online" of the message.
Request == {NoRequest} \cup
           [step : {"write"}, mode : Modes, tell : BOOLEAN, online : BOOLEAN]

\* The devices whose HINCRBY was sent, and the one that undoes it was not.
Counted == {d \in Devices : device[d] \in {"sendOnline", "on"}}

\* The devices whose handler is about to publish.
Sending(p) == {d \in Devices : device[d] = p}
-----------------------------------------------------------------------------
\* Player.IsOnline.
IsOnline(m, n) == m = "online" \/ (m = "auto" /\ n > 0)

\* Nothing is on its way to Redis.
AtRest ==
    /\ \A d \in Devices : device[d] \in {"off", "on"}
    /\ \A u \in Settings : setting[u] = NoRequest

\* Variant: the count is compared one too late.
NextPhase_OffByOne(to, n, busy) ==
    IF n = (IF to = "on" THEN 2 ELSE 1) THEN busy ELSE to

\* UpdatePlayerConnections, once newConns is known: publish when the count
\* rises to 1 or falls to 0, and go on without publishing otherwise.
NextPhase(to, n, busy) == IF n = (IF to = "on" THEN 1 ELSE 0) THEN busy ELSE to

\* Variant: the decrement is left out.
Decrement_Skipped(n) == n

\* Variant: the decrement is deferred twice.
Decrement_Twice(n) == n - 2

\* ModifyConnections with DecreaseConnections.
Decrement(n) == n - 1

\* handleSubscription counts the device in.
Connect(d) ==
    /\ device[d] = "off"
    /\ connections < MaxCount
    /\ connections' = connections + 1
    /\ device' = [device EXCEPT
                    ![d] = NextPhase("on", connections + 1, "sendOnline")]
    /\ UNCHANGED <<mode, setting, shown, lost, announced>>

\* The stream closes, and the deferred call counts the device out.
Disconnect(d) ==
    /\ device[d] = "on"
    /\ connections' = Decrement(connections)
    /\ device' = [device EXCEPT
                    ![d] = NextPhase("off", Decrement(connections),
                                     "sendOffline")]
    /\ UNCHANGED <<mode, setting, shown, lost, announced>>

\* What the message a handler is about to publish adds to those announced.
Message(d) == CASE device[d] = "sendOnline" -> 1
                [] device[d] = "sendOffline" -> -1
                [] OTHER -> 0

\* The second half of UpdatePlayerConnections: the online mode is not read.
Publish(d) ==
    /\ device[d] \in {"sendOnline", "sendOffline"}
    /\ shown' = (device[d] = "sendOnline")
    /\ device' = [device EXCEPT
                    ![d] = IF @ = "sendOnline" THEN "on" ELSE "off"]
    /\ announced' = announced + Message(d)
    /\ UNCHANGED <<connections, mode, setting, lost>>

\* The process dies, or a command fails.  When PUBLISH fails the handler ends
\* before the decrement is deferred.
Stop(d) ==
    /\ Faults
    /\ device[d] # "off"
    /\ device' = [device EXCEPT ![d] = "off"]
    /\ lost' = IF d \in Counted THEN lost + 1 ELSE lost
    /\ announced' = announced + Message(d)
    /\ UNCHANGED <<connections, mode, setting, shown>>

\* handleUpdatePlayer reads the player and compares.
ReadPlayer(u) ==
    \E m \in Modes :
        LET updatedOnline == IsOnline(m, connections) IN
        /\ setting[u] = NoRequest
        /\ setting' = [setting EXCEPT ![u] =
              [step |-> "write", mode |-> m,
               tell |-> updatedOnline # IsOnline(mode, connections),
               online |-> updatedOnline]]
        /\ UNCHANGED <<connections, mode, device, shown, lost, announced>>

\* UpdatePlayer: MULTI, HSET, PUBLISH if there is something to tell, EXEC.
UpdatePlayer(u) ==
    /\ setting[u] # NoRequest
    /\ mode' = setting[u].mode
    /\ shown' = IF setting[u].tell THEN setting[u].online ELSE shown
    /\ setting' = [setting EXCEPT ![u] = NoRequest]
    /\ UNCHANGED <<connections, device, lost, announced>>
-----------------------------------------------------------------------------
\* player.Make: a player starts offline, in automatic mode.
Init ==
    /\ connections = 0
    /\ mode = "auto"
    /\ device = [d \in Devices |-> "off"]
    /\ setting = [u \in Settings |-> NoRequest]
    /\ shown = FALSE
    /\ lost = 0
    /\ announced = 0

Next ==
    \/ \E d \in Devices : Connect(d) \/ Disconnect(d) \/ Publish(d) \/ Stop(d)
    \/ \E u \in Settings : ReadPlayer(u) \/ UpdatePlayer(u)

Spec == Init /\ [][Next]_vars
-----------------------------------------------------------------------------
TypeOK ==
    /\ connections \in Nat
    /\ mode \in OnlineModes
    /\ device \in [Devices -> Phase]
    /\ setting \in [Settings -> Request]
    /\ shown \in BOOLEAN
    /\ lost \in Nat
    /\ announced \in Int

\* Every increment is matched by a decrement or was left by a handler that
\* stopped before it: however the handlers of a player's devices interleave,
\* the count is the number of connected devices and of those left behind, so
\* that a connected player is never counted out.
CountAccounted == connections = Cardinality(Counted) + lost

\* Handlers publish outside the command that changes the count, in any order;
\* and yet each time the player comes online exactly one of them sees the 1
\* and announces it, and each time the last device leaves exactly one sees
\* the 0: once the handlers under way have published, the game has been told
\* once more that the player came than that he left if there are connections,
\* and as often if there are none.
AnnouncedOnce ==
    announced + Cardinality(Sending("sendOnline"))
              - Cardinality(Sending("sendOffline"))
        = IF connections > 0 THEN 1 ELSE 0

\* When nothing is on its way, the game was last told what a client that asks
\* now would be told.
ShownAtRest == AtRest => shown = IsOnline(mode, connections)
=============================================================================
