------------------------------ MODULE Shutdown ------------------------------
(***************************************************************************)
(* Shutting the process down: the goroutine of                             *)
(* shutdownHandler/shutdownHandler.go, its clients (the servers of         *)
(* main/main.go and the subscription handlers of                           *)
(* routes/gameSubscription.go), and main(), which waits for the WaitGroup. *)
(*                                                                         *)
(* No channel between them has a buffer, so that a send and its receive    *)
(* are one step, and whoever sends first waits.                            *)
(***************************************************************************)
EXTENDS Integers, FiniteSets

CONSTANTS
    Servers,    \* the goroutines of runServer
    Main,       \* the server main() runs
    Subs,       \* subscription requests
    MaxSignals  \* bound: how often ctrl+C is pressed

ASSUME ShutdownAssumption ==
    /\ Main \in Servers
    /\ IsFiniteSet(Servers) /\ IsFiniteSet(Subs)
    /\ Servers \cap Subs = {}
    /\ MaxSignals \in Nat

Clients == Servers \cup Subs

VARIABLES
    routine,    \* handleShutdown: in its select, or sending, and to whom
    target,     \* the client it sends to, or has sent to last
    todo,       \* the clients it has yet to send to
    clients,    \* its map of clients
    wg,         \* the count of the WaitGroup
    received,   \* sigintReceived
    sigint,     \* signals in the channel sigint
    signals,    \* signals sent so far
    client,     \* client[c]: where c is
    counted,    \* the subscriptions counted as connections of their players
    uncounted,  \* the subscriptions that stay counted: a command failed
    main        \* where main() is

vars == <<routine, target, todo, clients, wg, received, sigint, signals,
          client, counted, uncounted, main>>

\* "tell" is the loop over the clients, "late" the send to one that registers
\* after the signal.
RoutineSteps == {"select", "tell", "send", "late"}

\* A client is in MakeClient ("make"), sets up, waits for its Channel, has been
\* told or leaves, and is in Close ("close").
ClientSteps == {"none", "make", "setup", "wait", "leave", "close", "closed"}

MainSteps == {"serving", "waiting", "exited", "aborted"}

Running == main \in {"serving", "waiting"}

\* The main server takes no new request once Shutdown is called.
Listening == client[Main] \notin {"leave", "close", "closed"}
-----------------------------------------------------------------------------
(* The clients *)

\* A request for a subscription gets to MakeClient.
Arrive(c) ==
    /\ Running
    /\ c \in Subs /\ client[c] = "none" /\ Listening
    /\ client' = [client EXCEPT ![c] = "make"]
    /\ UNCHANGED <<routine, target, todo, clients, wg, received, sigint,
                   signals, counted, uncounted, main>>

\* The player's connection is counted; or something fails before; or it is
\* counted and the PUBLISH after it fails, with the decrement not yet deferred.
SetUp(c) ==
    /\ Running
    /\ c \in Subs /\ client[c] = "setup"
    /\ \/ /\ counted' = counted \cup {c}
          /\ client' = [client EXCEPT ![c] = "wait"]
          /\ UNCHANGED uncounted
       \/ /\ client' = [client EXCEPT ![c] = "close"]
          /\ UNCHANGED <<counted, uncounted>>
       \/ /\ counted' = counted \cup {c}
          /\ client' = [client EXCEPT ![c] = "close"]
          /\ uncounted' = uncounted \cup {c}
    /\ UNCHANGED <<routine, target, todo, clients, wg, received, sigint,
                   signals, main>>

\* The stream closes, or the messages end.
Leave(c) ==
    /\ Running
    /\ c \in Subs /\ client[c] = "wait"
    /\ client' = [client EXCEPT ![c] = "leave"]
    /\ UNCHANGED <<routine, target, todo, clients, wg, received, sigint,
                   signals, counted, uncounted, main>>

\* Variant: client.Close is deferred last, and so is called first.
CountOut_Late(c) == counted

\* The deferred decrement comes before client.Close, which was deferred first.
CountOut(c) == counted \ {c}

\* A decrement that fails is logged, and the client closes all the same.
Finish(c) ==
    /\ Running
    /\ c \in Subs /\ client[c] = "leave"
    /\ \/ /\ counted' = CountOut(c)
          /\ UNCHANGED uncounted
       \/ /\ uncounted' = uncounted \cup {c}
          /\ UNCHANGED counted
    /\ client' = [client EXCEPT ![c] = "close"]
    /\ UNCHANGED <<routine, target, todo, clients, wg, received, sigint,
                   signals, main>>

\* server.Shutdown returns: its requests are done or ten seconds have passed,
\* which is longer than a request of the main server takes to get through
\* MakeClient.
ServerShutdown(c) ==
    /\ Running
    /\ c \in Servers /\ client[c] = "leave"
    /\ c = Main => \A s \in Subs : client[s] # "make"
    /\ client' = [client EXCEPT ![c] = "close"]
    /\ UNCHANGED <<routine, target, todo, clients, wg, received, sigint,
                   signals, counted, uncounted, main>>
-----------------------------------------------------------------------------
(* handleShutdown *)

\* A client that is not in the map is added, or told first when it is late.
Register(c) ==
    /\ Running /\ routine = "select"
    /\ client[c] = "make"
    /\ client' = [client EXCEPT ![c] = IF c \in Subs THEN "setup" ELSE "wait"]
    /\ IF received
       THEN /\ routine' = "late" /\ target' = c
            /\ UNCHANGED <<clients, wg>>
       ELSE /\ clients' = clients \cup {c} /\ wg' = wg + 1
            /\ UNCHANGED <<routine, target>>
    /\ UNCHANGED <<todo, received, sigint, signals, counted, uncounted, main>>

TellLate ==
    /\ Running /\ routine = "late"
    /\ client[target] = "wait"
    /\ client' = [client EXCEPT ![target] = "leave"]
    /\ clients' = clients \cup {target} /\ wg' = wg + 1
    /\ routine' = "select"
    /\ UNCHANGED <<target, todo, received, sigint, signals, counted, uncounted,
                   main>>

\* Variant: the WaitGroup is not told.
Done_Forgotten(n) == n

\* Variant: it is told twice.
Done_Twice(n) == n - 2

\* WaitGroup.Done.
Done(n) == n - 1

\* A client that is in the map is removed.
Close(c) ==
    /\ Running /\ routine = "select"
    /\ client[c] = "close"
    /\ clients' = clients \ {c} /\ wg' = Done(wg)
    /\ client' = [client EXCEPT ![c] = "closed"]
    /\ UNCHANGED <<routine, target, todo, received, sigint, signals, counted,
                   uncounted, main>>

\* ctrl+C.
Interrupt ==
    /\ Running
    /\ signals < MaxSignals
    /\ signals' = signals + 1
    /\ sigint' = IF sigint < 2 THEN sigint + 1 ELSE sigint
    /\ UNCHANGED <<routine, target, todo, clients, wg, received, client,
                   counted, uncounted, main>>

FirstSigint ==
    /\ Running /\ routine = "select"
    /\ sigint > 0 /\ ~ received
    /\ sigint' = sigint - 1
    /\ received' = TRUE
    /\ wg' = Done(wg)
    /\ todo' = clients
    /\ routine' = "tell"
    /\ UNCHANGED <<target, clients, signals, client, counted, uncounted, main>>

\* os.Exit(1).
SecondSigint ==
    /\ Running /\ routine = "select"
    /\ sigint > 0 /\ received
    /\ sigint' = sigint - 1
    /\ main' = "aborted"
    /\ UNCHANGED <<routine, target, todo, clients, wg, received, signals,
                   client, counted, uncounted>>

\* The loop over the clients, whose order is random.
NextClient ==
    /\ Running /\ routine = "tell"
    /\ IF todo = {}
       THEN /\ routine' = "select"
            /\ UNCHANGED <<target, todo>>
       ELSE /\ \E c \in todo : target' = c /\ todo' = todo \ {c}
            /\ routine' = "send"
    /\ UNCHANGED <<clients, wg, received, sigint, signals, client, counted,
                   uncounted, main>>

TellClient ==
    /\ Running /\ routine = "send"
    /\ client[target] = "wait"
    /\ client' = [client EXCEPT ![target] = "leave"]
    /\ routine' = "tell"
    /\ UNCHANGED <<target, todo, clients, wg, received, sigint, signals,
                   counted, uncounted, main>>
-----------------------------------------------------------------------------
(* main *)

\* ListenAndServe returns as soon as Shutdown is called.
StopServing ==
    /\ main = "serving"
    /\ ~ Listening
    /\ main' = "waiting"
    /\ UNCHANGED <<routine, target, todo, clients, wg, received, sigint,
                   signals, client, counted, uncounted>>

\* WaitGroup.Wait, and the process ends.
Exit ==
    /\ main = "waiting"
    /\ wg = 0
    /\ main' = "exited"
    /\ UNCHANGED <<routine, target, todo, clients, wg, received, sigint,
                   signals, client, counted, uncounted>>
-----------------------------------------------------------------------------
Init ==
    /\ routine = "select"
    /\ target = Main
    /\ todo = {}
    /\ clients = {}
    /\ wg = 1
    /\ received = FALSE
    /\ sigint = 0
    /\ signals = 0
    /\ client = [c \in Clients |-> IF c \in Servers THEN "make" ELSE "none"]
    /\ counted = {}
    /\ uncounted = {}
    /\ main = "serving"

\* What goes on without anybody asking for it.
Proceed ==
    \/ \E c \in Clients : SetUp(c) \/ Finish(c) \/ ServerShutdown(c)
                              \/ Register(c) \/ Close(c)
    \/ TellLate \/ NextClient \/ TellClient
    \/ FirstSigint \/ SecondSigint
    \/ StopServing \/ Exit

Next ==
    \/ \E c \in Clients : Arrive(c) \/ Leave(c)
    \/ Interrupt
    \/ Proceed

Spec == Init /\ [][Next]_vars

\* A client gets on, the routine takes what is offered (at random, so that
\* nothing is passed over for ever), and main gets to its end.
Fairness ==
    /\ \A c \in Clients : /\ WF_vars(SetUp(c) \/ Finish(c) \/ ServerShutdown(c))
                          /\ SF_vars(Register(c) \/ Close(c))
    /\ WF_vars(TellLate \/ NextClient \/ TellClient)
    /\ SF_vars(FirstSigint \/ SecondSigint)
    /\ WF_vars(StopServing \/ Exit)

FairSpec == Spec /\ Fairness
-----------------------------------------------------------------------------
TypeOK ==
    /\ routine \in RoutineSteps
    /\ target \in Clients
    /\ todo \subseteq Clients
    /\ clients \subseteq Clients
    /\ wg \in Nat
    /\ received \in BOOLEAN
    /\ sigint \in 0 .. 2
    /\ signals \in 0 .. MaxSignals
    /\ client \in [Clients -> ClientSteps]
    /\ counted \subseteq Subs
    /\ uncounted \subseteq Subs
    /\ main \in MainSteps

\* The WaitGroup counts the signal that is waited for and the clients in the
\* map, whenever main may look: it neither lets go early nor falls below 0,
\* where Done would panic.
WaitGroupExact == wg = Cardinality(clients) + IF received THEN 0 ELSE 1

\* "Wait for all handlers to finish and return cleanly": when main returns,
\* every subscription has been counted out, but for those whose own command to
\* Redis failed: none was cut off on its way.
CleanExit == main = "exited" => counted \subseteq uncounted

\* The routine sends to a client that has left by itself, and is in Close: it
\* waits for the routine to take what it sends, and nobody gives way.
Stuck == routine \in {"send", "late"} /\ client[target] = "close"

\* "Shutting down...": the process ends after a signal, and nothing can keep it
\* from ending but a client that leaves at the moment it is told.
ShutdownEnds == received ~> (~ Running \/ Stuck)
=============================================================================
