--------------------------- MODULE Shutdown_proofs ---------------------------
(***************************************************************************)
(* The WaitGroup and the end of main(), for any number of servers,         *)
(* subscriptions and signals.                                              *)
(***************************************************************************)
EXTENDS Shutdown, FiniteSetTheorems, TLAPS

\* A client that is through MakeClient and not yet through Close.
Registered == {"setup", "wait", "leave", "close"}

\* The routine's map: everybody registered, but for the late one it is telling.
MapExact ==
    \A c \in Clients :
        c \in clients <=> /\ client[c] \in Registered
                          /\ ~ (routine = "late" /\ target = c)

\* Who is told late is registered.
LateKnown == routine = "late" => client[target] \in Registered

\* A subscription is a connection of its player only while it is in its loop,
\* unless its own command failed.
CountedInLoop ==
    \A c \in counted : c \in uncounted \/ client[c] \in {"wait", "leave"}

\* Once the main server's Shutdown has returned nobody is left to register.
NobodyMakes ==
    client[Main] \in {"close", "closed"} => \A s \in Subs : client[s] # "make"

\* After that only another server may be told late.
LateServer == client[Main] = "closed" /\ routine = "late" => target \in Servers

\* main() waits only when its server was told to shut down.
WaitsForMain ==
    main = "waiting" => client[Main] \in {"leave", "close", "closed"}

MapInv == TypeOK /\ WaitGroupExact /\ MapExact /\ LateKnown

EndInv == CountedInLoop /\ NobodyMakes /\ LateServer /\ WaitsForMain /\ CleanExit

LEMMA ClientsFinite ==
  ASSUME NEW S, S \subseteq Clients
  PROVE  IsFiniteSet(S) /\ Cardinality(S) \in Nat
<1>1. IsFiniteSet(Clients)
  BY ShutdownAssumption, FS_Union DEF Clients
<1> QED
  BY <1>1, FS_Subset, FS_CardinalityType

LEMMA Added ==
  ASSUME TypeOK, NEW c \in Clients, c \notin clients
  PROVE  Cardinality(clients \cup {c}) = Cardinality(clients) + 1
<1>1. IsFiniteSet(clients)
  BY ClientsFinite DEF TypeOK
<1> QED
  BY <1>1, FS_AddElement

LEMMA Removed ==
  ASSUME TypeOK, NEW c \in Clients, c \in clients
  PROVE  /\ Cardinality(clients \ {c}) = Cardinality(clients) - 1
         /\ Cardinality(clients \ {c}) \in Nat
<1>1. IsFiniteSet(clients)
  BY ClientsFinite DEF TypeOK
<1>2. Cardinality(clients \ {c}) \in Nat
  BY ClientsFinite DEF TypeOK
<1> QED
  BY <1>1, <1>2, FS_RemoveElement

LEMMA InitMap == Init => MapInv
<1> SUFFICES ASSUME Init PROVE MapInv
  OBVIOUS
<1>1. TypeOK
  <2>1. Main \in Clients /\ 0 \in 0 .. MaxSignals
    BY ShutdownAssumption DEF Clients
  <2>2. client \in [Clients -> ClientSteps]
    BY DEF Init, ClientSteps
  <2>3. wg \in Nat /\ sigint \in 0 .. 2 /\ signals \in 0 .. MaxSignals
    BY <2>1 DEF Init
  <2> QED
    BY <2>1, <2>2, <2>3 DEF Init, TypeOK, RoutineSteps, MainSteps
<1>2. WaitGroupExact
  BY FS_EmptySet DEF Init, WaitGroupExact
<1>3. MapExact /\ LateKnown
  BY DEF Init, MapExact, LateKnown, Registered
<1> QED
  BY <1>1, <1>2, <1>3 DEF MapInv

\* The steps that touch neither the map nor the WaitGroup, and keep everybody
\* registered who is.
LEMMA MapKept ==
  ASSUME MapInv, TypeOK',
         UNCHANGED <<clients, wg, received>>,
         (routine = "late") <=> (routine' = "late"),
         routine = "late" => target' = target,
         \A c \in Clients :
            client'[c] \in Registered <=> client[c] \in Registered
  PROVE  MapInv'
<1>1. WaitGroupExact'
  BY DEF MapInv, WaitGroupExact
<1>2. MapExact'
  BY DEF MapInv, MapExact
<1>3. LateKnown'
  BY DEF MapInv, LateKnown, TypeOK
<1> QED
  BY <1>1, <1>2, <1>3 DEF MapInv

LEMMA StepMap == MapInv /\ [Next]_vars => MapInv'
<1> SUFFICES ASSUME MapInv, [Next]_vars PROVE MapInv'
  OBVIOUS
<1>0. TypeOK /\ WaitGroupExact /\ MapExact /\ LateKnown
  BY DEF MapInv
<1> USE DEF Registered
<1>1. ASSUME NEW c \in Clients,
             Arrive(c) \/ SetUp(c) \/ Leave(c) \/ Finish(c) \/ ServerShutdown(c)
      PROVE  MapInv'
  <2>1. TypeOK'
    <3>1. CASE Arrive(c) \/ Leave(c) \/ ServerShutdown(c)
      BY <1>0, <3>1 DEF Arrive, Leave, ServerShutdown, TypeOK, ClientSteps
    <3>2. CASE SetUp(c)
      BY <1>0, <3>2 DEF SetUp, TypeOK, ClientSteps
    <3>3. CASE Finish(c)
      BY <1>0, <3>3 DEF Finish, CountOut, TypeOK, ClientSteps
    <3> QED
      BY <1>1, <3>1, <3>2, <3>3
  <2>2. /\ UNCHANGED <<clients, wg, received, routine, target>>
        /\ \A e \in Clients :
              client'[e] \in Registered <=> client[e] \in Registered
    BY <1>0, <1>1
    DEF Arrive, SetUp, Leave, Finish, ServerShutdown, TypeOK
  <2> QED
    BY <2>1, <2>2, MapKept
<1>2. ASSUME NEW c \in Clients, Register(c) PROVE MapInv'
  <2>1. /\ routine = "select" /\ client[c] = "make" /\ c \notin clients
        /\ client' = [client EXCEPT ![c] = IF c \in Subs THEN "setup"
                                                         ELSE "wait"]
        /\ received' = received
    BY <1>0, <1>2 DEF Register, MapExact
  <2>2. CASE received
    <3>1. routine' = "late" /\ target' = c /\ UNCHANGED <<clients, wg>>
      BY <1>2, <2>2 DEF Register
    <3>2. TypeOK'
      BY <1>0, <1>2, <2>1, <3>1
      DEF Register, TypeOK, RoutineSteps, ClientSteps
    <3>3. WaitGroupExact'
      BY <1>0, <2>1, <3>1 DEF WaitGroupExact
    <3>4. MapExact' /\ LateKnown'
      BY <1>0, <2>1, <3>1 DEF MapExact, LateKnown, TypeOK
    <3> QED
      BY <3>2, <3>3, <3>4 DEF MapInv
  <2>3. CASE ~ received
    <3>1. /\ clients' = clients \cup {c} /\ wg' = wg + 1
          /\ UNCHANGED <<routine, target>>
      BY <1>2, <2>3 DEF Register
    <3>2. TypeOK'
      BY <1>0, <1>2, <2>1, <3>1 DEF Register, TypeOK, ClientSteps
    <3>3. Cardinality(clients') = Cardinality(clients) + 1
      BY <1>0, <2>1, <3>1, Added
    <3>4. Cardinality(clients) \in Nat
      BY <1>0, ClientsFinite DEF TypeOK
    <3>5. WaitGroupExact'
      BY <1>0, <2>1, <2>3, <3>1, <3>3, <3>4 DEF WaitGroupExact
    <3>6. MapExact' /\ LateKnown'
      BY <1>0, <2>1, <3>1 DEF MapExact, LateKnown, TypeOK
    <3> QED
      BY <3>2, <3>5, <3>6 DEF MapInv
  <2> QED
    BY <2>2, <2>3
<1>3. ASSUME NEW c \in Clients, Close(c) PROVE MapInv'
  <2>1. /\ routine = "select" /\ client[c] = "close" /\ c \in clients
        /\ client' = [client EXCEPT ![c] = "closed"]
        /\ clients' = clients \ {c} /\ wg' = wg - 1
        /\ UNCHANGED <<routine, target, received>>
    BY <1>0, <1>3 DEF Close, Done, MapExact
  <2>2. /\ Cardinality(clients') = Cardinality(clients) - 1
        /\ Cardinality(clients') \in Nat
    BY <1>0, <2>1, Removed
  <2>3. Cardinality(clients) \in Nat
    BY <1>0, ClientsFinite DEF TypeOK
  <2>4. WaitGroupExact' /\ wg' \in Nat
    BY <1>0, <2>1, <2>2, <2>3 DEF WaitGroupExact
  <2>5. TypeOK'
    BY <1>0, <1>3, <2>1, <2>4 DEF Close, TypeOK, ClientSteps
  <2>6. MapExact' /\ LateKnown'
    BY <1>0, <2>1 DEF MapExact, LateKnown, TypeOK
  <2> QED
    BY <2>4, <2>5, <2>6 DEF MapInv
<1>4. CASE TellLate
  <2>1. /\ routine = "late" /\ target \in Clients /\ target \notin clients
        /\ client' = [client EXCEPT ![target] = "leave"]
        /\ clients' = clients \cup {target} /\ wg' = wg + 1
        /\ routine' = "select" /\ UNCHANGED <<target, received>>
    BY <1>0, <1>4 DEF TellLate, MapExact, TypeOK
  <2>2. Cardinality(clients') = Cardinality(clients) + 1
    BY <1>0, <2>1, Added
  <2>3. Cardinality(clients) \in Nat
    BY <1>0, ClientsFinite DEF TypeOK
  <2>4. WaitGroupExact' /\ wg' \in Nat
    BY <1>0, <2>1, <2>2, <2>3 DEF WaitGroupExact, TypeOK
  <2>5. TypeOK'
    BY <1>0, <1>4, <2>1, <2>4 DEF TellLate, TypeOK, ClientSteps, RoutineSteps
  <2>6. MapExact' /\ LateKnown'
    BY <1>0, <2>1 DEF MapExact, LateKnown, TypeOK
  <2> QED
    BY <2>4, <2>5, <2>6 DEF MapInv
<1>5. CASE FirstSigint
  <2>1. /\ ~ received /\ received' /\ wg' = wg - 1
        /\ UNCHANGED <<clients, client, target>>
        /\ routine = "select" /\ routine' = "tell"
    BY <1>0, <1>5 DEF FirstSigint, Done, TypeOK
  <2>2. Cardinality(clients) \in Nat
    BY <1>0, ClientsFinite DEF TypeOK
  <2>3. WaitGroupExact' /\ wg' \in Nat
    BY <1>0, <2>1, <2>2 DEF WaitGroupExact
  <2>4. TypeOK'
    BY <1>0, <1>5, <2>3 DEF FirstSigint, TypeOK, RoutineSteps
  <2>5. MapExact' /\ LateKnown'
    BY <1>0, <2>1 DEF MapExact, LateKnown
  <2> QED
    BY <2>3, <2>4, <2>5 DEF MapInv
<1>6. CASE Interrupt \/ SecondSigint
  <2>1. TypeOK'
    BY <1>0, <1>6, ShutdownAssumption
    DEF Interrupt, SecondSigint, TypeOK, MainSteps
  <2>2. UNCHANGED <<clients, wg, received, routine, target, client>>
    BY <1>6 DEF Interrupt, SecondSigint
  <2> QED
    BY <2>1, <2>2, MapKept
<1>7. CASE NextClient \/ TellClient
  <2>1. TypeOK'
    BY <1>0, <1>7 DEF NextClient, TellClient, TypeOK, RoutineSteps, ClientSteps
  <2>2. /\ UNCHANGED <<clients, wg, received>>
        /\ routine # "late" /\ routine' # "late"
        /\ \A e \in Clients :
              client'[e] \in Registered <=> client[e] \in Registered
    BY <1>0, <1>7 DEF NextClient, TellClient, TypeOK
  <2> QED
    BY <2>1, <2>2, MapKept
<1>8. CASE StopServing \/ Exit
  <2>1. TypeOK'
    BY <1>0, <1>8 DEF StopServing, Exit, TypeOK, MainSteps
  <2>2. UNCHANGED <<clients, wg, received, routine, target, client>>
    BY <1>8 DEF StopServing, Exit
  <2> QED
    BY <2>1, <2>2, MapKept
<1>9. CASE UNCHANGED vars
  BY <1>9
  DEF vars, MapInv, TypeOK, WaitGroupExact, MapExact, LateKnown
<1> QED
  BY <1>1, <1>2, <1>3, <1>4, <1>5, <1>6, <1>7, <1>8, <1>9 DEF Next, Proceed

\* The routine, its clients and main() are where they can be, and the count of
\* the WaitGroup is never negative.
THEOREM ShutdownTypeCorrect == Spec => []TypeOK
<1>1. MapInv => TypeOK
  BY DEF MapInv
<1> QED
  BY InitMap, StepMap, <1>1, PTL DEF Spec

\* However clients register, close and are told, the WaitGroup counts those in
\* the map and the signal.
THEOREM Counting == Spec => []WaitGroupExact
<1>1. MapInv => WaitGroupExact
  BY DEF MapInv
<1> QED
  BY InitMap, StepMap, <1>1, PTL DEF Spec

LEMMA InitEnd == Init => EndInv
  BY ShutdownAssumption
  DEF Init, EndInv, CountedInLoop, NobodyMakes, LateServer, WaitsForMain,
      CleanExit, Clients

LEMMA StepEnd == MapInv /\ EndInv /\ [Next]_vars => EndInv'
<1> SUFFICES ASSUME MapInv, EndInv, [Next]_vars PROVE EndInv'
  OBVIOUS
<1>0. /\ TypeOK /\ MapExact
      /\ CountedInLoop /\ NobodyMakes /\ LateServer /\ WaitsForMain /\ CleanExit
      /\ Main \in Clients /\ Main \in Servers /\ Main \notin Subs
      /\ counted \subseteq Clients /\ client \in [Clients -> ClientSteps]
  BY ShutdownAssumption DEF MapInv, EndInv, TypeOK, Clients
<1>1. ASSUME NEW c \in Clients, Arrive(c) PROVE EndInv'
  <2>1. /\ c \in Subs /\ client[c] = "none"
        /\ client[Main] \notin {"leave", "close", "closed"}
        /\ client' = [client EXCEPT ![c] = "make"]
        /\ main \in {"serving", "waiting"}
        /\ UNCHANGED <<routine, target, counted, uncounted, main>>
    BY <1>1 DEF Arrive, Listening, Running
  <2>2. client'[Main] = client[Main]
    BY <1>0, <2>1
  <2> QED
    BY <1>0, <2>1, <2>2
    DEF EndInv, CountedInLoop, NobodyMakes, LateServer, WaitsForMain, CleanExit
<1>2. ASSUME NEW c \in Clients, SetUp(c) PROVE EndInv'
  <2>1. /\ c \in Subs /\ client[c] = "setup" /\ main # "exited"
        /\ \/ /\ counted' = counted \cup {c}
              /\ client' = [client EXCEPT ![c] = "wait"]
              /\ uncounted' = uncounted
           \/ /\ client' = [client EXCEPT ![c] = "close"]
              /\ counted' = counted /\ uncounted' = uncounted
           \/ /\ client' = [client EXCEPT ![c] = "close"]
              /\ counted' = counted \cup {c}
              /\ uncounted' = uncounted \cup {c}
        /\ UNCHANGED <<routine, target, main>>
    BY <1>2 DEF SetUp, Running
  <2>2. client'[Main] = client[Main]
    BY <1>0, <2>1
  <2>3. c \in counted => c \in uncounted
    BY <1>0, <2>1 DEF CountedInLoop
  <2>4. CountedInLoop'
    BY <1>0, <2>1, <2>3 DEF CountedInLoop
  <2>5. NobodyMakes'
    <3>1. \A s \in Subs : client'[s] = "make" => client[s] = "make"
      BY <1>0, <2>1 DEF Clients
    <3> QED
      BY <2>2, <3>1, <1>0 DEF NobodyMakes
  <2> QED
    BY <1>0, <2>1, <2>2, <2>4, <2>5
    DEF EndInv, LateServer, WaitsForMain, CleanExit
<1>3. ASSUME NEW c \in Clients, Leave(c) PROVE EndInv'
  <2>1. /\ c \in Subs /\ client' = [client EXCEPT ![c] = "leave"]
        /\ main # "exited"
        /\ UNCHANGED <<routine, target, counted, uncounted, main>>
    BY <1>3 DEF Leave, Running
  <2>2. client'[Main] = client[Main]
    BY <1>0, <2>1
  <2> QED
    BY <1>0, <2>1, <2>2
    DEF EndInv, CountedInLoop, NobodyMakes, LateServer, WaitsForMain, CleanExit
<1>4. ASSUME NEW c \in Clients, Finish(c) PROVE EndInv'
  <2>1. /\ c \in Subs /\ client' = [client EXCEPT ![c] = "close"]
        /\ \/ counted' = counted \ {c} /\ uncounted' = uncounted
           \/ counted' = counted /\ uncounted' = uncounted \cup {c}
        /\ main # "exited"
        /\ UNCHANGED <<routine, target, main>>
    BY <1>4 DEF Finish, CountOut, Running
  <2>2. client'[Main] = client[Main]
    BY <1>0, <2>1
  <2> QED
    BY <1>0, <2>1, <2>2
    DEF EndInv, CountedInLoop, NobodyMakes, LateServer, WaitsForMain, CleanExit
<1>5. ASSUME NEW c \in Clients, ServerShutdown(c) PROVE EndInv'
  <2>1. /\ c \in Servers /\ client[c] = "leave"
        /\ c = Main => \A s \in Subs : client[s] # "make"
        /\ client' = [client EXCEPT ![c] = "close"] /\ main # "exited"
        /\ UNCHANGED <<routine, target, counted, uncounted, main>>
    BY <1>5 DEF ServerShutdown, Running
  <2>2. c \notin Subs /\ c \notin counted
    BY <1>0, <2>1, ShutdownAssumption DEF TypeOK
  <2>3. CountedInLoop'
    BY <1>0, <2>1, <2>2 DEF CountedInLoop
  <2>4. NobodyMakes'
    BY <1>0, <2>1, <2>2 DEF NobodyMakes, Clients
  <2>5. LateServer' /\ WaitsForMain'
    BY <1>0, <2>1 DEF LateServer, WaitsForMain
  <2> QED
    BY <1>0, <2>1, <2>3, <2>4, <2>5 DEF EndInv, CleanExit
<1>6. ASSUME NEW c \in Clients, Register(c) PROVE EndInv'
  <2>1. /\ client[c] = "make" /\ main # "exited"
        /\ client' = [client EXCEPT ![c] = IF c \in Subs THEN "setup"
                                                         ELSE "wait"]
        /\ routine' = "late" => target' = c \/ routine = "late"
        /\ routine = "select"
        /\ UNCHANGED <<counted, uncounted, main>>
    BY <1>6 DEF Register, Running
  <2>2. c \in counted => c \in uncounted
    BY <1>0, <2>1 DEF CountedInLoop
  <2>3. CountedInLoop'
    BY <1>0, <2>1, <2>2 DEF CountedInLoop
  <2>4. client'[Main] = client[Main] \/ client'[Main] = "wait"
    BY <1>0, <2>1
  <2>5. NobodyMakes'
    BY <1>0, <2>1, <2>4 DEF NobodyMakes, Clients
  <2>6. LateServer'
    BY <1>0, <2>1, <2>4 DEF LateServer, NobodyMakes, Clients
  <2>7. WaitsForMain'
    BY <1>0, <2>1 DEF WaitsForMain
  <2> QED
    BY <1>0, <2>1, <2>3, <2>5, <2>6, <2>7 DEF EndInv, CleanExit
<1>7. CASE TellLate \/ TellClient
  <2>1. /\ target \in Clients /\ client[target] = "wait" /\ main # "exited"
        /\ client' = [client EXCEPT ![target] = "leave"]
        /\ routine' # "late" /\ UNCHANGED <<counted, uncounted, main>>
    BY <1>0, <1>7 DEF TellLate, TellClient, Running, TypeOK
  <2>2. CountedInLoop'
    BY <1>0, <2>1 DEF CountedInLoop
  <2>3. NobodyMakes'
    BY <1>0, <2>1 DEF NobodyMakes, Clients
  <2>4. WaitsForMain'
    BY <1>0, <2>1 DEF WaitsForMain
  <2> QED
    BY <1>0, <2>1, <2>2, <2>3, <2>4 DEF EndInv, LateServer, CleanExit
<1>8. ASSUME NEW c \in Clients, Close(c) PROVE EndInv'
  <2>1. /\ client[c] = "close" /\ main # "exited" /\ routine = "select"
        /\ client' = [client EXCEPT ![c] = "closed"]
        /\ UNCHANGED <<routine, target, counted, uncounted, main>>
    BY <1>8 DEF Close, Running
  <2>2. c \in counted => c \in uncounted
    BY <1>0, <2>1 DEF CountedInLoop
  <2>3. CountedInLoop'
    BY <1>0, <2>1, <2>2 DEF CountedInLoop
  <2>4. NobodyMakes'
    BY <1>0, <2>1 DEF NobodyMakes, Clients
  <2>5. LateServer' /\ WaitsForMain'
    BY <1>0, <2>1 DEF LateServer, WaitsForMain
  <2> QED
    BY <1>0, <2>1, <2>3, <2>4, <2>5 DEF EndInv, CleanExit
<1>9. CASE Interrupt \/ FirstSigint \/ SecondSigint \/ NextClient
  <2>1. /\ UNCHANGED <<client, counted, uncounted>>
        /\ routine' = "late" => routine = "late" /\ target' = target
        /\ main' \in {main, "aborted"}
    BY <1>9 DEF Interrupt, FirstSigint, SecondSigint, NextClient
  <2> QED
    BY <1>0, <2>1
    DEF EndInv, CountedInLoop, NobodyMakes, LateServer, WaitsForMain, CleanExit
<1>10. CASE StopServing
  <2>1. /\ UNCHANGED <<client, target, routine, counted, uncounted>>
        /\ main' = "waiting" /\ client[Main] \in {"leave", "close", "closed"}
    BY <1>10 DEF StopServing, Listening
  <2> QED
    BY <1>0, <2>1
    DEF EndInv, CountedInLoop, NobodyMakes, LateServer, WaitsForMain, CleanExit
<1>11. CASE Exit
  <2>1. /\ UNCHANGED <<client, target, routine, counted, uncounted>>
        /\ main = "waiting" /\ main' = "exited" /\ wg = 0
    BY <1>11 DEF Exit
  <2>2. clients = {}
    <3>1. IsFiniteSet(clients) /\ Cardinality(clients) \in Nat
      BY <1>0, ClientsFinite DEF TypeOK
    <3>2. Cardinality(clients) = 0
      BY <2>1, <3>1 DEF MapInv, WaitGroupExact
    <3> QED
      BY <3>1, <3>2, FS_EmptySet
  <2>3. ASSUME NEW s \in counted, s \notin uncounted PROVE FALSE
    <3>1. s \in Subs /\ s \in Clients /\ client[s] \in {"wait", "leave"}
      BY <1>0, <2>3 DEF CountedInLoop, TypeOK
    <3>2. routine = "late" /\ target = s
      BY <1>0, <2>2, <3>1 DEF MapExact, Registered
    <3>3. client[Main] = "closed"
      BY <1>0, <2>1, <2>2, <3>1, <3>2 DEF WaitsForMain, MapExact, Registered
    <3> QED
      BY <1>0, <3>1, <3>2, <3>3, ShutdownAssumption DEF LateServer
  <2>4. counted' \subseteq uncounted'
    BY <2>1, <2>3
  <2> QED
    BY <1>0, <2>1, <2>4
    DEF EndInv, CountedInLoop, NobodyMakes, LateServer, WaitsForMain, CleanExit
<1>12. CASE UNCHANGED vars
  BY <1>0, <1>12
  DEF vars, EndInv, CountedInLoop, NobodyMakes, LateServer, WaitsForMain,
      CleanExit
<1> QED
  BY <1>1, <1>2, <1>3, <1>4, <1>5, <1>6, <1>7, <1>8, <1>9, <1>10, <1>11, <1>12
  DEF Next, Proceed

\* main() does not return before every subscription has been through its
\* decrement, whether Redis did it or not, or has failed to be set up, whatever
\* order clients come, go and are told in: one that
\* registers after the signal is told before it is counted in the WaitGroup, but
\* then the main server's own client is still to be closed.
THEOREM CleanEnd == Spec => []CleanExit
<1>1. EndInv => CleanExit
  BY DEF EndInv
<1> QED
  BY InitMap, InitEnd, StepMap, StepEnd, <1>1, PTL DEF Spec
-----------------------------------------------------------------------------
(* No deadlock but one: what ShutdownEnds, which is liveness, rests on.      *)

\* The routine tells everybody in its map once, and comes back to its select
\* when they have been told.
Telling ==
    /\ routine \in {"select", "late"} => todo = {}
    /\ routine # "select" => received
    /\ todo \subseteq clients
    /\ routine = "send" => target \in clients /\ target \notin todo

Told ==
    received => \A c \in clients : \/ c \in todo
                                   \/ routine = "send" /\ c = target
                                   \/ client[c] \in {"leave", "close"}

\* A server waits for its turn: unlike a subscription it never leaves by
\* itself.
ServersWait ==
    \A c \in Servers :
        /\ client[c] \notin {"none", "setup"}
        /\ (\/ ~ received
            \/ c \in todo
            \/ routine \in {"send", "late"} /\ c = target)
              => client[c] \in {"make", "wait"}

TurnInv == Telling /\ Told /\ ServersWait

\* What Proceed needs to be taken: somebody who can go on by himself, or who
\* the routine is ready for,
ClientReady(c) ==
    \/ c \in Subs /\ client[c] \in {"setup", "leave"}
    \/ /\ c \in Servers /\ client[c] = "leave"
       /\ c = Main => \A s \in Subs : client[s] # "make"
    \/ routine = "select" /\ client[c] \in {"make", "close"}

\* the routine itself,
RoutineReady ==
    \/ routine \in {"late", "send"} /\ client[target] = "wait"
    \/ routine = "tell"
    \/ routine = "select" /\ sigint > 0

\* or main().
MainReady ==
    \/ main = "serving" /\ ~ Listening
    \/ main = "waiting" /\ wg = 0

Ready == (\E c \in Clients : ClientReady(c)) \/ RoutineReady \/ MainReady

LEMMA InitTurn == Init => TurnInv
  BY DEF Init, TurnInv, Telling, Told, ServersWait, Clients

LEMMA StepTurn == MapInv /\ TurnInv /\ [Next]_vars => TurnInv'
<1> SUFFICES ASSUME MapInv, TurnInv, [Next]_vars PROVE TurnInv'
  OBVIOUS
<1>0. /\ MapExact /\ LateKnown /\ Telling /\ Told /\ ServersWait
      /\ Servers \subseteq Clients /\ Servers \cap Subs = {}
      /\ Subs \subseteq Clients
      /\ clients \subseteq Clients /\ target \in Clients
      /\ client \in [Clients -> ClientSteps] /\ received \in BOOLEAN
  BY ShutdownAssumption DEF MapInv, TurnInv, TypeOK, Clients
<1> USE DEF Registered
<1>1. ASSUME NEW c \in Clients, Arrive(c) \/ SetUp(c) \/ Leave(c) \/ Finish(c)
      PROVE  TurnInv'
  <2>1. PICK to \in ClientSteps :
          /\ c \in Subs /\ client' = [client EXCEPT ![c] = to]
          /\ client[c] # "close"
          /\ client[c] = "leave" => to = "close"
          /\ UNCHANGED <<routine, target, todo, clients, received>>
    BY <1>0, <1>1 DEF Arrive, SetUp, Leave, Finish, ClientSteps
  <2>2. \A d \in Clients : client'[d] = IF d = c THEN to ELSE client[d]
    BY <1>0, <2>1
  <2>3. Telling'
    BY <1>0, <2>1 DEF Telling
  <2>4. Told'
    BY <1>0, <2>1, <2>2 DEF Told
  <2>5. ServersWait'
    BY <1>0, <2>1, <2>2 DEF ServersWait
  <2> QED
    BY <2>3, <2>4, <2>5 DEF TurnInv
<1>2. ASSUME NEW c \in Clients, ServerShutdown(c) PROVE TurnInv'
  <2>1. /\ c \in Servers /\ client[c] = "leave"
        /\ client' = [client EXCEPT ![c] = "close"]
        /\ UNCHANGED <<routine, target, todo, clients, received>>
    BY <1>2 DEF ServerShutdown
  <2>2. \A d \in Clients : client'[d] = IF d = c THEN "close" ELSE client[d]
    BY <1>0, <2>1
  <2>3. Telling'
    BY <1>0, <2>1 DEF Telling
  <2>4. Told'
    BY <1>0, <2>1, <2>2 DEF Told
  <2>5. ServersWait'
    BY <1>0, <2>1, <2>2 DEF ServersWait
  <2> QED
    BY <2>3, <2>4, <2>5 DEF TurnInv
<1>3. ASSUME NEW c \in Clients, Register(c) PROVE TurnInv'
  <2>1. PICK to \in {"setup", "wait"} :
          /\ routine = "select" /\ client[c] = "make"
          /\ to = IF c \in Subs THEN "setup" ELSE "wait"
          /\ client' = [client EXCEPT ![c] = to]
          /\ IF received
             THEN routine' = "late" /\ target' = c /\ clients' = clients
             ELSE clients' = clients \cup {c} /\ routine' = routine
                    /\ target' = target
          /\ UNCHANGED <<todo, received>>
    BY <1>3 DEF Register
  <2>2. \A d \in Clients : client'[d] = IF d = c THEN to ELSE client[d]
    BY <1>0, <2>1
  <2>3. c \notin clients
    BY <1>0, <2>1 DEF MapExact
  <2>4. Telling'
    BY <1>0, <2>1 DEF Telling
  <2>5. Told'
    BY <1>0, <2>1, <2>2, <2>3 DEF Told
  <2>6. ServersWait'
    BY <1>0, <2>1, <2>2 DEF ServersWait
  <2> QED
    BY <2>4, <2>5, <2>6 DEF TurnInv
<1>4. ASSUME NEW c \in Clients, Close(c) PROVE TurnInv'
  <2>1. /\ routine = "select" /\ client[c] = "close"
        /\ clients' = clients \ {c}
        /\ client' = [client EXCEPT ![c] = "closed"]
        /\ UNCHANGED <<routine, target, todo, received>>
    BY <1>4 DEF Close
  <2>2. \A d \in Clients : client'[d] = IF d = c THEN "closed" ELSE client[d]
    BY <1>0, <2>1
  <2>3. Telling'
    BY <1>0, <2>1 DEF Telling
  <2>4. Told'
    BY <1>0, <2>1, <2>2 DEF Told, Telling
  <2>5. ServersWait'
    BY <1>0, <2>1, <2>2 DEF ServersWait, Telling
  <2> QED
    BY <2>3, <2>4, <2>5 DEF TurnInv
<1>5. CASE TellLate
  <2>1. /\ routine = "late" /\ client[target] = "wait"
        /\ client' = [client EXCEPT ![target] = "leave"]
        /\ clients' = clients \cup {target} /\ routine' = "select"
        /\ UNCHANGED <<target, todo, received>>
    BY <1>5 DEF TellLate
  <2>2. \A d \in Clients : client'[d] = IF d = target THEN "leave" ELSE client[d]
    BY <1>0, <2>1
  <2>3. Telling'
    BY <1>0, <2>1 DEF Telling
  <2>4. Told'
    BY <1>0, <2>1, <2>2 DEF Told, Telling
  <2>5. ServersWait'
    BY <1>0, <2>1, <2>2 DEF ServersWait, Telling
  <2> QED
    BY <2>3, <2>4, <2>5 DEF TurnInv
<1>6. CASE TellClient
  <2>1. /\ routine = "send" /\ client[target] = "wait"
        /\ client' = [client EXCEPT ![target] = "leave"]
        /\ routine' = "tell"
        /\ UNCHANGED <<target, todo, clients, received>>
    BY <1>6 DEF TellClient
  <2>2. \A d \in Clients : client'[d] = IF d = target THEN "leave" ELSE client[d]
    BY <1>0, <2>1
  <2>3. Telling'
    BY <1>0, <2>1 DEF Telling
  <2>4. Told'
    BY <1>0, <2>1, <2>2 DEF Told
  <2>5. ServersWait'
    BY <1>0, <2>1, <2>2 DEF ServersWait, Telling
  <2> QED
    BY <2>3, <2>4, <2>5 DEF TurnInv
<1>7. CASE FirstSigint
  <2>1. /\ ~ received /\ received' = TRUE /\ todo' = clients
        /\ routine' = "tell"
        /\ UNCHANGED <<target, clients, client>>
    BY <1>7 DEF FirstSigint
  <2> QED
    BY <1>0, <2>1 DEF TurnInv, Telling, Told, ServersWait
<1>8. CASE NextClient
  <2>1. /\ routine = "tell"
        /\ UNCHANGED <<clients, received, client>>
    BY <1>8 DEF NextClient
  <2>2. CASE todo = {}
    <3>1. routine' = "select" /\ target' = target /\ todo' = todo
      BY <1>8, <2>2 DEF NextClient
    <3> QED
      BY <1>0, <2>1, <2>2, <3>1 DEF TurnInv, Telling, Told, ServersWait
  <2>3. CASE todo # {}
    <3>1. PICK c \in todo : /\ target' = c /\ todo' = todo \ {c}
                            /\ routine' = "send"
      BY <1>8, <2>3 DEF NextClient
    <3>2. Telling'
      BY <1>0, <2>1, <3>1 DEF Telling
    <3>3. Told'
      BY <1>0, <2>1, <3>1 DEF Told
    <3>4. ServersWait'
      BY <1>0, <2>1, <3>1 DEF ServersWait
    <3> QED
      BY <3>2, <3>3, <3>4 DEF TurnInv
  <2> QED
    BY <2>2, <2>3
<1>9. CASE Interrupt \/ SecondSigint \/ StopServing \/ Exit \/ UNCHANGED vars
  <2>1. UNCHANGED <<routine, target, todo, clients, received, client>>
    BY <1>9 DEF Interrupt, SecondSigint, StopServing, Exit, vars
  <2> QED
    BY <1>0, <2>1 DEF TurnInv, Telling, Told, ServersWait
<1> QED
  BY <1>1, <1>2, <1>3, <1>4, <1>5, <1>6, <1>7, <1>8, <1>9 DEF Next, Proceed

\* After the signal nobody waits for anybody who waits for him, but the routine
\* and a client that left by itself: until the process has ended, somebody can
\* go on without being asked to, or it is Stuck. Who waits is told, who is told
\* closes, and with the last of them main() returns.
THEOREM OneDeadlock == Spec => [](received /\ Running => Ready \/ Stuck)
<1>1. MapInv /\ TurnInv => (received /\ Running => Ready \/ Stuck)
  <2> SUFFICES ASSUME MapInv, TurnInv, received, Running, ~ Ready, ~ Stuck
               PROVE  FALSE
    OBVIOUS
  <2>0. /\ MapExact /\ LateKnown /\ Telling /\ Told /\ ServersWait
        /\ WaitGroupExact
        /\ Servers \subseteq Clients /\ Servers \cap Subs = {}
        /\ Clients = Servers \cup Subs /\ Main \in Servers
        /\ clients \subseteq Clients /\ target \in Clients
        /\ client \in [Clients -> ClientSteps] /\ routine \in RoutineSteps
    BY ShutdownAssumption DEF MapInv, TurnInv, TypeOK, Clients
  <2>1. \A c \in Clients : ~ ClientReady(c)
    BY DEF Ready
  <2>2. ~ RoutineReady /\ ~ MainReady
    BY DEF Ready
  <2>3. routine = "select"
    <3>1. CASE routine \in {"send", "late"}
      <4>1. client[target] \in {"setup", "leave"}
        <5>1. client[target] \in Registered
          BY <2>0, <3>1 DEF MapExact, LateKnown, Telling
        <5> QED
          BY <2>2, <3>1, <5>1 DEF Registered, RoutineReady, Stuck
      <4>2. target \in Servers
        BY <2>0, <2>1, <4>1 DEF ClientReady
      <4> QED
        BY <2>0, <3>1, <4>1, <4>2 DEF ServersWait
    <3>2. routine # "tell"
      BY <2>2 DEF RoutineReady
    <3> QED
      BY <2>0, <3>1, <3>2 DEF RoutineSteps
  <2>4. \A c \in clients : client[c] = "leave"
    <3>1. todo = {}
      BY <2>0, <2>3 DEF Telling
    <3> QED
      BY <2>0, <2>1, <2>3, <3>1 DEF Told, ClientReady
  <2>5. clients = {}
    <3> SUFFICES ASSUME NEW c \in clients PROVE FALSE
      OBVIOUS
    <3>1. c \in Clients /\ client[c] = "leave"
      BY <2>0, <2>4
    <3>2. \A s \in Subs : client[s] # "make"
      BY <2>0, <2>1, <2>3 DEF ClientReady
    <3> QED
      BY <2>0, <2>1, <3>1, <3>2 DEF ClientReady
  <2>6. client[Main] = "closed"
    <3>1. client[Main] \notin Registered
      BY <2>0, <2>3, <2>5 DEF MapExact
    <3>2. client[Main] # "make" /\ client[Main] # "none"
      BY <2>0, <2>1, <2>3 DEF ClientReady, ServersWait
    <3> QED
      BY <2>0, <3>1, <3>2 DEF Registered, ClientSteps
  <2>7. wg = 0
    BY <2>0, <2>5, FS_EmptySet DEF WaitGroupExact
  <2> QED
    BY <2>2, <2>6, <2>7 DEF MainReady, Listening, Running
<1> QED
  BY InitMap, InitTurn, StepMap, StepTurn, <1>1, PTL DEF Spec

\* And that one is for good: while the routine waits for a client that waits
\* for it, neither does main() return nor is ctrl+C heard again, which is to
\* force the process to end (shutdownHandler.go:80).
THEOREM StuckForGood ==
  Spec => [][Stuck /\ Running => Stuck' /\ Running']_vars
<1>1. MapInv /\ EndInv /\ TurnInv /\ [Next]_vars
        => [Stuck /\ Running => Stuck' /\ Running']_vars
  <2> SUFFICES ASSUME MapInv, EndInv, TurnInv, Next, Stuck, Running
               PROVE  Stuck' /\ Running'
    OBVIOUS
  <2>0. /\ MapExact /\ LateServer /\ WaitsForMain /\ WaitGroupExact /\ Telling
        /\ clients \subseteq Clients /\ target \in Clients /\ ServersWait
        /\ Main \in Clients /\ client \in [Clients -> ClientSteps]
        /\ routine \in {"send", "late"} /\ client[target] = "close"
    BY ShutdownAssumption
    DEF MapInv, EndInv, TurnInv, TypeOK, Clients, Stuck
  <2>1. ASSUME NEW c \in Clients,
               Arrive(c) \/ Leave(c) \/ SetUp(c) \/ Finish(c)
                  \/ ServerShutdown(c)
        PROVE  Stuck' /\ Running'
    <3>1. /\ client[c] # "close" /\ UNCHANGED <<routine, target, main>>
          /\ \E to \in ClientSteps : client' = [client EXCEPT ![c] = to]
      BY <2>1
      DEF Arrive, Leave, SetUp, Finish, ServerShutdown, ClientSteps
    <3> QED
      BY <2>0, <3>1 DEF Stuck, Running
  <2>2. ASSUME NEW c \in Clients, Register(c) \/ Close(c) PROVE FALSE
    BY <2>0, <2>2 DEF Register, Close
  <2>3. ~ TellLate /\ ~ NextClient /\ ~ TellClient /\ ~ FirstSigint
        /\ ~ SecondSigint
    BY <2>0 DEF TellLate, NextClient, TellClient, FirstSigint, SecondSigint
  <2>4. CASE Interrupt
    BY <2>0, <2>4 DEF Interrupt, Stuck, Running
  <2>5. CASE StopServing
    BY <2>0, <2>5 DEF StopServing, Stuck, Running
  <2>6. ~ Exit
    <3> SUFFICES ASSUME Exit PROVE FALSE
      OBVIOUS
    <3>1. main = "waiting" /\ wg = 0
      BY DEF Exit
    <3>2. clients # {}
      <4>1. CASE routine = "send"
        BY <2>0, <4>1 DEF Telling
      <4>2. CASE routine = "late"
        <5>1. target \notin Servers
          BY <2>0, <4>2 DEF ServersWait
        <5>2. client[Main] \in {"leave", "close"} /\ target # Main
          BY <2>0, <3>1, <4>2, <5>1, ShutdownAssumption
          DEF WaitsForMain, LateServer
        <5> QED
          BY <2>0, <5>2 DEF MapExact, Registered
      <4> QED
        BY <2>0, <4>1, <4>2
    <3>3. Cardinality(clients) \in Nat /\ IsFiniteSet(clients)
      BY <2>0, ClientsFinite
    <3>4. Cardinality(clients) # 0
      BY <3>2, <3>3, FS_EmptySet
    <3> QED
      BY <2>0, <3>1, <3>3, <3>4 DEF WaitGroupExact
  <2> QED
    BY <2>1, <2>2, <2>3, <2>4, <2>5, <2>6 DEF Next, Proceed
<1> QED
  BY InitMap, InitEnd, InitTurn, StepMap, StepEnd, StepTurn, <1>1, PTL DEF Spec
=============================================================================
