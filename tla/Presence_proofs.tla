--------------------------- MODULE Presence_proofs ---------------------------
(***************************************************************************)
(* The count of connections and its announcements, for any number of       *)
(* devices and of concurrent requests, any online modes, messages in any   *)
(* order and handlers that stop anywhere.                                  *)
(***************************************************************************)
EXTENDS Presence, FiniteSetTheorems, TLAPS

\* A device that counts itself in adds one to the connected devices.
LEMMA CountedIn ==
  ASSUME TypeOK, NEW d \in Devices, d \notin Counted,
         Counted' = Counted \cup {d}
  PROVE  /\ Cardinality(Counted) \in Nat
         /\ Cardinality(Counted') = Cardinality(Counted) + 1
<1>1. IsFiniteSet(Counted)
  BY PresenceAssumption, FS_Subset DEF Counted
<1> QED
  BY <1>1, FS_AddElement, FS_CardinalityType

\* One that counts itself out, or is not counted out, takes one away.
LEMMA CountedOut ==
  ASSUME TypeOK, NEW d \in Devices, d \in Counted,
         Counted' = Counted \ {d}
  PROVE  /\ Cardinality(Counted) \in Nat
         /\ Cardinality(Counted) > 0
         /\ Cardinality(Counted') = Cardinality(Counted) - 1
<1>1. IsFiniteSet(Counted)
  BY PresenceAssumption, FS_Subset DEF Counted
<1>2. /\ IsFiniteSet(Counted \ {d})
      /\ Cardinality(Counted \ {d}) = Cardinality(Counted) - 1
  BY <1>1, FS_RemoveElement
<1>3. Cardinality(Counted) \in Nat /\ Cardinality(Counted \ {d}) \in Nat
  BY <1>1, <1>2, FS_CardinalityType
<1> QED
  BY <1>2, <1>3, SMT

\* The devices whose handler f has in phase p.
InPhase(f, p) == {d \in Devices : f[d] = p}

\* From f to g, the handler of d moves to phase q.
Moved(f, g, d, q) == g = [f EXCEPT ![d] = q]

\* A handler that moves to phase q leaves the devices of its old phase and
\* joins those of q.
LEMMA PhaseStep ==
  ASSUME NEW f \in [Devices -> Phase], NEW d \in Devices, NEW p, NEW q,
         NEW g, Moved(f, g, d, q)
  PROVE  /\ Cardinality(InPhase(f, p)) \in Nat
         /\ Cardinality(InPhase(g, p)) =
              Cardinality(InPhase(f, p)) - (IF f[d] = p THEN 1 ELSE 0)
                                         + (IF q = p THEN 1 ELSE 0)
<1> DEFINE A == InPhase(f, p)
           B == InPhase(g, p)
<1>1. IsFiniteSet(A)
  BY PresenceAssumption, FS_Subset DEF InPhase
<1>2. Cardinality(A) \in Nat
  BY <1>1, FS_CardinalityType
<1>3. \A e \in Devices : g[e] = IF e = d THEN q ELSE f[e]
  BY DEF Moved
<1>4. CASE f[d] = p /\ q = p
  <2>1. A = B
    BY <1>3, <1>4 DEF InPhase
  <2> QED
    BY <1>2, <1>4, <2>1
<1>5. CASE f[d] = p /\ q # p
  <2>1. d \in A /\ B = A \ {d}
    BY <1>3, <1>5 DEF InPhase
  <2>2. Cardinality(B) = Cardinality(A) - 1
    BY <1>1, <2>1, FS_RemoveElement
  <2> QED
    BY <1>2, <1>5, <2>2
<1>6. CASE f[d] # p /\ q = p
  <2>1. d \notin A /\ B = A \cup {d}
    BY <1>3, <1>6 DEF InPhase
  <2>2. Cardinality(B) = Cardinality(A) + 1
    BY <1>1, <2>1, FS_AddElement
  <2> QED
    BY <1>2, <1>6, <2>2
<1>7. CASE f[d] # p /\ q # p
  <2>1. A = B
    BY <1>3, <1>7 DEF InPhase
  <2> QED
    BY <1>2, <1>7, <2>1
<1> QED
  BY <1>4, <1>5, <1>6, <1>7

CountInv == TypeOK /\ CountAccounted

LEMMA InitCount == Init => CountInv /\ AnnouncedOnce
<1> SUFFICES ASSUME Init PROVE CountInv /\ AnnouncedOnce
  OBVIOUS
<1>1. TypeOK
  <2>1. connections \in Nat /\ lost \in Nat /\ announced \in Int
    BY DEF Init
  <2> QED
    BY <2>1 DEF Init, TypeOK, OnlineModes, Phase, Request
<1>2. /\ Counted = {}
      /\ Sending("sendOnline") = {} /\ Sending("sendOffline") = {}
  BY DEF Init, Counted, Sending
<1>3. Cardinality({}) = 0
  BY FS_EmptySet
<1>4. CountAccounted
  BY <1>2, <1>3 DEF Init, CountAccounted
<1>5. AnnouncedOnce
  BY <1>2, <1>3 DEF Init, AnnouncedOnce
<1> QED
  BY <1>1, <1>4, <1>5 DEF CountInv

\* Each step, by what it does to the count and to the connected devices.
LEMMA StepCount == CountInv /\ [Next]_vars => CountInv'
<1> SUFFICES ASSUME CountInv, [Next]_vars PROVE CountInv'
  OBVIOUS
<1>0. TypeOK /\ connections \in Nat /\ lost \in Nat /\ announced \in Int
  BY DEF CountInv, TypeOK
<1>1. ASSUME NEW d \in Devices, Connect(d) PROVE CountInv'
  <2>1. NextPhase("on", connections + 1, "sendOnline") \in {"on", "sendOnline"}
    BY DEF NextPhase
  <2>2. d \notin Counted /\ Counted' = Counted \cup {d}
    BY <1>0, <1>1, <2>1 DEF Connect, Counted, TypeOK
  <2>3. connections' = connections + 1 /\ lost' = lost
    BY <1>1 DEF Connect
  <2>4. TypeOK'
    BY <1>0, <1>1, <2>1, <2>3 DEF Connect, TypeOK, Phase
  <2>5. /\ Cardinality(Counted) \in Nat
        /\ Cardinality(Counted') = Cardinality(Counted) + 1
    BY <1>0, <2>2, CountedIn
  <2> QED
    BY <1>0, <2>3, <2>4, <2>5, SMT DEF CountInv, CountAccounted
<1>2. ASSUME NEW d \in Devices, Disconnect(d) PROVE CountInv'
  <2>1. NextPhase("off", Decrement(connections), "sendOffline")
          \in {"off", "sendOffline"}
    BY DEF NextPhase
  <2>2. d \in Counted /\ Counted' = Counted \ {d}
    BY <1>0, <1>2, <2>1 DEF Disconnect, Counted, TypeOK
  <2>3. connections' = connections - 1 /\ lost' = lost
    BY <1>2 DEF Disconnect, Decrement
  <2>4. /\ Cardinality(Counted) \in Nat /\ Cardinality(Counted) > 0
        /\ Cardinality(Counted') = Cardinality(Counted) - 1
    BY <1>0, <2>2, CountedOut
  <2>5. connections' \in Nat
    BY <1>0, <2>3, <2>4, SMT DEF CountInv, CountAccounted
  <2>6. TypeOK'
    BY <1>0, <1>2, <2>1, <2>5 DEF Disconnect, TypeOK, Phase
  <2> QED
    BY <1>0, <2>3, <2>4, <2>6, SMT DEF CountInv, CountAccounted
<1>3. ASSUME NEW d \in Devices, Publish(d) PROVE CountInv'
  <2>1. Counted' = Counted
    BY <1>0, <1>3 DEF Publish, Counted, TypeOK
  <2>2. announced' \in Int
    BY <1>0, <1>3 DEF Publish, Message
  <2>3. TypeOK'
    BY <1>0, <1>3, <2>2 DEF Publish, TypeOK, Phase
  <2> QED
    BY <1>3, <2>1, <2>3 DEF Publish, CountInv, CountAccounted
<1>4. ASSUME NEW d \in Devices, Stop(d) PROVE CountInv'
  <2>1. announced' \in Int
    BY <1>0, <1>4 DEF Stop, Message
  <2>2. lost' \in Nat
    BY <1>0, <1>4 DEF Stop
  <2>3. TypeOK' /\ connections' = connections
    BY <1>0, <1>4, <2>1, <2>2 DEF Stop, TypeOK, Phase
  <2>4. CASE d \in Counted
    <3>1. Counted' = Counted \ {d}
      BY <1>0, <1>4 DEF Stop, Counted, TypeOK
    <3>2. /\ Cardinality(Counted) \in Nat
          /\ Cardinality(Counted') = Cardinality(Counted) - 1
      BY <1>0, <2>4, <3>1, CountedOut
    <3>3. lost' = lost + 1
      BY <1>4, <2>4 DEF Stop
    <3> QED
      BY <1>0, <2>3, <3>2, <3>3, SMT DEF CountInv, CountAccounted
  <2>5. CASE d \notin Counted
    <3>1. Counted' = Counted
      BY <1>0, <1>4, <2>5 DEF Stop, Counted, TypeOK
    <3>2. lost' = lost
      BY <1>4, <2>5 DEF Stop
    <3> QED
      BY <2>3, <3>1, <3>2 DEF CountInv, CountAccounted
  <2> QED
    BY <2>4, <2>5
<1>5. ASSUME NEW u \in Settings, ReadPlayer(u) PROVE CountInv'
  <2>1. PICK m \in Modes :
          setting' = [setting EXCEPT ![u] =
              [step |-> "write", mode |-> m,
               tell |-> IsOnline(m, connections) # IsOnline(mode, connections),
               online |-> IsOnline(m, connections)]]
    BY <1>5 DEF ReadPlayer
  <2>2. /\ IsOnline(m, connections) \in BOOLEAN
        /\ (IsOnline(m, connections) # IsOnline(mode, connections)) \in BOOLEAN
    BY DEF IsOnline
  <2>3. [step |-> "write", mode |-> m,
         tell |-> IsOnline(m, connections) # IsOnline(mode, connections),
         online |-> IsOnline(m, connections)] \in Request
    BY <2>2, Zenon DEF Request
  <2>4. UNCHANGED <<connections, device, mode, shown, lost, announced>>
    BY <1>5 DEF ReadPlayer
  <2>5. setting' \in [Settings -> Request]
    BY <1>0, <2>1, <2>3, Zenon DEF TypeOK
  <2> QED
    BY <1>0, <2>4, <2>5 DEF CountInv, TypeOK, CountAccounted, Counted
<1>6. ASSUME NEW u \in Settings, UpdatePlayer(u) PROVE CountInv'
  <2>1. /\ setting[u].mode \in OnlineModes
        /\ setting[u].online \in BOOLEAN
    BY <1>0, <1>6, PresenceAssumption DEF UpdatePlayer, TypeOK, Request
  <2>2. shown' \in BOOLEAN
    BY <1>0, <1>6, <2>1, Zenon DEF UpdatePlayer, TypeOK
  <2>3. setting' \in [Settings -> Request]
    BY <1>0, <1>6 DEF UpdatePlayer, TypeOK, Request
  <2>4. /\ UNCHANGED <<connections, device, lost, announced>>
        /\ mode' \in OnlineModes
    BY <1>6, <2>1 DEF UpdatePlayer
  <2> QED
    BY <1>0, <2>2, <2>3, <2>4
    DEF CountInv, TypeOK, CountAccounted, Counted
<1>7. CASE UNCHANGED vars
  BY <1>7 DEF vars, CountInv, TypeOK, CountAccounted, Counted
<1> QED
  BY <1>1, <1>2, <1>3, <1>4, <1>5, <1>6, <1>7 DEF Next

\* Each step, by the message it adds to those under way or takes from them.
LEMMA StepAnnounced ==
  CountInv /\ AnnouncedOnce /\ [Next]_vars => AnnouncedOnce'
<1> SUFFICES ASSUME CountInv, AnnouncedOnce, [Next]_vars PROVE AnnouncedOnce'
  OBVIOUS
<1> DEFINE On == Cardinality(Sending("sendOnline"))
           Off == Cardinality(Sending("sendOffline"))
<1>0. TypeOK /\ connections \in Nat /\ lost \in Nat /\ announced \in Int
  BY DEF CountInv, TypeOK
<1>8. /\ On = Cardinality(InPhase(device, "sendOnline"))
      /\ Off = Cardinality(InPhase(device, "sendOffline"))
      /\ On' = Cardinality(InPhase(device', "sendOnline"))
      /\ Off' = Cardinality(InPhase(device', "sendOffline"))
  BY DEF Sending, InPhase
<1>9. device \in [Devices -> Phase]
  BY <1>0 DEF TypeOK
<1>1. ASSUME NEW d \in Devices, Connect(d) PROVE AnnouncedOnce'
  <2>1. /\ device[d] = "off"
        /\ connections' = connections + 1 /\ announced' = announced
    BY <1>1 DEF Connect
  <2>2. /\ On \in Nat /\ Off \in Nat
        /\ On' = On + (IF connections = 0 THEN 1 ELSE 0)
        /\ Off' = Off
    <3>1. CASE connections = 0
      <4>1. Moved(device, device', d, "sendOnline")
        BY <1>1, <3>1 DEF Connect, NextPhase, Moved
      <4> QED
        BY <1>8, <1>9, <2>1, <3>1, <4>1, PhaseStep
    <3>2. CASE connections # 0
      <4>1. Moved(device, device', d, "on")
        <5>1. connections + 1 # 1
          BY <1>0, <3>2, SMT
        <5> QED
          BY <1>1, <5>1 DEF Connect, NextPhase, Moved
      <4> QED
        BY <1>8, <1>9, <2>1, <3>2, <4>1, PhaseStep
    <3> QED
      BY <3>1, <3>2
  <2> QED
    BY <1>0, <2>1, <2>2, SMT DEF AnnouncedOnce
<1>2. ASSUME NEW d \in Devices, Disconnect(d) PROVE AnnouncedOnce'
  <2>1. /\ device[d] = "on"
        /\ connections' = connections - 1 /\ announced' = announced
    BY <1>2 DEF Disconnect, Decrement
  <2>2. /\ On \in Nat /\ Off \in Nat
        /\ On' = On
        /\ Off' = Off + (IF connections = 1 THEN 1 ELSE 0)
    <3>1. CASE connections = 1
      <4>1. Moved(device, device', d, "sendOffline")
        BY <1>2, <3>1 DEF Disconnect, Decrement, NextPhase, Moved
      <4> QED
        BY <1>8, <1>9, <2>1, <3>1, <4>1, PhaseStep
    <3>2. CASE connections # 1
      <4>1. Moved(device, device', d, "off")
        <5>1. connections - 1 # 0
          BY <1>0, <3>2, SMT
        <5> QED
          BY <1>2, <5>1 DEF Disconnect, Decrement, NextPhase, Moved
      <4> QED
        BY <1>8, <1>9, <2>1, <3>2, <4>1, PhaseStep
    <3> QED
      BY <3>1, <3>2
  <2>3. d \in Counted
    BY <2>1 DEF Counted
  <2>4. Cardinality(Counted) \in Nat /\ Cardinality(Counted) > 0
    <3>1. IsFiniteSet(Counted)
      BY PresenceAssumption, FS_Subset DEF Counted
    <3> QED
      BY <2>3, <3>1, FS_CardinalityType, FS_EmptySet, SMT
  <2>5. connections > 0
    BY <1>0, <2>4, SMT DEF CountInv, CountAccounted
  <2> QED
    BY <1>0, <2>1, <2>2, <2>5, SMT DEF AnnouncedOnce
<1>3. ASSUME NEW d \in Devices, Publish(d) PROVE AnnouncedOnce'
  <2> DEFINE q == IF device[d] = "sendOnline" THEN "on" ELSE "off"
  <2>1. /\ device[d] \in {"sendOnline", "sendOffline"}
        /\ Moved(device, device', d, q)
        /\ connections' = connections
        /\ announced' = announced
             + (IF device[d] = "sendOnline" THEN 1 ELSE 0)
             - (IF device[d] = "sendOffline" THEN 1 ELSE 0)
    BY <1>0, <1>3 DEF Publish, Message, TypeOK, Moved
  <2>2. /\ On \in Nat /\ Off \in Nat
        /\ On' = On - (IF device[d] = "sendOnline" THEN 1 ELSE 0)
        /\ Off' = Off - (IF device[d] = "sendOffline" THEN 1 ELSE 0)
    <3>1. /\ On \in Nat
          /\ On' = On - (IF device[d] = "sendOnline" THEN 1 ELSE 0)
      BY <1>8, <1>9, <2>1, PhaseStep
    <3>2. /\ Off \in Nat
          /\ Off' = Off - (IF device[d] = "sendOffline" THEN 1 ELSE 0)
      BY <1>8, <1>9, <2>1, PhaseStep
    <3> QED
      BY <3>1, <3>2
  <2> QED
    BY <1>0, <2>1, <2>2, SMT DEF AnnouncedOnce
<1>4. ASSUME NEW d \in Devices, Stop(d) PROVE AnnouncedOnce'
  <2>1. /\ Moved(device, device', d, "off")
        /\ connections' = connections
        /\ announced' = announced
             + (IF device[d] = "sendOnline" THEN 1 ELSE 0)
             - (IF device[d] = "sendOffline" THEN 1 ELSE 0)
    BY <1>0, <1>4 DEF Stop, Message, Moved
  <2>2. /\ On \in Nat /\ Off \in Nat
        /\ On' = On - (IF device[d] = "sendOnline" THEN 1 ELSE 0)
        /\ Off' = Off - (IF device[d] = "sendOffline" THEN 1 ELSE 0)
    BY <1>8, <1>9, <2>1, PhaseStep
  <2> QED
    BY <1>0, <2>1, <2>2, SMT DEF AnnouncedOnce
<1>5. ASSUME NEW u \in Settings, ReadPlayer(u) PROVE AnnouncedOnce'
  BY <1>5 DEF ReadPlayer, AnnouncedOnce, Sending
<1>6. ASSUME NEW u \in Settings, UpdatePlayer(u) PROVE AnnouncedOnce'
  BY <1>6 DEF UpdatePlayer, AnnouncedOnce, Sending
<1>7. CASE UNCHANGED vars
  BY <1>7 DEF vars, AnnouncedOnce, Sending
<1> QED
  BY <1>1, <1>2, <1>3, <1>4, <1>5, <1>6, <1>7 DEF Next

\* The count and the states of the handlers and requests are well formed; the
\* count is never negative.
THEOREM PresenceTypeCorrect == Spec => []TypeOK
<1>1. Init => CountInv
  BY InitCount
<1>2. CountInv => TypeOK
  BY DEF CountInv
<1> QED
  BY <1>1, StepCount, <1>2, PTL DEF Spec

\* The count is the number of connected devices and of the handlers that
\* stopped before their decrement, although handlers run concurrently.
THEOREM Accounting == Spec => []CountAccounted
<1>1. Init => CountInv
  BY InitCount
<1>2. CountInv => CountAccounted
  BY DEF CountInv
<1> QED
  BY <1>1, StepCount, <1>2, PTL DEF Spec

\* However the handlers interleave, exactly one announces that the player came
\* online and exactly one that he left.
THEOREM Announcing == Spec => []AnnouncedOnce
<1>1. Init => CountInv /\ AnnouncedOnce
  BY InitCount
<1> QED
  BY <1>1, StepCount, StepAnnounced, PTL DEF Spec
=============================================================================
