------------------------- MODULE Subscription_proofs -------------------------
(***************************************************************************)
(* Theorems about Subscription for any number of messages, with and        *)
(* without failures.                                                       *)
(***************************************************************************)
EXTENDS Subscription, SequenceTheorems, TLAPS

\* The task runs once it is started; until it sends its error, which it will
\* do once, the buffer is empty.
Errorless ==
    /\ handler = "subscribe" => task = "none"
    /\ task \in {"none", "check", "receive", "send"} => errors = << >>

Written == {written[j] : j \in 1 .. Len(written)} \ {Zero}

\* The message that the handler writes, the one that the task sends and those
\* of the connection are the ones after the first k, which have been written.
Writing == IF handler = "write" /\ got # Zero THEN 1 ELSE 0

Sending == IF task = "send" THEN 1 ELSE 0

Chain(k) ==
    /\ Written = 1 .. k
    /\ Writing = 1 => got = k + 1
    /\ Sending = 1 => held = k + Writing + 1
    /\ \A i \in 1 .. Len(inbox) : inbox[i] = k + Writing + Sending + i
    /\ ~ broken /\ task \notin {"close", "done"} =>
          published = k + Writing + Sending + Len(inbox)

\* A handler that is on its way out has dropped messages, and writes no more.
Chained ==
    handler \notin {"deferred", "close", "returned"} => \E k \in Nat : Chain(k)

SubscriptionInv == Errorless /\ Chained /\ InOrder
-----------------------------------------------------------------------------
(* Lemmas about sequences of messages. *)

LEMMA Appended ==
  ASSUME NEW S, NEW s \in Seq(S), NEW x \in S
  PROVE  /\ Append(s, x) \in Seq(S)
         /\ Len(Append(s, x)) = Len(s) + 1 /\ Len(s) \in Nat
         /\ \A i \in 1 .. Len(s) : Append(s, x)[i] = s[i]
         /\ Append(s, x)[Len(s) + 1] = x
  OBVIOUS

LEMMA Received ==
  ASSUME NEW S, NEW s \in Seq(S), s # << >>
  PROVE  /\ Head(s) \in S /\ Head(s) = s[1] /\ 1 \in 1 .. Len(s)
         /\ Tail(s) \in Seq(S) /\ Len(Tail(s)) = Len(s) - 1
         /\ Len(s) \in Nat
         /\ \A i \in 1 .. Len(Tail(s)) : Tail(s)[i] = s[i + 1]
  BY HeadTailProperties, EmptySeq

LEMMA Empty == \A S : << >> \in Seq(S) /\ Len(<< >>) = 0
  BY EmptySeq
-----------------------------------------------------------------------------
(* The types. The channel of errors always has room for the one error that   *)
(* the task sends, because it then goes to its end.                          *)

LEMMA InitTypes == Init => TypeOK /\ Errorless
<1> SUFFICES ASSUME Init PROVE TypeOK /\ Errorless
  OBVIOUS
<1>1. 0 \in 0 .. MaxMessages
  BY SubscriptionAssumption
<1>2. inbox \in Seq(1 .. MaxMessages) /\ written \in Seq(0 .. MaxMessages)
  BY Empty DEF Init
<1>3. errors \in {<< >>, <<"done">>, <<"redis">>}
  BY Zenon DEF Init
<1>4. closed \subseteq {"errors", "messages"} /\ Errorless
  BY DEF Init, Errorless
<1> QED
  BY <1>1, <1>2, <1>3, <1>4
  DEF Init, TypeOK, TaskSteps, HandlerSteps, RoutineSteps, Zero

LEMMA TypeStep ==
  ASSUME TypeOK, Errorless, Next
  PROVE  TypeOK' /\ Errorless'
<1>1. /\ MaxMessages \in Nat /\ published \in Nat /\ 0 \in 0 .. MaxMessages
      /\ 1 .. MaxMessages \subseteq 0 .. MaxMessages
  BY SubscriptionAssumption DEF TypeOK
<1>2. CASE Publish
  <2>1. published + 1 \in 0 .. MaxMessages /\ published + 1 \in 1 .. MaxMessages
    BY <1>1, <1>2 DEF Publish
  <2>2. inbox' \in Seq(1 .. MaxMessages)
    BY <1>2, <2>1, Appended DEF Publish, TypeOK
  <2> QED
    BY <1>2, <2>1, <2>2 DEF Publish, TypeOK, Errorless
<1>3. CASE BreakConnection \/ ClientLeaves \/ EndContext \/ TellShutdown
           \/ TellOthers
  BY <1>3
  DEF BreakConnection, ClientLeaves, EndContext, TellShutdown, TellOthers,
      outside, TypeOK, RoutineSteps, Errorless
<1>4. CASE CheckDone
  <2>1. /\ errors' = IF cancelled THEN <<"done">> ELSE errors
        /\ task' = IF cancelled THEN "cleanup" ELSE "receive"
    BY <1>4 DEF CheckDone, Errorless
  <2>2. errors' \in {<< >>, <<"done">>, <<"redis">>} /\ task' \in TaskSteps
    BY <2>1 DEF TypeOK, TaskSteps
  <2>3. Errorless'
    BY <1>4, <2>1 DEF CheckDone, Errorless
  <2> QED
    BY <1>4, <2>2, <2>3 DEF CheckDone, outside, TypeOK
<1>5. CASE Receive
  <2>1. held' \in 0 .. MaxMessages /\ inbox' \in Seq(1 .. MaxMessages)
    BY <1>1, <1>5, Received DEF Receive, TypeOK
  <2> QED
    BY <1>5, <2>1 DEF Receive, outside, TypeOK, TaskSteps, Errorless
<1>6. CASE ReceiveError
  <2>1. errors' = <<"redis">>
    BY <1>6 DEF ReceiveError, Errorless
  <2> QED
    BY <1>6, <2>1 DEF ReceiveError, outside, TypeOK, TaskSteps, Errorless
<1>7. CASE CloseErrors
  <2>1. inbox' \in Seq(1 .. MaxMessages)
    BY <1>7, Empty DEF CloseErrors
  <2> QED
    BY <1>7, <2>1 DEF CloseErrors, outside, TypeOK, TaskSteps, Errorless
<1>8. CASE CloseMessages
  BY <1>8 DEF CloseMessages, outside, TypeOK, TaskSteps, Errorless
<1>9. CASE Subscribe
  <2>1. CASE /\ handler' = "setup" /\ task' = "check" /\ closed' = closed
             /\ stream' = stream
    <3>1. Errorless'
      BY <1>9, <2>1 DEF Subscribe, Errorless, TypeOK
    <3> QED
      BY <1>9, <2>1, <3>1
      DEF Subscribe, outside, TypeOK, TaskSteps, HandlerSteps
  <2>2. CASE /\ handler' = "close" /\ task' = "done" /\ stream' = FALSE
             /\ closed' = {"errors", "messages"}
    BY <1>9, <2>2
    DEF Subscribe, outside, TypeOK, TaskSteps, HandlerSteps, Errorless
  <2> QED
    BY <1>9, <2>1, <2>2 DEF Subscribe
<1>10. CASE SetUp
  <2>1. handler' \in HandlerSteps
    BY <1>10 DEF SetUp, HandlerSteps
  <2> QED
    BY <1>10, <2>1 DEF SetUp, outside, TypeOK, Errorless
<1>11. CASE Loop
  <2>1. handler' \in HandlerSteps
    BY <1>11 DEF Loop, HandlerSteps
  <2> QED
    BY <1>11, <2>1 DEF Loop, outside, TypeOK, Errorless
<1>12. CASE TakeMessage
  BY <1>12 DEF TakeMessage, outside, TypeOK, TaskSteps, HandlerSteps, Errorless
<1>13. CASE TakeFromClosed
  BY <1>1, <1>13
  DEF TakeFromClosed, outside, TypeOK, HandlerSteps, Errorless, Zero
<1>14. CASE TakeError
  <2>1. Tail(<<"done">>) = << >> /\ Tail(<<"redis">>) = << >>
    OBVIOUS
  <2>2. errors' = << >>
    <3>1. CASE errors = << >>
      BY <1>14, <3>1 DEF TakeError
    <3>2. CASE errors = <<"done">> \/ errors = <<"redis">>
      <4>1. errors # << >>
        BY <3>2
      <4> QED
        BY <1>14, <2>1, <3>2, <4>1 DEF TakeError
    <3> QED
      BY <3>1, <3>2 DEF TypeOK
  <2> QED
    BY <1>14, <2>2 DEF TakeError, outside, TypeOK, HandlerSteps, Errorless
<1>15. CASE TakeShutdown \/ PollInterval
  BY <1>15
  DEF TakeShutdown, PollInterval, outside, TypeOK, HandlerSteps, RoutineSteps,
      Errorless
<1>16. CASE WriteMessageToStream
  <2>1. Append(written, got) \in Seq(0 .. MaxMessages)
    BY Appended DEF TypeOK
  <2>2. /\ written' = IF stream THEN Append(written, got) ELSE written
        /\ handler' = IF stream THEN "loop" ELSE "deferred"
    BY <1>16 DEF WriteMessageToStream
  <2>3. written' \in Seq(0 .. MaxMessages) /\ handler' \in HandlerSteps
    BY <2>1, <2>2 DEF TypeOK, HandlerSteps
  <2>4. Errorless'
    BY <1>16, <2>2 DEF WriteMessageToStream, Errorless
  <2> QED
    BY <1>16, <2>3, <2>4 DEF WriteMessageToStream, outside, TypeOK, Errorless
<1>17. CASE Return \/ CloseClient
  BY <1>17 DEF Return, CloseClient, outside, TypeOK, HandlerSteps, Errorless
<1> QED
  BY <1>2, <1>3, <1>4, <1>5, <1>6, <1>7, <1>8, <1>9, <1>10, <1>11, <1>12,
     <1>13, <1>14, <1>15, <1>16, <1>17 DEF Next, Task, Handler, Select
-----------------------------------------------------------------------------
(* The order.  A message passes from the connection to the task, from the    *)
(* task to the handler and from the handler to the stream, each hop keeping  *)
(* the chain; only the last one makes it start one message later.            *)

LEMMA InitChain == Init => Chained /\ InOrder
<1> SUFFICES ASSUME Init PROVE Chained /\ InOrder
  OBVIOUS
<1>1. Len(written) = 0 /\ Len(inbox) = 0
  BY Empty DEF Init
<1>2. Written = 1 .. 0 /\ InOrder
  BY <1>1 DEF Written, InOrder
<1>3. Writing = 0 /\ Sending = 0
  BY DEF Init, Writing, Sending
<1>4. Chain(0)
  BY <1>1, <1>2, <1>3 DEF Chain, Init
<1> QED
  BY <1>2, <1>4 DEF Chained

\* Only the handler writes: no other step can bring what is written out of
\* order.
LEMMA Unwritten ==
  ASSUME written' = written
  PROVE  Written' = Written /\ InOrder' = InOrder
  BY DEF Written, InOrder

\* What becomes of a message outside the stream.
LEMMA ChainKept ==
  ASSUME TypeOK, Errorless, Chained, Next, ~ WriteMessageToStream
  PROVE  Chained' /\ written' = written
<1>1. written' = written
  BY DEF Next, Task, Handler, Select, Publish, BreakConnection, ClientLeaves,
         EndContext, TellShutdown, TellOthers, CheckDone, Receive,
         ReceiveError,
         CloseErrors, CloseMessages, Subscribe, SetUp, Loop, TakeMessage,
         TakeFromClosed, TakeError, TakeShutdown, PollInterval, Return,
         CloseClient
<1>2. Written' = Written
  BY <1>1, Unwritten
<1>3. handler \in {"deferred", "close", "returned"} =>
          handler' \in {"deferred", "close", "returned"}
  BY DEF Next, Task, Handler, Select, Publish, BreakConnection, ClientLeaves,
         EndContext, TellShutdown, TellOthers, CheckDone, Receive,
         ReceiveError,
         CloseErrors, CloseMessages, Subscribe, SetUp, Loop, TakeMessage,
         TakeFromClosed, TakeError, TakeShutdown, PollInterval,
         WriteMessageToStream, Return, CloseClient, outside
<1> SUFFICES ASSUME handler' \notin {"deferred", "close", "returned"}
             PROVE  \E k \in Nat : Chain(k)'
  BY <1>1 DEF Chained
<1>4. PICK k \in Nat : Chain(k)
  BY <1>3 DEF Chained
<1>5. Len(inbox) \in Nat /\ published \in Nat
  BY LenProperties, SubscriptionAssumption DEF TypeOK
<1>6. CASE Publish
  <2>1. Writing' = Writing /\ Sending' = Sending /\ Writing \in {0, 1}
        /\ Sending \in {0, 1}
    BY <1>6 DEF Publish, Writing, Sending
  <2>2. CASE broken \/ task \in {"close", "done"}
    BY <1>2, <1>4, <1>6, <2>1, <2>2 DEF Publish, Chain
  <2>3. CASE ~ (broken \/ task \in {"close", "done"})
    <3>1. inbox' = Append(inbox, published + 1) /\ published' = published + 1
      BY <1>6, <2>3 DEF Publish
    <3>2. published + 1 \in 1 .. MaxMessages
      BY <1>5, <1>6, SubscriptionAssumption DEF Publish
    <3>3. /\ Len(inbox') = Len(inbox) + 1
          /\ \A i \in 1 .. Len(inbox) : inbox'[i] = inbox[i]
          /\ inbox'[Len(inbox) + 1] = published + 1
      BY <3>1, <3>2, Appended DEF TypeOK
    <3>4. published = k + Writing + Sending + Len(inbox)
      BY <1>4, <2>3 DEF Chain
    <3>5. \A i \in 1 .. Len(inbox') : inbox'[i] = k + Writing + Sending + i
      BY <1>4, <1>5, <2>1, <3>3, <3>4 DEF Chain
    <3>6. published' = k + Writing + Sending + Len(inbox')
      BY <1>5, <2>1, <3>1, <3>3, <3>4
    <3>7. got' = got /\ held' = held
      BY <1>6 DEF Publish
    <3> QED
      BY <1>2, <1>4, <2>1, <3>5, <3>6, <3>7 DEF Chain
  <2> QED
    BY <2>2, <2>3
<1>7. CASE BreakConnection \/ ClientLeaves \/ EndContext \/ TellShutdown
           \/ TellOthers
  <2>1. Writing' = Writing /\ Sending' = Sending
    BY <1>7
    DEF BreakConnection, ClientLeaves, EndContext, TellShutdown, TellOthers,
        outside, Writing, Sending
  <2> QED
    BY <1>2, <1>4, <1>7, <2>1
    DEF BreakConnection, ClientLeaves, EndContext, TellShutdown, TellOthers,
        outside, Chain
<1>8. CASE CheckDone \/ ReceiveError \/ CloseMessages
  <2>1. Writing' = Writing /\ Sending' = 0 /\ Sending = 0
    BY <1>8 DEF CheckDone, ReceiveError, CloseMessages, Writing, Sending
  <2> QED
    BY <1>2, <1>4, <1>8, <2>1
    DEF CheckDone, ReceiveError, CloseMessages, outside, Chain
<1>9. CASE Receive
  <2>1. /\ Writing' = Writing /\ Writing \in {0, 1}
        /\ Sending' = 1 /\ Sending = 0
    BY <1>9 DEF Receive, Writing, Sending
  <2>2. /\ held' = inbox[1] /\ 1 \in 1 .. Len(inbox)
        /\ Len(inbox') = Len(inbox) - 1
        /\ \A i \in 1 .. Len(inbox') : inbox'[i] = inbox[i + 1]
    BY <1>9, Received DEF Receive, TypeOK
  <2>3. held' = k + Writing + 1
    BY <1>4, <2>1, <2>2 DEF Chain
  <2>4. \A i \in 1 .. Len(inbox') : inbox'[i] = k + Writing + 1 + i
    <3>1. SUFFICES ASSUME NEW i \in 1 .. Len(inbox')
                   PROVE  inbox'[i] = k + Writing + 1 + i
      OBVIOUS
    <3>2. i + 1 \in 1 .. Len(inbox) /\ inbox'[i] = inbox[i + 1]
      BY <1>5, <2>2
    <3> QED
      BY <1>4, <2>1, <3>2 DEF Chain
  <2>5. ~ broken /\ task \notin {"close", "done"} =>
            published = k + Writing + 1 + Len(inbox')
    BY <1>4, <1>5, <2>1, <2>2 DEF Chain
  <2>6. /\ got' = got /\ published' = published /\ broken' = broken
        /\ task \notin {"close", "done"}
    BY <1>9 DEF Receive, outside
  <2> QED
    BY <1>2, <1>4, <2>1, <2>3, <2>4, <2>5, <2>6 DEF Chain
<1>10. CASE CloseErrors
  <2>1. Writing' = Writing /\ Sending' = 0 /\ Len(inbox') = 0
        /\ task' = "close" /\ got' = got
    BY <1>10, Empty DEF CloseErrors, Writing, Sending
  <2> QED
    BY <1>2, <1>4, <2>1 DEF Chain
<1>11. CASE Subscribe \/ SetUp \/ Loop \/ PollInterval
  <2>1. /\ Writing' = 0 /\ Writing = 0 /\ Sending' = Sending
        /\ task' # task => task' = "check" /\ task = "none"
    BY <1>11
    DEF Subscribe, SetUp, Loop, PollInterval, Writing, Sending, Errorless
  <2> QED
    BY <1>2, <1>4, <1>11, <2>1
    DEF Subscribe, SetUp, Loop, PollInterval, outside, Chain
<1>12. CASE TakeMessage
  <2>1. Writing = 0 /\ Sending = 1 /\ Sending' = 0
    BY <1>12 DEF TakeMessage, Writing, Sending
  <2>2. got' = k + 1 /\ got' # Zero
    BY <1>4, <1>12, <2>1 DEF TakeMessage, Chain, Zero
  <2>3. Writing' = 1
    BY <1>12, <2>2 DEF TakeMessage, Writing
  <2> QED
    BY <1>2, <1>4, <1>12, <2>1, <2>2, <2>3 DEF TakeMessage, outside, Chain
<1>13. CASE TakeFromClosed
  <2>1. Writing = 0 /\ Writing' = 0 /\ Sending' = Sending
    BY <1>13 DEF TakeFromClosed, Writing, Sending
  <2> QED
    BY <1>2, <1>4, <1>13, <2>1 DEF TakeFromClosed, outside, Chain
<1>14. ~ (TakeError \/ TakeShutdown \/ Return \/ CloseClient)
  BY DEF TakeError, TakeShutdown, Return, CloseClient
<1> QED
  BY <1>6, <1>7, <1>8, <1>9, <1>10, <1>11, <1>12, <1>13, <1>14
  DEF Next, Task, Handler, Select

\* The handler writes a message: the next one in the chain, or the zero one.
LEMMA ChainWritten ==
  ASSUME TypeOK, Chained, InOrder, WriteMessageToStream
  PROVE  Chained' /\ InOrder'
<1>1. CASE ~ stream
  BY <1>1, Unwritten DEF WriteMessageToStream, Chained
<1>2. CASE stream
  <2>1. /\ written' = Append(written, got) /\ handler = "write"
        /\ handler' = "loop"
    BY <1>2 DEF WriteMessageToStream
  <2>2. PICK k \in Nat : Chain(k)
    BY <2>1 DEF Chained
  <2>3. /\ Len(written') = Len(written) + 1 /\ Len(written) \in Nat
        /\ \A i \in 1 .. Len(written) : written'[i] = written[i]
        /\ written'[Len(written) + 1] = got
    BY <2>1, Appended DEF TypeOK
  <2>4. Written' = (Written \cup {got}) \ {Zero}
    BY <2>3 DEF Written
  <2>5. \A i \in 1 .. Len(written) + 1 :
            {written'[j] : j \in 1 .. i - 1} = {written[j] : j \in 1 .. i - 1}
    BY <2>3
  <2>6. ASSUME got # Zero =>
                 {written[j] : j \in 1 .. Len(written)} \ {Zero} = 1 .. got - 1
        PROVE  InOrder'
    <3>1. SUFFICES ASSUME NEW i \in 1 .. Len(written) + 1, written'[i] # Zero
                   PROVE  {written'[j] : j \in 1 .. i - 1} \ {Zero}
                              = 1 .. written'[i] - 1
      BY <2>3 DEF InOrder
    <3>2. CASE i \in 1 .. Len(written)
      BY <2>3, <2>5, <3>1, <3>2 DEF InOrder
    <3>3. CASE i = Len(written) + 1
      <4>1. i - 1 = Len(written) /\ written'[i] = got
        BY <2>3, <3>3
      <4> QED
        BY <2>5, <2>6, <3>1, <4>1
    <3> QED
      BY <2>3, <3>2, <3>3
  <2>7. /\ Writing' = 0 /\ Sending' = Sending /\ Sending \in {0, 1}
        /\ held' = held /\ inbox' = inbox /\ published' = published
        /\ broken' = broken /\ task' = task
    BY <1>2 DEF WriteMessageToStream, outside, Writing, Sending
  <2>8. CASE got = Zero
    <3>1. Writing = 0 /\ Written' = Written
      BY <2>4, <2>8 DEF Writing, Written
    <3>2. Chain(k)'
      BY <2>2, <2>7, <3>1 DEF Chain
    <3>3. InOrder'
      BY <2>8, <2>6
    <3> QED
      BY <3>2, <3>3 DEF Chained
  <2>9. CASE got # Zero
    <3>1. Writing = 1 /\ got = k + 1 /\ Written = 1 .. k
      BY <2>1, <2>2, <2>9 DEF Writing, Chain
    <3>2. Written' = 1 .. k + 1
      BY <2>4, <3>1 DEF Zero
    <3>3. Chain(k + 1)'
      BY <2>2, <2>7, <3>1, <3>2, LenProperties DEF Chain, TypeOK
    <3>4. {written[j] : j \in 1 .. Len(written)} \ {Zero} = 1 .. got - 1
      BY <3>1 DEF Written
    <3>5. InOrder'
      BY <2>6, <3>4
    <3> QED
      BY <3>3, <3>5 DEF Chained
  <2> QED
    BY <2>8, <2>9
<1> QED
  BY <1>1, <1>2
-----------------------------------------------------------------------------
\* Neither the task nor the handler leaves the values of its fields, and the
\* task never waits to send an error: subscribeTask sends one at most, into a
\* channel that has room for it.
THEOREM SubscriptionTypeCorrect == Spec => []TypeOK
<1>1. TypeOK /\ Errorless /\ UNCHANGED vars => TypeOK' /\ Errorless'
  BY DEF vars, TypeOK, Errorless
<1> QED
  BY <1>1, InitTypes, TypeStep, PTL DEF Spec

LEMMA AlwaysChained == Spec => [](TypeOK /\ SubscriptionInv)
<1>1. ASSUME TypeOK, SubscriptionInv, Next
      PROVE  TypeOK' /\ SubscriptionInv'
  <2>1. TypeOK' /\ Errorless'
    BY <1>1, TypeStep DEF SubscriptionInv
  <2>2. CASE WriteMessageToStream
    BY <1>1, <2>1, <2>2, ChainWritten DEF SubscriptionInv
  <2>3. CASE ~ WriteMessageToStream
    <3>1. Chained' /\ written' = written
      BY <1>1, <2>3, ChainKept DEF SubscriptionInv
    <3>2. InOrder'
      BY <1>1, <3>1, Unwritten DEF SubscriptionInv
    <3> QED
      BY <2>1, <3>1, <3>2 DEF SubscriptionInv
  <2> QED
    BY <2>2, <2>3
<1>2. ASSUME TypeOK, SubscriptionInv, UNCHANGED vars
      PROVE  TypeOK' /\ SubscriptionInv'
  <2>1. TypeOK' /\ Errorless' /\ InOrder'
    BY <1>2, Unwritten DEF vars, TypeOK, SubscriptionInv, Errorless
  <2>2. /\ Written' = Written /\ Writing' = Writing /\ Sending' = Sending
        /\ handler' = handler
    BY <1>2 DEF vars, Written, Writing, Sending
  <2>3. \A k \in Nat : Chain(k) => Chain(k)'
    BY <1>2, <2>2 DEF vars, Chain
  <2>4. Chained'
    BY <1>2, <2>2, <2>3 DEF SubscriptionInv, Chained
  <2> QED
    BY <2>1, <2>4 DEF SubscriptionInv
<1>3. Init => TypeOK /\ SubscriptionInv
  BY InitTypes, InitChain DEF SubscriptionInv
<1> QED
  BY <1>1, <1>2, <1>3, PTL DEF Spec

\* The client's stream shows the messages of the game in the order in which
\* they were published, with no gap and no repetition, in every interleaving of
\* subscribeTask and handleSubscription and whatever fails.
THEOREM MessagesInOrder == Spec => []InOrder
<1>1. SubscriptionInv => InOrder
  BY DEF SubscriptionInv
<1> QED
  BY <1>1, AlwaysChained, PTL

\* What EveryMessageWritten, which is liveness, rests on: while the connection
\* holds and the handler is in its loop, a message that was published has been
\* written, or is held by the handler or by the task, or waits on the
\* connection. None is dropped between the two goroutines.
THEOREM NothingLost ==
  Spec =>
      [](/\ handler \notin {"deferred", "close", "returned"}
         /\ ~ broken /\ task \notin {"close", "done"}
         => \A n \in 1 .. published :
                \/ \E i \in 1 .. Len(written) : written[i] = n
                \/ handler = "write" /\ got = n
                \/ task = "send" /\ held = n
                \/ \E i \in 1 .. Len(inbox) : inbox[i] = n)
<1> DEFINE Somewhere(n) == \/ \E i \in 1 .. Len(written) : written[i] = n
                           \/ handler = "write" /\ got = n
                           \/ task = "send" /\ held = n
                           \/ \E i \in 1 .. Len(inbox) : inbox[i] = n
<1>1. TypeOK /\ SubscriptionInv =>
          (/\ handler \notin {"deferred", "close", "returned"}
           /\ ~ broken /\ task \notin {"close", "done"}
           => \A n \in 1 .. published : Somewhere(n))
  <2> SUFFICES ASSUME TypeOK, SubscriptionInv,
                      handler \notin {"deferred", "close", "returned"},
                      ~ broken, task \notin {"close", "done"},
                      NEW n \in 1 .. published
               PROVE  Somewhere(n)
    OBVIOUS
  <2>1. PICK k \in Nat : Chain(k)
    BY DEF SubscriptionInv, Chained
  <2>2. /\ Len(inbox) \in Nat /\ Writing \in {0, 1} /\ Sending \in {0, 1}
        /\ published = k + Writing + Sending + Len(inbox)
        /\ n \in Nat /\ n > 0
    BY <2>1, LenProperties DEF Chain, TypeOK, Writing, Sending
  <2>3. CASE n <= k
    <3>1. n \in Written
      BY <2>1, <2>2, <2>3 DEF Chain
    <3> QED
      BY <3>1 DEF Written
  <2>4. CASE n = k + 1 /\ Writing = 1
    BY <2>1, <2>4 DEF Chain, Writing
  <2>5. CASE n = k + Writing + 1 /\ Sending = 1
    BY <2>1, <2>5 DEF Chain, Sending
  <2>6. CASE n > k + Writing + Sending
    <3>1. PICK i : i = n - (k + Writing + Sending)
      OBVIOUS
    <3>2. i \in 1 .. Len(inbox) /\ n = k + Writing + Sending + i
      BY <2>2, <2>6, <3>1
    <3>3. inbox[i] = n
      BY <2>1, <3>2 DEF Chain
    <3> QED
      BY <3>2, <3>3
  <2> QED
    BY <2>2, <2>3, <2>4, <2>5, <2>6
<1> QED
  BY <1>1, AlwaysChained, PTL

\* A task that is receiving when its handler has ended is left behind for good:
\* as long as the connection holds it does not get to its cleanup, for the next
\* message makes it wait for a handler to send it to. The comment on
\* subscribeTask (game/subscribe.go:30) has it stay "until the next event or
\* update is sent in the game", and says that the leak "is not indefinite".
THEOREM TaskLeftBehind ==
  Spec =>
      [][/\ handler \in {"close", "returned"} /\ task \in {"receive", "send"}
         /\ task = "receive" => ~ broken
         => /\ handler' \in {"close", "returned"}
            /\ task' \in {"receive", "send"}
            /\ task = "send" => task' = "send"]_vars
<1>1. [Next]_vars =>
          [/\ handler \in {"close", "returned"} /\ task \in {"receive", "send"}
           /\ task = "receive" => ~ broken
           => /\ handler' \in {"close", "returned"}
              /\ task' \in {"receive", "send"}
              /\ task = "send" => task' = "send"]_vars
  BY DEF Next, Task, Handler, Select, Publish, BreakConnection, ClientLeaves,
         EndContext, TellShutdown, TellOthers, CheckDone, Receive,
         ReceiveError,
         CloseErrors, CloseMessages, Subscribe, SetUp, Loop, TakeMessage,
         TakeFromClosed, TakeError, TakeShutdown, PollInterval,
         WriteMessageToStream, Return, CloseClient, outside
<1> QED
  BY <1>1, PTL DEF Spec
=============================================================================
