---------------------------- MODULE Subscription ----------------------------
(***************************************************************************)
(* One game subscription: the goroutine that reads the game's channels     *)
(* from Redis (game/subscribe.go), the handler that writes what it reads   *)
(* to the client's event stream (routes/gameSubscription.go), and the two  *)
(* Go channels between them: "messages", without a buffer, and "errors",   *)
(* with a buffer of one.  The routine of shutdownHandler is there as far   *)
(* as this handler meets it: without a buffer either, it waits for the     *)
(* handler to be told, and the handler waits for it to be rid of its       *)
(* client.  (Shutdown has the routine whole.)                              *)
(*                                                                         *)
(* Messages are numbered in the order in which the game publishes them; a  *)
(* receive from the closed channel yields the zero Message.                *)
(***************************************************************************)
EXTENDS Naturals, Sequences

CONSTANTS
    MaxMessages,    \* bound: the messages published while subscribed
    MaxWritten,     \* bound: no zero Message is taken when so many are written
    Faults          \* TRUE: Redis commands and connections may fail

ASSUME SubscriptionAssumption ==
    /\ MaxMessages \in Nat
    /\ MaxWritten \in Nat
    /\ Faults \in BOOLEAN

Zero == 0

VARIABLES
    published,      \* the messages published since the subscription
    inbox,          \* the messages on the Redis connection, not received yet
    broken,         \* the Redis connection has failed
    task,           \* where subscribeTask is
    held,           \* the message it is sending
    errors,         \* the buffer of the channel of errors
    closed,         \* the channels that are closed
    handler,        \* where handleSubscription is
    got,            \* the message it is writing
    stream,         \* the client is there
    shutdown,       \* the routine sends, or has sent, the handler the shutdown
    routine,        \* handleShutdown: in its select, or sending, and where
    cancelled,      \* ctx is done
    written         \* the messages written to the stream

vars == <<published, inbox, broken, task, held, errors, closed, handler, got,
          stream, shutdown, routine, cancelled, written>>

\* What the game, the client and the operating system do to a subscription.
outside == <<published, broken, stream, shutdown, routine>>

TaskSteps == {"none", "check", "receive", "send", "cleanup", "close", "done"}

HandlerSteps == {"subscribe", "setup", "loop", "select", "write", "deferred",
                 "close", "returned"}

RoutineSteps == {"select", "here", "elsewhere"}
-----------------------------------------------------------------------------
(* The outside *)

\* PUBLISH on a channel of the subscription.
Publish ==
    /\ task # "none" /\ published < MaxMessages
    /\ published' = published + 1
    /\ inbox' = IF broken \/ task \in {"close", "done"} THEN inbox
                ELSE Append(inbox, published + 1)
    /\ UNCHANGED <<broken, task, held, errors, closed, handler, got, stream,
                   shutdown, routine, cancelled, written>>

BreakConnection ==
    /\ Faults /\ ~ broken
    /\ broken' = TRUE
    /\ UNCHANGED <<published, inbox, task, held, errors, closed, handler, got,
                   stream, shutdown, routine, cancelled, written>>

ClientLeaves ==
    /\ stream
    /\ stream' = FALSE
    /\ UNCHANGED <<published, inbox, broken, task, held, errors, closed,
                   handler, got, shutdown, routine, cancelled, written>>

\* net/http ends the context of a request whose connection is gone, sooner or
\* later than IsOpen notices.
EndContext ==
    /\ ~ stream /\ ~ cancelled
    /\ cancelled' = TRUE
    /\ UNCHANGED <<outside, inbox, task, held, errors, closed, handler, got,
                   written>>

\* The loop over the clients comes to this one, which may be anywhere between
\* MakeClient and Close: the routine stays there until the handler takes it.
TellShutdown ==
    /\ ~ shutdown
    /\ handler # "returned" /\ routine # "here"
    /\ shutdown' = TRUE
    /\ routine' = "here"
    /\ UNCHANGED <<published, inbox, broken, task, held, errors, closed,
                   handler, got, stream, cancelled, written>>

\* The routine sends to other clients, or is through with them.
TellOthers ==
    /\ routine # "here"
    /\ routine' \in {"select", "elsewhere"} \ {routine}
    /\ UNCHANGED <<published, inbox, broken, task, held, errors, closed,
                   handler, got, stream, shutdown, cancelled, written>>
-----------------------------------------------------------------------------
(* game.Subscribe and subscribeTask *)

\* The four channels are subscribed to and the goroutine is started; or both
\* channels are closed and the request ends in an internal error: cancel is not
\* deferred yet, stream.Close and client.Close are.
Subscribe ==
    /\ handler = "subscribe"
    /\ \/ /\ handler' = "setup" /\ task' = "check"
          /\ UNCHANGED <<closed, stream>>
       \/ /\ Faults
          /\ handler' = "close" /\ task' = "done"
          /\ closed' = {"errors", "messages"}
          /\ stream' = FALSE
    /\ UNCHANGED <<published, inbox, broken, held, errors, got, shutdown,
                   routine, cancelled, written>>

\* The select on ctx.Done.
CheckDone ==
    /\ task = "check"
    /\ IF cancelled
       THEN /\ errors' = Append(errors, "done")
            /\ task' = "cleanup"
       ELSE /\ task' = "receive"
            /\ UNCHANGED errors
    /\ UNCHANGED <<outside, inbox, held, closed, handler, got, cancelled,
                   written>>

\* Variant: a send that does not wait for the handler to be in its select.
Receive_NoWait ==
    /\ task = "receive"
    /\ inbox # << >>
    /\ held' = Head(inbox)
    /\ inbox' = Tail(inbox)
    /\ task' = IF handler = "select" THEN "send" ELSE "check"
    /\ UNCHANGED <<outside, errors, closed, handler, got, cancelled, written>>

\* sub.Receive yields a message.
Receive ==
    /\ task = "receive"
    /\ inbox # << >>
    /\ held' = Head(inbox)
    /\ inbox' = Tail(inbox)
    /\ task' = "send"
    /\ UNCHANGED <<outside, errors, closed, handler, got, cancelled, written>>

\* Variant: no return after the error.
ReceiveError_NoReturn ==
    /\ task = "receive"
    /\ broken
    /\ errors' = Append(errors, "redis")
    /\ task' = "check"
    /\ UNCHANGED <<outside, inbox, held, closed, handler, got, cancelled,
                   written>>

\* sub.Receive yields an error.
ReceiveError ==
    /\ task = "receive"
    /\ broken
    /\ errors' = Append(errors, "redis")
    /\ task' = "cleanup"
    /\ UNCHANGED <<outside, inbox, held, closed, handler, got, cancelled,
                   written>>

\* cleanup: the connection and the channel of errors, then the messages.
CloseErrors ==
    /\ task = "cleanup"
    /\ inbox' = << >>
    /\ closed' = closed \cup {"errors"}
    /\ task' = "close"
    /\ UNCHANGED <<outside, held, errors, handler, got, cancelled, written>>

CloseMessages ==
    /\ task = "close"
    /\ closed' = closed \cup {"messages"}
    /\ task' = "done"
    /\ UNCHANGED <<outside, inbox, held, errors, handler, got, cancelled,
                   written>>
-----------------------------------------------------------------------------
(* handleSubscription *)

\* Unexpire and UpdatePlayerConnections.
SetUp ==
    /\ handler = "setup"
    /\ handler' \in {"loop"} \cup IF Faults THEN {"deferred"} ELSE {}
    /\ UNCHANGED <<outside, inbox, task, held, errors, closed, got, cancelled,
                   written>>

\* Variant: the stream is not looked at.
StreamOpen_Unchecked == TRUE

\* stream.IsOpen.  (A ping to a stream that is not open fails, to the same
\* effect.)
StreamOpen == stream

Loop ==
    /\ handler = "loop"
    /\ handler' = IF StreamOpen THEN "select" ELSE "deferred"
    /\ UNCHANGED <<outside, inbox, task, held, errors, closed, got, cancelled,
                   written>>

\* The cases of the select: which of the ready ones is taken is random.
TakeMessage ==
    /\ handler = "select" /\ task = "send"
    /\ got' = held
    /\ handler' = "write"
    /\ task' = "check"
    /\ UNCHANGED <<outside, inbox, held, errors, closed, cancelled, written>>

TakeFromClosed ==
    /\ handler = "select" /\ "messages" \in closed
    /\ Len(written) < MaxWritten
    /\ got' = Zero
    /\ handler' = "write"
    /\ UNCHANGED <<outside, inbox, task, held, errors, closed, cancelled,
                   written>>

TakeError ==
    /\ handler = "select" /\ (errors # << >> \/ "errors" \in closed)
    /\ errors' = IF errors = << >> THEN errors ELSE Tail(errors)
    /\ handler' = "deferred"
    /\ UNCHANGED <<outside, inbox, task, held, closed, got, cancelled, written>>

\* The routine gets on with the other clients.
TakeShutdown ==
    /\ handler = "select" /\ routine = "here"
    /\ handler' = "deferred"
    /\ routine' = "elsewhere"
    /\ UNCHANGED <<published, inbox, broken, task, held, errors, closed, got,
                   stream, shutdown, cancelled, written>>

PollInterval ==
    /\ handler = "select"
    /\ handler' = "loop"
    /\ UNCHANGED <<outside, inbox, task, held, errors, closed, got, cancelled,
                   written>>

\* writeMessageToStream, which takes the zero Message for an event.
WriteMessageToStream ==
    /\ handler = "write"
    /\ IF stream THEN /\ written' = Append(written, got)
                      /\ handler' = "loop"
                 ELSE /\ handler' = "deferred"
                      /\ UNCHANGED written
    /\ UNCHANGED <<outside, inbox, task, held, errors, closed, got, cancelled>>

\* The deferred calls, down to cancel and stream.Close.
Return ==
    /\ handler = "deferred"
    /\ handler' = "close"
    /\ cancelled' = TRUE
    /\ stream' = FALSE
    /\ UNCHANGED <<published, inbox, broken, task, held, errors, closed, got,
                   shutdown, routine, written>>

\* client.Close, the last of them: the routine must be there to receive.
CloseClient ==
    /\ handler = "close" /\ routine = "select"
    /\ handler' = "returned"
    /\ UNCHANGED <<outside, inbox, task, held, errors, closed, got, cancelled,
                   written>>
-----------------------------------------------------------------------------
Init ==
    /\ published = 0
    /\ inbox = << >>
    /\ broken = FALSE
    /\ task = "none"
    /\ held = Zero
    /\ errors = << >>
    /\ closed = {}
    /\ handler = "subscribe"
    /\ got = Zero
    /\ stream = TRUE
    /\ shutdown = FALSE
    /\ routine \in {"select", "elsewhere"}
    /\ cancelled = FALSE
    /\ written = << >>

Task == CheckDone \/ Receive \/ ReceiveError \/ CloseErrors \/ CloseMessages

Select == TakeMessage \/ TakeFromClosed \/ TakeError \/ TakeShutdown
              \/ PollInterval

Handler == Subscribe \/ SetUp \/ Loop \/ Select \/ WriteMessageToStream
               \/ Return \/ CloseClient

Next == Publish \/ BreakConnection \/ ClientLeaves \/ EndContext
            \/ TellShutdown \/ TellOthers \/ Task \/ Handler

Spec == Init /\ [][Next]_vars

\* Both goroutines run when they can, and a case of a select that is ready
\* again and again is taken in the end, for the choice is random.  Nothing makes
\* the routine of shutdownHandler come back from another client.
Fairness ==
    /\ WF_vars(Task)
    /\ WF_vars(Handler)
    /\ SF_vars(TakeMessage)
    /\ SF_vars(TakeError)
    /\ SF_vars(TakeShutdown)
    /\ SF_vars(CloseClient)

FairSpec == Spec /\ Fairness
-----------------------------------------------------------------------------
\* The types.  That the errors are one at most says that the task never waits
\* to send one, for the channel has room for one: no guard of the task says so.
TypeOK ==
    /\ published \in 0 .. MaxMessages
    /\ inbox \in Seq(1 .. MaxMessages)
    /\ broken \in BOOLEAN
    /\ task \in TaskSteps
    /\ held \in 0 .. MaxMessages
    /\ errors \in {<< >>, <<"done">>, <<"redis">>}     \* see above
    /\ closed \subseteq {"errors", "messages"}
    /\ handler \in HandlerSteps
    /\ got \in 0 .. MaxMessages
    /\ stream \in BOOLEAN
    /\ shutdown \in BOOLEAN
    /\ routine \in RoutineSteps
    /\ cancelled \in BOOLEAN
    /\ written \in Seq(0 .. MaxMessages)

\* The client sees what the game published, in that order, without a gap and
\* without a repetition, however the two goroutines and the polling interleave:
\* what was written before a message are the messages before it, and zero ones.
InOrder ==
    \A i \in 1 .. Len(written) :
        written[i] # Zero =>
            {written[j] : j \in 1 .. i - 1} \ {Zero} = 1 .. written[i] - 1

\* Every message is written in the end, or the stream ends.
EveryMessageWritten ==
    \A n \in 1 .. MaxMessages :
        published >= n ~> \/ \E i \in 1 .. Len(written) : written[i] = n
                          \/ handler \in {"close", "returned"}

\* The handler waits in client.Close for a routine that never comes back to its
\* select, because it sends the shutdown to this client, whose handler is past
\* its own select, or to another one that is.
StuckInClose == handler = "close" /\ routine # "select"

\* When the client has left, and when the routine shuts the server down, the
\* handler gets through its deferred calls to the last: it has counted its
\* player's connection out and is rid of its client, or waits for ever for the
\* routine to be rid of it.
HandlerEnds ==
    (~ stream \/ shutdown) ~> (handler = "returned" \/ []StuckInClose)
=============================================================================
