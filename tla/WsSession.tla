------------------------------ MODULE WsSession ------------------------------
(***************************************************************************)
(* One websocket session of the API server (api/server.go, the monitor     *)
(* handler) and of its client (Client.monitorEvent of api/client.go):      *)
(* handshake, event stream, read loop and ping loop.                       *)
(*                                                                         *)
(* A session has three goroutines at the server.  The handler writes the   *)
(* events and closes the connection when it returns.  The read loop        *)
(* notices that the client has gone, and cancels.  The ping loop finds out *)
(* about a client that vanished without a word, and closes.  A source of   *)
(* events either ends when it is cancelled (the ICON adaptor, polled       *)
(* heads) or does not look (MonitorBySubscribeFilterLogs).                 *)
(***************************************************************************)
EXTENDS Integers, Sequences, FiniteSets

CONSTANTS
  Sources,   \* of {TRUE, FALSE}: whether the source of events looks at the context
  MaxEvents  \* bound: events of a session

VARIABLES
  aware,     \* the source of this session
  pinging,   \* the ping interval of the server is not 0
  client,    \* pc of Client.monitorEvent; "vanished" is a machine that went off
  request,   \* what the client wrote: "none", "valid" or "invalid"
  line,      \* messages on their way to the client
  heard,     \* history: messages the client has read
  handler,   \* pc of the handler
  reader, pinger,
  cancelled, \* the context of the session
  closed,    \* the server has closed the connection
  broken,    \* TCP has given the connection up
  sent       \* events the source has passed on

settings == <<aware, pinging>>
wsVars == <<settings, client, request, line, heard, handler, reader, pinger,
            cancelled, closed, broken, sent>>

InitSession ==
  /\ aware \in Sources /\ pinging \in BOOLEAN
  /\ client = "connected" /\ request = "none" /\ line = <<>> /\ heard = <<>>
  /\ handler = "read" /\ reader = "none" /\ pinger = "none"
  /\ cancelled = FALSE /\ closed = FALSE /\ broken = FALSE /\ sent = 0

Message(type, n) == [type |-> type, n |-> n]
Success == Message("success", 0)
Refusal == Message("error", 0)
Event(n) == Message("event", n)
Ping == Message("ping", 0)

Gone == client \in {"left", "vanished"}

\* A read at the server ends with an error; so does a write, but to a machine that
\* went off TCP sends for a while.
ReadFails == closed \/ broken \/ client = "left"
WriteFails == closed \/ broken \/ client = "left"

-----------------------------------------------------------------------------
(* The client.                                                             *)

Asks ==
  /\ client = "connected"
  /\ request' \in {"valid", "invalid"} /\ client' = "handshake"
  /\ UNCHANGED <<settings, line, heard, handler, reader, pinger, cancelled,
                 closed, broken, sent>>

\* wsHandshake takes the first message for the answer, wsReadLoop the others for
\* events; the ping handler of the connection answers a ping by itself.
ClientReads ==
  /\ client \in {"handshake", "open"} /\ line # <<>>
  /\ line' = Tail(line)
  /\ \/ Head(line) = Ping /\ UNCHANGED <<client, heard>>
     \/ /\ Head(line) # Ping /\ heard' = Append(heard, Head(line))
        /\ client' = IF client = "handshake" /\ Head(line) # Success THEN "left"
                     ELSE "open"
  /\ UNCHANGED <<settings, request, handler, reader, pinger, cancelled,
                 closed, broken, sent>>

\* The context of the caller, a timeout of the handshake, an error of the callback, the
\* end of the connection; or the machine goes off.
ClientLeaves ==
  /\ ~ Gone
  /\ client' \in {"left", "vanished"}
  /\ line' = <<>>
  /\ UNCHANGED <<settings, request, heard, handler, reader, pinger, cancelled,
                 closed, broken, sent>>

ClientSeesClose ==
  /\ ~ Gone /\ closed /\ line = <<>>
  /\ client' = "left"
  /\ UNCHANGED <<settings, request, line, heard, handler, reader, pinger,
                 cancelled, closed, broken, sent>>

\* What was written to a machine that went off is never acknowledged.
TcpGivesUp ==
  /\ client = "vanished" /\ line # <<>> /\ ~ broken
  /\ broken' = TRUE /\ line' = <<>>
  /\ UNCHANGED <<settings, client, request, heard, handler, reader, pinger,
                 cancelled, closed, sent>>

-----------------------------------------------------------------------------
(* The server.                                                             *)

\* conn.WriteMessage, at the end of it.
Writes(message) == line' = IF WriteFails THEN line ELSE Append(line, message)

\* wsHandshake: a request, no answer in time, or the end of the connection.  The
\* deferred function answers either of them.
HandshakeRead ==
  /\ handler = "read"
  /\ \/ request = "valid" /\ handler' = "answer"
     \/ handler' = "refuse"
  /\ UNCHANGED <<settings, client, request, line, heard, reader, pinger, cancelled,
                 closed, broken, sent>>

FirstTick == IF pinging THEN "waiting" ELSE "done"

StreamAtOnce ==
  /\ handler = "answer"
  /\ handler' = "stream" /\ reader' = "reading" /\ pinger' = FirstTick
  /\ UNCHANGED <<settings, client, request, line, heard, cancelled, closed, broken, sent>>

\* A failing write of the answer is only logged: the stream begins all the same.
HandshakeAnswer ==
  /\ handler = "answer"
  /\ Writes(Success)
  /\ handler' = "stream" /\ reader' = "reading" /\ pinger' = FirstTick
  /\ UNCHANGED <<settings, client, request, heard, cancelled, closed, broken, sent>>

HandshakeRefuse ==
  /\ handler = "refuse"
  /\ Writes(Refusal)
  /\ handler' = "done" /\ closed' = TRUE
  /\ UNCHANGED <<settings, client, request, heard, reader, pinger, cancelled, broken,
                 sent>>

\* The source has an event, and onEvent begins to write it.
SourceEvent ==
  /\ handler = "stream" /\ sent < MaxEvents
  /\ handler' = "write" /\ sent' = sent + 1
  /\ UNCHANGED <<settings, client, request, line, heard, reader, pinger, cancelled,
                 closed, broken>>

\* An error of onEvent ends the stream.
EventWritten ==
  /\ handler = "write"
  /\ Writes(Event(sent))
  /\ handler' = IF WriteFails THEN "returns" ELSE "stream"
  /\ UNCHANGED <<settings, client, request, heard, reader, pinger, cancelled, closed,
                 broken, sent>>

\* The stream ends because of its node, or the context where it looks at it.
StreamEnds ==
  /\ handler = "stream" /\ handler' = "returns"
  /\ UNCHANGED <<settings, client, request, line, heard, reader, pinger,
                 cancelled, closed, broken, sent>>

Ended == cancelled /\ aware

StreamCancelled == Ended /\ StreamEnds

\* The deferred wsClose.
HandlerReturns ==
  /\ handler = "returns"
  /\ handler' = "done" /\ closed' = TRUE
  /\ UNCHANGED <<settings, client, request, line, heard, reader, pinger,
                 cancelled, broken, sent>>

LoopWithoutCancel ==
  /\ reader = "reading" /\ ReadFails
  /\ reader' = "done"
  /\ UNCHANGED <<settings, client, request, line, heard, handler, pinger, cancelled,
                 closed, broken, sent>>

\* wsReadLoop ends with its read, and the deferred cancel follows.
ReadLoop ==
  \/ /\ reader = "reading" /\ ReadFails
     /\ reader' = "returns" /\ UNCHANGED cancelled
     /\ UNCHANGED <<settings, client, request, line, heard, handler, pinger,
                    closed, broken, sent>>
  \/ /\ reader = "returns"
     /\ reader' = "done" /\ cancelled' = TRUE
     /\ UNCHANGED <<settings, client, request, line, heard, handler, pinger,
                    closed, broken, sent>>

\* wsPingLoop: a tick, or the end of the context.  One ping on the wire is enough.
PingTick ==
  /\ pinger = "waiting"
  /\ \A i \in DOMAIN line : line[i] # Ping
  /\ pinger' = "write"
  /\ UNCHANGED <<settings, client, request, line, heard, handler, reader, cancelled,
                 closed, broken, sent>>

PingWritten ==
  /\ pinger = "write"
  /\ Writes(Ping)
  /\ pinger' = IF WriteFails THEN "done" ELSE "waiting"
  /\ closed' = (closed \/ WriteFails)
  /\ UNCHANGED <<settings, client, request, heard, handler, reader, cancelled, broken,
                 sent>>

PingCancelled ==
  /\ pinger = "waiting" /\ cancelled
  /\ pinger' = "done"
  /\ UNCHANGED <<settings, client, request, line, heard, handler, reader,
                 cancelled, closed, broken, sent>>

HandlerSteps == \/ HandshakeRead \/ HandshakeAnswer \/ HandshakeRefuse
                \/ EventWritten \/ StreamCancelled \/ HandlerReturns

NextSession ==
  \/ Asks \/ ClientReads \/ ClientLeaves \/ ClientSeesClose \/ TcpGivesUp
  \/ HandlerSteps \/ SourceEvent \/ StreamEnds
  \/ ReadLoop \/ PingTick \/ PingWritten \/ PingCancelled

\* Goroutines are scheduled, the ticker ticks, and TCP gives up in the end.
SessionFairness ==
  /\ WF_wsVars(HandlerSteps) /\ WF_wsVars(ReadLoop) /\ WF_wsVars(TcpGivesUp)
  /\ WF_wsVars(PingWritten) /\ WF_wsVars(PingTick \/ PingCancelled)
  /\ WF_wsVars(ClientSeesClose)

SpecSession == InitSession /\ [][NextSession]_wsVars /\ SessionFairness

-----------------------------------------------------------------------------
(* Properties.                                                             *)

\* The client reads the answer of the handshake first and then the events in their
\* order, none left out: it would take an event for the answer.
AnswerThenEvents ==
  \A i \in DOMAIN heard : heard[i] \in IF i = 1 THEN {Success, Refusal} ELSE {Event(i - 1)}

\* When the client goes, or the stream ends, all goroutines of the session end in
\* the end, with a source that looks at its context.  A client that went off is
\* found out by the ping loop only.
SessionEnds ==
  (aware /\ (client = "left" \/ (client = "vanished" /\ pinging) \/ handler = "returns"))
    ~> (handler = "done" /\ reader \in {"none", "done"} /\ pinger \in {"none", "done"})
=============================================================================
