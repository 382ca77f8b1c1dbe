----------------------------- MODULE FeedClient -----------------------------
(***************************************************************************)
(* ws_remote_source: a client of a remote WebSocket feed that forwards its *)
(* events to a bounded channel and connects again, after a growing delay,  *)
(* when the feed drops or refuses it.  The remote side and its network are *)
(* the environment: it publishes frames, closes, or is cut off with frames *)
(* unread.  A frame is an event [id, good], where good says that it parses,  *)
(* or Closing.                                                             *)
(***************************************************************************)
EXTENDS Integers, Sequences

CONSTANTS
  FirstDelay, MaxDelay,  \* RECONNECT_FIRST_DELAY and RECONNECT_MAX_DELAY
  Capacity,              \* of the channel to the pipeline
  MaxFrames,             \* bound: frames the feed publishes
  MaxConnections         \* bound: connections it accepts

VARIABLES
  client,       \* "top", "connecting", "reading", "sending", "sleeping" or "returned"
  usable,       \* tungstenite can use the url
  delay,        \* the delay before the next attempt
  socket,       \* the frames the client has not read
  holding,      \* the event it is sending: << >> or <<e>>
  inbox,        \* the channel to the pipeline
  gone,         \* the receiver of that channel was dropped
  published,    \* how many frames the feed published
  connections,  \* how many connections it accepted
  forwarded,    \* history: the events that went into the channel
  lateConnections \* history: the connections made after the receiver was dropped


Factor == 2

Closing == [id |-> 0, good |-> FALSE]

Init ==
  /\ client = "top"
  /\ usable \in BOOLEAN
  /\ delay = FirstDelay
  /\ socket = << >>
  /\ holding = << >>
  /\ inbox = << >>
  /\ gone = FALSE
  /\ published = 0
  /\ connections = 0
  /\ forwarded = << >>
  /\ lateConnections = 0

Connected == client \in {"reading", "sending"}

Closed == socket # << >> /\ socket[Len(socket)] = Closing

\* The feed publishes an event, or something that is none.
Publish(good) ==
  /\ Connected /\ ~Closed
  /\ published < MaxFrames
  /\ published' = published + 1
  /\ socket' = Append(socket, [id |-> published + 1, good |-> good])
  /\ UNCHANGED <<client, usable, delay, holding, inbox, gone, connections,
                 forwarded, lateConnections>>

\* The feed closes the connection, or it breaks and takes what was not read with it.
Disconnect ==
  /\ Connected /\ ~Closed
  /\ \E kept \in {socket, << >>} : socket' = Append(kept, Closing)
  /\ UNCHANGED <<client, usable, delay, holding, inbox, gone, published, connections,
                 forwarded, lateConnections>>

\* Mutant: the loop has no condition.
LoopTopForever ==
  /\ client = "top"
  /\ client' = "connecting"
  /\ UNCHANGED <<usable, delay, socket, holding, inbox, gone, published, connections,
                 forwarded, lateConnections>>

\* The head of the loop: tx.is_closed().
LoopTop ==
  /\ client = "top"
  /\ client' = IF gone THEN "returned" ELSE "connecting"
  /\ UNCHANGED <<usable, delay, socket, holding, inbox, gone, published, connections,
                 forwarded, lateConnections>>

ConnectOk ==
  /\ client = "connecting" /\ usable
  /\ connections < MaxConnections
  /\ connections' = connections + 1
  /\ delay' = FirstDelay
  /\ socket' = << >>
  /\ client' = "reading"
  /\ lateConnections' = lateConnections + (IF gone THEN 1 ELSE 0)
  /\ UNCHANGED <<usable, holding, inbox, gone, published, forwarded>>

ConnectFails ==
  /\ client = "connecting"
  /\ client' = IF usable THEN "sleeping" ELSE "returned"
  /\ UNCHANGED <<usable, delay, socket, holding, inbox, gone, published, connections,
                 forwarded, lateConnections>>

\* read.next: an event is sent on, anything else but a close is ignored.
ReadEvent ==
  /\ client = "reading" /\ socket # << >> /\ Head(socket).good
  /\ socket' = Tail(socket)
  /\ holding' = <<Head(socket)>>
  /\ client' = "sending"
  /\ UNCHANGED <<usable, delay, inbox, gone, published, connections,
                 forwarded, lateConnections>>

ReadOther ==
  /\ client = "reading" /\ socket # << >> /\ ~Head(socket).good
  /\ socket' = Tail(socket)
  /\ client' = IF Head(socket) = Closing THEN "sleeping" ELSE "reading"
  /\ UNCHANGED <<usable, delay, holding, inbox, gone, published, connections,
                 forwarded, lateConnections>>

Sent ==
  /\ client = "sending" /\ ~gone
  /\ Len(inbox) < Capacity
  /\ inbox' = inbox \o holding
  /\ forwarded' = forwarded \o holding
  /\ holding' = << >>
  /\ client' = "reading"
  /\ UNCHANGED <<usable, delay, socket, gone, published, connections, lateConnections>>

\* Mutant: a send that fails is taken for a connection to be replaced.
SendFailsReconnects ==
  /\ client = "sending" /\ gone
  /\ holding' = << >>
  /\ client' = "connecting"
  /\ UNCHANGED <<usable, delay, socket, inbox, gone, published, connections,
                 forwarded, lateConnections>>

\* forward_events returns false: the receiver is gone.
SendFails ==
  /\ client = "sending" /\ gone
  /\ holding' = << >>
  /\ client' = "returned"
  /\ UNCHANGED <<usable, delay, socket, inbox, gone, published, connections,
                 forwarded, lateConnections>>

Backoff == IF delay * Factor > MaxDelay THEN MaxDelay ELSE delay * Factor

\* The sleep is over.
Wake ==
  /\ client = "sleeping"
  /\ delay' = Backoff
  /\ client' = "top"
  /\ UNCHANGED <<usable, socket, holding, inbox, gone, published, connections,
                 forwarded, lateConnections>>

Client ==
  \/ LoopTop \/ ConnectOk \/ ConnectFails
  \/ ReadEvent \/ ReadOther \/ Sent \/ SendFails
  \/ Wake

Remote ==
  \/ \E good \in BOOLEAN : Publish(good)
  \/ Disconnect

=============================================================================
