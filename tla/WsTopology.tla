----------------------------- MODULE WsTopology -----------------------------
(***************************************************************************)
(* run_topology with a remote feed as its source and a WebSocket sink: the *)
(* feed client, the pipeline and the broadcasting sink over two bounded    *)
(* channels.  Of the pipeline, which module Pipeline describes, only this  *)
(* is here: it takes events in order, makes one output of each, and ends   *)
(* when its input has ended or its output cannot be sent.                  *)
(***************************************************************************)
EXTENDS Integers, Sequences

CONSTANTS
  FirstDelay, MaxDelay, Capacity, MaxFrames, MaxConnections,  \* see FeedClient
  Clients, Ring                                               \* see WsSink

ASSUME DelayAssumption ==
  FirstDelay \in Nat \ {0} /\ MaxDelay \in Nat /\ FirstDelay <= MaxDelay
ASSUME CapacityAssumption == Capacity \in Nat \ {0} /\ Ring \in Nat \ {0}
ASSUME BoundsAssumption == MaxFrames \in Nat /\ MaxConnections \in Nat

VARIABLES
  client, usable, delay, socket, holding, inbox, gone, published, connections, forwarded,
  lateConnections,
  outbox, listener, broadcasted, task, next, seen,
  output  \* what the pipeline is sending, << >> or <<o>>

Feed == INSTANCE FeedClient
Sink == INSTANCE WsSink

feedVars == <<client, usable, delay, socket, holding, inbox, gone, published, connections,
              forwarded, lateConnections>>
sinkVars == <<outbox, listener, broadcasted, task, next, seen>>
vars == <<feedVars, sinkVars, output>>

Init ==
  /\ Feed!Init
  /\ Sink!Init
  /\ output = << >>

\* The sender of the input channel is dropped when the client returns.
InputEnded == client = "returned" /\ inbox = << >>

\* The pipeline takes an event and has the output of it to send.
Take ==
  /\ ~gone
  /\ output = << >> /\ inbox # << >>
  /\ output' = <<Head(inbox)>>
  /\ inbox' = Tail(inbox)
  /\ UNCHANGED <<client, usable, delay, socket, holding, gone, published, connections, forwarded,
                 lateConnections>>
  /\ UNCHANGED sinkVars

Send ==
  /\ ~gone
  /\ output # << >> /\ Len(outbox) < Capacity /\ listener # "failed"
  /\ outbox' = outbox \o output
  /\ output' = << >>
  /\ UNCHANGED <<listener, broadcasted, task, next, seen>>
  /\ UNCHANGED feedVars

\* run returns, and with it goes the receiver of the input channel.
RunReturns ==
  /\ ~gone
  /\ \/ output = << >> /\ InputEnded
     \/ output # << >> /\ listener = "failed"
  /\ gone' = TRUE
  /\ inbox' = << >>
  /\ output' = << >>
  /\ UNCHANGED <<client, usable, delay, socket, holding, published, connections, forwarded,
                 lateConnections>>
  /\ UNCHANGED sinkVars

Pipeline == Take \/ Send \/ RunReturns

FeedStep(step) == step /\ UNCHANGED <<sinkVars, output>>
SinkStep(step) == step /\ UNCHANGED <<feedVars, output>>

Next ==
  \/ Pipeline
  \/ FeedStep(Feed!Client)
  \/ FeedStep(Feed!Remote)
  \/ SinkStep(Sink!Listener)
  \/ SinkStep(Sink!Broadcast)
  \/ SinkStep(\E c \in Clients : Sink!ClientTask(c))

\* The tasks of the process run.  Whether the remote feed or a client of the sink ever does
\* anything is up to them.
Fairness ==
  /\ WF_vars(Pipeline)
  /\ WF_vars(FeedStep(Feed!Client))
  /\ WF_vars(SinkStep(Sink!Bind \/ Sink!BindFails))
  /\ WF_vars(SinkStep(Sink!Broadcast))

Spec == Init /\ [][Next]_vars /\ Fairness

-----------------------------------------------------------------------------

\* A client of the sink sees a run of the feed's events with none missing from the middle and
\* none twice: one that cannot keep up is dropped and never silently skips (WsSink::start).
ClientsSeeNoGap ==
  \A c \in Clients :
    \E from \in 0 .. Len(forwarded) - Len(seen[c]) :
      \A i \in 1 .. Len(seen[c]) : seen[c][i] = forwarded[from + i]

\* Once the receiver is gone, at most the connection that was being made is still read: a
\* send that fails is the one reason not to read another (ws_remote_source, forward_events).
OneConnectionAfterGone == lateConnections <= 1

Values(s) == {s[i] : i \in 1 .. Len(s)}

\* An event that was forwarded is broadcast, whatever the clients of the sink do: a client
\* that does not read never holds up the pipeline.  Only a listener that cannot bind loses it
\* (WsSink::start, run_topology).
OutputsReachBroadcast ==
  \A id \in 1 .. MaxFrames :
    LET Has(s) == \E e \in Values(s) : e.id = id
    IN Has(forwarded) ~> (Has(broadcasted) \/ listener = "failed")

\* When the receiver is gone the feed client returns, unless it waits for a feed that neither
\* publishes nor closes: the loop sees the end only between connections or at a send.
FeedStopsOrWaits ==
  gone ~> (client = "returned" \/ (client = "reading" /\ socket = << >>))

\* "pipeline.run returns once the source channel closes, dropping tx_out, which closes the
\* sink channel and lets the sink task finish" (topology_run.rs:109-110): when the run has
\* returned, the task of the sink, which is start, does.
SinkTaskFinishes == gone ~> listener \in {"failed", "stopped"}

=============================================================================
