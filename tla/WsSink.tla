------------------------------- MODULE WsSink -------------------------------
(***************************************************************************)
(* WsSink::start: outputs go through a broadcast channel to the clients    *)
(* that are connected.  The channel keeps the last Ring of them; a client  *)
(* that has fallen further behind gets an error from recv instead of the   *)
(* next output, and its task ends.                                         *)
(***************************************************************************)
EXTENDS Integers, Sequences

CONSTANTS
  Clients,  \* those that may connect
  Ring      \* the capacity of the broadcast channel

VARIABLES
  outbox,      \* the channel from the pipeline
  listener,    \* "binding", "accepting", "stopped" or "failed"
  broadcasted, \* history: every output sent to the broadcast channel
  task,        \* the task of a client: "none", "handshake", "open" or "ended"
  next,        \* the place in broadcasted of the output its receiver is at
  seen         \* history: the outputs written to the client


Init ==
  /\ outbox = << >>
  /\ listener = "binding"
  /\ broadcasted = << >>
  /\ task = [c \in Clients |-> "none"]
  /\ next = [c \in Clients |-> 1]
  /\ seen = [c \in Clients |-> << >>]

Bind ==
  /\ listener = "binding"
  /\ listener' = "accepting"
  /\ UNCHANGED <<outbox, broadcasted, task, next, seen>>

\* The address is taken: start returns, and with it goes the receiver.
BindFails ==
  /\ listener = "binding"
  /\ listener' = "failed"
  /\ outbox' = << >>
  /\ UNCHANGED <<broadcasted, task, next, seen>>

\* accept fails: start returns, but the broadcaster has a task of its own.
AcceptFails ==
  /\ listener = "accepting"
  /\ listener' = "stopped"
  /\ UNCHANGED <<outbox, broadcasted, task, next, seen>>

\* How many outputs the receiver of a client is behind.
Behind(c) == Len(broadcasted) + 1 - next[c]

\* Mutant: the broadcaster waits for the slowest client.
BroadcastWaits ==
  /\ listener \in {"accepting", "stopped"}
  /\ outbox # << >>
  /\ \A c \in Clients : task[c] = "open" => Behind(c) < Ring
  /\ outbox' = Tail(outbox)
  /\ broadcasted' = Append(broadcasted, Head(outbox))
  /\ UNCHANGED <<listener, task, next, seen>>

\* The broadcaster takes an output, whoever is there to read it.
Broadcast ==
  /\ listener \in {"accepting", "stopped"}
  /\ outbox # << >>
  /\ outbox' = Tail(outbox)
  /\ broadcasted' = Append(broadcasted, Head(outbox))
  /\ UNCHANGED <<listener, task, next, seen>>

\* A connection subscribes when it is accepted, before its handshake.
AcceptClient(c) ==
  /\ listener = "accepting"
  /\ task[c] = "none"
  /\ task' = [task EXCEPT ![c] = "handshake"]
  /\ next' = [next EXCEPT ![c] = Len(broadcasted) + 1]
  /\ UNCHANGED <<outbox, listener, broadcasted, seen>>

Handshake(c) ==
  /\ task[c] = "handshake"
  /\ task' = [task EXCEPT ![c] = "open"]
  /\ UNCHANGED <<outbox, listener, broadcasted, next, seen>>

Lagged(c) == Behind(c) > Ring

\* recv returns the next output, and it is written to the client.
Write(c) ==
  /\ task[c] = "open"
  /\ Behind(c) > 0 /\ ~Lagged(c)
  /\ seen' = [seen EXCEPT ![c] = Append(@, broadcasted[next[c]])]
  /\ next' = [next EXCEPT ![c] = @ + 1]
  /\ UNCHANGED <<outbox, listener, broadcasted, task>>

\* Mutant: a client that lagged goes on with the oldest output there is.
LagSkips(c) ==
  /\ task[c] = "open"
  /\ Lagged(c)
  /\ next' = [next EXCEPT ![c] = Len(broadcasted) + 1 - Ring]
  /\ UNCHANGED <<outbox, listener, broadcasted, task, seen>>

\* recv returns Lagged, and the loop ends.
LagEnds(c) ==
  /\ task[c] = "open"
  /\ Lagged(c)
  /\ task' = [task EXCEPT ![c] = "ended"]
  /\ UNCHANGED <<outbox, listener, broadcasted, next, seen>>

\* The handshake or a write fails.
ClientFails(c) ==
  /\ task[c] = "handshake" \/ (task[c] = "open" /\ Behind(c) > 0)
  /\ task' = [task EXCEPT ![c] = "ended"]
  /\ UNCHANGED <<outbox, listener, broadcasted, next, seen>>

Listener == Bind \/ BindFails \/ AcceptFails

ClientTask(c) ==
  AcceptClient(c) \/ Handshake(c) \/ Write(c) \/ LagEnds(c) \/ ClientFails(c)

=============================================================================
