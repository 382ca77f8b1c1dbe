--------------------------- MODULE MetricsEndpoint ---------------------------
(***************************************************************************)
(* serve_metrics: a listener, and a task for each connection that reads a  *)
(* request head and answers it from the counters of the run.               *)
(*                                                                         *)
(* The counters are atomics of their own.  An answer loads them one by     *)
(* one while the pipeline goes on counting, and with Relaxed ordering the  *)
(* loads may happen in any order, so no two of them need be of one moment. *)
(***************************************************************************)
EXTENDS Integers, Sequences, FiniteSets

CONSTANTS
  Scrapers,    \* the clients
  Counters,    \* the names of the counters
  HeadLimit    \* chunks of a request head that are read

ASSUME HeadLimitAssumption == HeadLimit \in Nat

VARIABLES
  counters,    \* the counters of the run
  listener,    \* "none", "up", or "dead" once its accept has failed
  scrapes,     \* by client, its connection
  published    \* history: the highest value of each counter in any answer so far

endpointVars == <<listener, scrapes, published>>

Zero == [k \in Counters |-> 0]

\* at is where the connection is: "idle", "queued" until it is accepted, "reading"
\* the head, "rendering" the answer, "answered" or "dropped".  seen holds the
\* counters loaded so far, and floor what had been published when it was accepted.
Connection(at, head, seen, floor) == [at |-> at, head |-> head, seen |-> seen, floor |-> floor]
Unconnected == Connection("idle", 0, << >>, Zero)

EndpointInit ==
  /\ listener = "none"
  /\ scrapes = [c \in Scrapers |-> Unconnected]
  /\ published = Zero

At(c) == scrapes[c].at
Move(c, at) == scrapes' = [scrapes EXCEPT ![c] = Connection(at, @.head, @.seen, @.floor)]

\* The address is bound before the run starts, or the start is refused.
Bind ==
  /\ listener = "none"
  /\ listener' = "up"
  /\ UNCHANGED <<scrapes, published>>

Connect(c) ==
  /\ listener = "up"
  /\ At(c) \in {"idle", "answered", "dropped"}
  /\ scrapes' = [scrapes EXCEPT ![c] = Connection("queued", 0, << >>, Zero)]
  /\ UNCHANGED <<listener, published>>

\* Mutant: one connection is served at a time.
AcceptOneByOne(c) ==
  /\ listener = "up" /\ At(c) = "queued"
  /\ \A d \in Scrapers : At(d) \notin {"reading", "rendering"}
  /\ scrapes' = [scrapes EXCEPT ![c] = Connection("reading", @.head, @.seen, published)]
  /\ UNCHANGED <<listener, published>>

\* A task is spawned for every connection.
Accept(c) ==
  /\ listener = "up" /\ At(c) = "queued"
  /\ scrapes' = [scrapes EXCEPT ![c] = Connection("reading", @.head, @.seen, published)]
  /\ UNCHANGED <<listener, published>>

\* The loop ends at the first error of accept, and no connection is taken any more.
AcceptFails ==
  /\ listener = "up"
  /\ listener' = "dead"
  /\ UNCHANGED <<scrapes, published>>

\* A chunk that does not end the head.  One chunk beyond the limit and the
\* connection is closed without an answer.
ReadChunk(c) ==
  /\ At(c) = "reading"
  /\ LET next == IF scrapes[c].head < HeadLimit THEN "reading" ELSE "dropped"
     IN  scrapes' = [scrapes EXCEPT ![c] = Connection(next, @.head + 1, @.seen, @.floor)]
  /\ UNCHANGED <<listener, published>>

\* The client goes away before it sent its head, or the head is not text or its end is
\* beyond the limit.
ReadFails(c) ==
  /\ At(c) \in {"queued", "reading"}
  /\ Move(c, "dropped")
  /\ UNCHANGED <<listener, published>>

\* The blank line, or the end of what the client sends.  Only a GET of the path is
\* answered from the counters; 405 and 404 need none.
HeadEnds(c) ==
  /\ At(c) = "reading"
  /\ \/ scrapes' = [scrapes EXCEPT ![c] = Connection("rendering", @.head, << >>, @.floor)]
     \/ Move(c, "answered")
  /\ UNCHANGED <<listener, published>>

Loaded(c) == DOMAIN scrapes[c].seen

\* to_prometheus loads one counter.
Load(c, k) ==
  /\ At(c) = "rendering" /\ k \notin Loaded(c)
  /\ LET seen == [j \in Loaded(c) \cup {k} |-> IF j = k THEN counters[k] ELSE scrapes[c].seen[j]]
     IN  scrapes' = [scrapes EXCEPT ![c] = Connection(@.at, @.head, seen, @.floor)]
  /\ UNCHANGED <<listener, published>>

Higher(a, b) == IF a > b THEN a ELSE b

Answer(c) ==
  /\ At(c) = "rendering" /\ Loaded(c) = Counters
  /\ Move(c, "answered")
  /\ published' = [k \in Counters |-> Higher(published[k], scrapes[c].seen[k])]
  /\ UNCHANGED listener

\* The steps of the connection's own task once the head is there.
Render(c) == Answer(c) \/ \E k \in Counters : Load(c, k)

Endpoint ==
  \/ AcceptFails
  \/ \E c \in Scrapers :
       Connect(c) \/ Accept(c) \/ ReadChunk(c) \/ ReadFails(c) \/ HeadEnds(c) \/ Render(c)

\* An answer is never behind what any answer published before its connection was
\* accepted, nor ahead of the counters: successive scrapes go forward, each counter
\* by itself (Metrics::to_prometheus with its relaxed loads).
ScrapesGoForward ==
  \A c \in Scrapers : \A k \in Loaded(c) :
    At(c) = "rendering" =>
      scrapes[c].floor[k] <= scrapes[c].seen[k] /\ scrapes[c].seen[k] <= counters[k]

=============================================================================
