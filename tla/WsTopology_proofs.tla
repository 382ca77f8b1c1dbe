-------------------------- MODULE WsTopology_proofs --------------------------
(***************************************************************************)
(* Theorems about WsTopology, for channels and a ring of any capacity, any *)
(* number of clients, and a feed that publishes and drops its connections  *)
(* as it likes.                                                            *)
(***************************************************************************)
EXTENDS WsTopology, SequenceLemmas, TLAPS

(***************************************************************************)
(* Connections of the feed client                                          *)
(***************************************************************************)

\* Once the receiver is gone the client comes from the head of its loop no more, so that
\* it connects only if it was connecting then.
LateInv ==
  /\ lateConnections \in {0, 1}
  /\ ~gone => lateConnections = 0
  /\ gone /\ lateConnections = 1 => client # "connecting"

\* The remote feed changes nothing but what there is to read.
LEMMA RemoteSteps ==
  ASSUME FeedStep(Feed!Remote)
  PROVE  UNCHANGED <<client, holding, inbox, gone, forwarded, lateConnections, sinkVars, output>>
<1>1. Feed!Remote /\ UNCHANGED <<sinkVars, output>>
  BY DEF FeedStep
<1>2. CASE \E good \in BOOLEAN : Feed!Publish(good)
  BY <1>1, <1>2, Zenon DEF Feed!Publish
<1>3. CASE Feed!Disconnect
  BY <1>1, <1>3, Zenon DEF Feed!Disconnect
<1>4. QED
  BY <1>1, <1>2, <1>3 DEF Feed!Remote

LEMMA LateNext == ASSUME LateInv, [Next]_vars PROVE LateInv'
<1>1. CASE Pipeline
  BY <1>1 DEF Pipeline, Take, Send, RunReturns, feedVars, LateInv
<1>2. CASE FeedStep(Feed!Client)
  BY <1>2 DEF FeedStep, Feed!Client, Feed!LoopTop, Feed!ConnectOk, Feed!ConnectFails,
     Feed!ReadEvent, Feed!ReadOther, Feed!Sent, Feed!SendFails, Feed!Wake, LateInv
<1>3. CASE FeedStep(Feed!Remote)
  <2>1. client' = client /\ gone' = gone /\ lateConnections' = lateConnections
    BY <1>3, RemoteSteps
  <2>2. QED
    BY <2>1 DEF LateInv
<1>4. CASE UNCHANGED feedVars
  BY <1>4 DEF feedVars, LateInv
<1>5. QED
  BY <1>1, <1>2, <1>3, <1>4 DEF Next, SinkStep, vars

\* Whatever the feed does, the client makes at most one connection after the receiver of
\* its channel is gone.
THEOREM FeedConnectsOnceMore == Spec => []OneConnectionAfterGone
<1>1. Init => LateInv
  BY DEF Init, Feed!Init, LateInv
<1>2. LateInv => OneConnectionAfterGone
  BY DEF LateInv, OneConnectionAfterGone
<1>3. QED
  BY <1>1, <1>2, LateNext, PTL DEF Spec

(***************************************************************************)
(* The way of an event through the process                                 *)
(***************************************************************************)

Frame == [id : Nat, good : BOOLEAN]
Frames == Seq(Frame)

FeedType == published \in Nat /\ socket \in Frames /\ holding \in Frames

FlowType ==
  /\ inbox \in Frames /\ output \in Frames /\ outbox \in Frames
  /\ broadcasted \in Frames /\ forwarded \in Frames

\* What has come through the pipeline.
Through == broadcasted \o outbox

\* What came through is the beginning of what was forwarded, and the rest is on its way
\* until the run returns or the sink could not start.
Flow ==
  /\ ~gone /\ listener # "failed" => Through \o (output \o inbox) = forwarded
  /\ IsPrefix(Through, forwarded)

FlowInv == FeedType /\ FlowType /\ Flow

LEMMA NoFrames ==
  /\ << >> \in Frames
  /\ \A s \in Frames : s \o << >> = s /\ << >> \o s = s
<1>1. << >> \in Frames
  BY DEF Frames
<1>2. \A s \in Frames : s \o << >> = s /\ << >> \o s = s
  BY ConcatEmptySeq DEF Frames
<1>3. QED
  BY <1>1, <1>2

LEMMA FramesConcat == \A s, t \in Frames : s \o t \in Frames /\ IsPrefix(s, s \o t)
BY ConcatProperties, PrefixOfConcat DEF Frames

LEMMA FramesRegroup == \A s, t, u \in Frames : (s \o t) \o u = s \o (t \o u)
BY ConcatAssociative DEF Frames

LEMMA FramesPrefix ==
  \A s, t, u \in Frames : IsPrefix(s, t) /\ IsPrefix(t, u) => IsPrefix(s, u)
BY PrefixOfPrefix DEF Frames

LEMMA FramesHead ==
  \A s, t \in Frames : t # << >> =>
    /\ Head(t) \in Frame /\ Tail(t) \in Frames /\ <<Head(t)>> \in Frames
    /\ Append(s, Head(t)) \in Frames
    /\ s \o t = Append(s, Head(t)) \o Tail(t)
<1> SUFFICES ASSUME NEW s \in Seq(Frame), NEW t \in Seq(Frame), t # << >>
             PROVE  /\ Head(t) \in Frame /\ Tail(t) \in Seq(Frame)
                    /\ <<Head(t)>> \in Seq(Frame) /\ Append(s, Head(t)) \in Seq(Frame)
                    /\ s \o t = Append(s, Head(t)) \o Tail(t)
  BY DEF Frames
<1>1. Head(t) \in Frame /\ Tail(t) \in Seq(Frame)
  BY HeadTailProperties
<1>2. s \o t = Append(s, Head(t)) \o Tail(t)
  BY MoveAcross
<1>3. QED
  BY <1>1, <1>2

LEMMA FlowInit == Init => FlowInv
<1> SUFFICES ASSUME Init PROVE FlowInv
  OBVIOUS
<1>1. /\ published = 0 /\ socket = << >> /\ holding = << >> /\ inbox = << >> /\ output = << >>
      /\ outbox = << >> /\ broadcasted = << >> /\ forwarded = << >>
  BY DEF Init, Feed!Init, Sink!Init
<1>2. FeedType /\ FlowType
  BY <1>1, NoFrames DEF FeedType, FlowType
<1>3. << >> \o << >> = << >> /\ IsPrefix(<< >>, << >>)
  BY NoFrames, FramesConcat
<1>4. Flow
  BY <1>1, <1>3 DEF Flow, Through
<1>5. QED
  BY <1>2, <1>4 DEF FlowInv

\* A step that moves nothing past the ends of the way.
LEMMA SameFlow ==
  ASSUME FlowInv, FeedType', FlowType', Through' = Through,
         output' \o inbox' = output \o inbox, forwarded' = forwarded, gone' = gone,
         listener = "failed" => listener' = "failed"
  PROVE  FlowInv'
BY Zenon DEF FlowInv, Flow

LEMMA TakeFlows == ASSUME FlowInv, Take PROVE FlowInv'
<1>1. /\ output = << >> /\ inbox # << >> /\ output' = <<Head(inbox)>> /\ inbox' = Tail(inbox)
      /\ published' = published /\ socket' = socket /\ holding' = holding /\ gone' = gone
      /\ forwarded' = forwarded /\ outbox' = outbox /\ broadcasted' = broadcasted
      /\ listener' = listener
  BY DEF Take, sinkVars
<1>2. inbox \in Frames
  BY DEF FlowInv, FlowType
<1>3. PICK h : h = Head(inbox)
  OBVIOUS
<1>4. PICK t : t = Tail(inbox)
  OBVIOUS
<1>5. /\ <<h>> \in Frames /\ t \in Frames /\ << >> \in Frames
      /\ << >> \o inbox = Append(<< >>, h) \o t
  BY <1>1, <1>2, <1>3, <1>4, FramesHead, NoFrames, Zenon
<1>6. Append(<< >>, h) = <<h>>
  OBVIOUS
<1>7. output' = <<h>> /\ inbox' = t
  BY <1>1, <1>3, <1>4, Zenon
<1>8. output' \o inbox' = output \o inbox
  BY <1>1, <1>5, <1>6, <1>7, Zenon
<1>9. FeedType' /\ FlowType'
  BY <1>1, <1>5, <1>7, Zenon DEF FlowInv, FeedType, FlowType
<1>10. Through' = Through
  BY <1>1, Zenon DEF Through
<1>11. QED
  BY <1>1, <1>8, <1>9, <1>10, SameFlow, Zenon

LEMMA SendFlows == ASSUME FlowInv, Send PROVE FlowInv'
<1>1. /\ ~gone /\ listener # "failed" /\ outbox' = outbox \o output /\ output' = << >>
      /\ published' = published /\ socket' = socket /\ holding' = holding /\ gone' = gone
      /\ forwarded' = forwarded /\ inbox' = inbox /\ broadcasted' = broadcasted
      /\ listener' = listener
  BY DEF Send, feedVars
<1>2. /\ output \in Frames /\ inbox \in Frames /\ outbox \in Frames /\ broadcasted \in Frames
      /\ Through \in Frames
  BY FramesConcat, Zenon DEF FlowInv, FlowType, Through
<1>3. outbox \o output \in Frames /\ << >> \in Frames /\ << >> \o inbox = inbox
  BY <1>2, FramesConcat, NoFrames, Zenon
<1>4. FeedType' /\ FlowType'
  BY <1>1, <1>3, Zenon DEF FlowInv, FeedType, FlowType
<1>5. Through' = Through \o output
  BY <1>1, <1>2, FramesRegroup, Zenon DEF Through
<1>6. Through' \in Frames /\ Through' \o inbox = Through \o (output \o inbox)
  BY <1>2, <1>5, FramesConcat, FramesRegroup, Zenon
<1>7. Through' \o inbox = forwarded
  BY <1>1, <1>6, Zenon DEF FlowInv, Flow
<1>8. Flow'
  BY <1>1, <1>2, <1>3, <1>6, <1>7, FramesConcat, Zenon DEF Flow
<1>9. QED
  BY <1>4, <1>8, Zenon DEF FlowInv

LEMMA ReturnFlows == ASSUME FlowInv, RunReturns PROVE FlowInv'
<1>1. /\ gone' = TRUE /\ inbox' = << >> /\ output' = << >>
      /\ published' = published /\ socket' = socket /\ holding' = holding
      /\ forwarded' = forwarded /\ outbox' = outbox /\ broadcasted' = broadcasted
  BY DEF RunReturns, sinkVars
<1>2. FeedType' /\ FlowType'
  BY <1>1, NoFrames, Zenon DEF FlowInv, FeedType, FlowType
<1>3. Through' = Through /\ gone'
  BY <1>1, Zenon DEF Through
<1>4. Flow'
  BY <1>1, <1>3 DEF FlowInv, Flow
<1>5. QED
  BY <1>2, <1>4, Zenon DEF FlowInv

\* An event goes into the channel to the pipeline.
LEMMA SentFlows == ASSUME FlowInv, FeedStep(Feed!Sent) PROVE FlowInv'
<1>1. /\ inbox' = inbox \o holding /\ forwarded' = forwarded \o holding /\ holding' = << >>
      /\ published' = published /\ socket' = socket /\ gone' = gone
      /\ output' = output /\ outbox' = outbox /\ broadcasted' = broadcasted
      /\ listener' = listener
  BY DEF FeedStep, Feed!Sent, sinkVars
<1>2. /\ holding \in Frames /\ forwarded \in Frames /\ output \in Frames /\ inbox \in Frames
      /\ Through \in Frames /\ << >> \in Frames
  BY FramesConcat, NoFrames, Zenon DEF FlowInv, FlowType, FeedType, Through
<1>3. inbox \o holding \in Frames /\ forwarded \o holding \in Frames /\ output \o inbox \in Frames
  BY <1>2, FramesConcat, Zenon
<1>4. FeedType' /\ FlowType'
  BY <1>1, <1>2, <1>3, Zenon DEF FlowInv, FeedType, FlowType
<1>5. Through' = Through
  BY <1>1, Zenon DEF Through
<1>6. Through \o (output \o (inbox \o holding)) = (Through \o (output \o inbox)) \o holding
  <2>1. output \o (inbox \o holding) = (output \o inbox) \o holding
    <3>1. output \in Frames /\ inbox \in Frames /\ holding \in Frames
      BY <1>2, Zenon DEF FlowInv, FlowType, FeedType
    <3>2. QED
      BY <3>1, FramesRegroup, Zenon
  <2>2. Through \o ((output \o inbox) \o holding) = (Through \o (output \o inbox)) \o holding
    <3>1. Through \in Frames /\ output \o inbox \in Frames /\ holding \in Frames
      BY <1>2, <1>3, Zenon
    <3>2. QED
      BY <3>1, FramesRegroup, Zenon
  <2>3. QED
    BY <2>1, <2>2, Zenon
<1>7. ~gone /\ listener # "failed" => Through' \o (output' \o inbox') = forwarded'
  <2>1. Through' \o (output' \o inbox') = (Through \o (output \o inbox)) \o holding
    BY <1>1, <1>5, <1>6, Zenon
  <2>2. ~gone /\ listener # "failed" => Through \o (output \o inbox) = forwarded
    BY Zenon DEF FlowInv, Flow
  <2>3. QED
    BY <1>1, <2>1, <2>2, Zenon
<1>8. IsPrefix(Through', forwarded')
  <2>1. IsPrefix(Through, forwarded) /\ IsPrefix(forwarded, forwarded \o holding)
    BY <1>2, FramesConcat, Zenon DEF FlowInv, Flow
  <2>2. QED
    BY <1>1, <1>2, <1>3, <1>5, <2>1, FramesPrefix, Zenon
<1>9. QED
  BY <1>1, <1>4, <1>7, <1>8, Zenon DEF FlowInv, Flow

LEMMA FeedFlows == ASSUME FlowInv, FeedStep(Feed!Client) \/ FeedStep(Feed!Remote) PROVE FlowInv'
<1> DEFINE Elsewhere == /\ inbox' = inbox /\ forwarded' = forwarded /\ gone' = gone
                        /\ output' = output /\ outbox' = outbox /\ broadcasted' = broadcasted
                        /\ listener' = listener
<1>1. ASSUME Elsewhere, FeedType' PROVE FlowInv'
  <2>1. FlowType'
    BY <1>1, Zenon DEF FlowInv, FlowType
  <2>2. Through' = Through /\ output' \o inbox' = output \o inbox
    BY <1>1, Zenon DEF Through
  <2>3. QED
    BY <1>1, <2>1, <2>2, SameFlow, Zenon
<1>2. FeedType
  BY Zenon DEF FlowInv
<1>3. CASE FeedStep(Feed!Sent)
  BY <1>3, SentFlows
<1>4. CASE FeedStep(Feed!LoopTop \/ Feed!ConnectFails \/ Feed!Wake)
  <2>1. Elsewhere /\ published' = published /\ socket' = socket /\ holding' = holding
    BY <1>4 DEF FeedStep, Feed!LoopTop, Feed!ConnectFails, Feed!Wake, sinkVars
  <2>2. QED
    BY <1>1, <1>2, <2>1 DEF FeedType
<1>5. CASE FeedStep(Feed!ConnectOk \/ Feed!SendFails)
  <2>1. /\ Elsewhere /\ published' = published
        /\ socket' = socket \/ socket' = << >>
        /\ holding' = holding \/ holding' = << >>
    BY <1>5 DEF FeedStep, Feed!ConnectOk, Feed!SendFails, sinkVars
  <2>2. QED
    BY <1>1, <1>2, <2>1, NoFrames DEF FeedType
<1>6. CASE FeedStep(Feed!ReadEvent \/ Feed!ReadOther)
  <2>1. /\ Elsewhere /\ published' = published /\ socket # << >> /\ socket' = Tail(socket)
        /\ holding' = holding \/ holding' = <<Head(socket)>>
    BY <1>6 DEF FeedStep, Feed!ReadEvent, Feed!ReadOther, sinkVars
  <2>2. Tail(socket) \in Frames /\ <<Head(socket)>> \in Frames
    BY <1>2, <2>1, FramesHead, Zenon DEF FeedType
  <2>3. FeedType'
    BY <1>2, <2>1, <2>2, Zenon DEF FeedType
  <2>4. QED
    BY <1>1, <2>1, <2>3
<1>7. CASE FeedStep(Feed!Remote)
  <2>1. Elsewhere /\ holding' = holding
    BY <1>7, RemoteSteps DEF sinkVars
  <2>2. /\ published' \in Nat
        /\ \E kept \in Frames, e \in Frame : socket' = Append(kept, e)
    <3>1. Feed!Remote
      BY <1>7, Zenon DEF FeedStep
    <3>2. ASSUME NEW good \in BOOLEAN, Feed!Publish(good)
          PROVE  /\ published' = published + 1
                 /\ socket' = Append(socket, [id |-> published + 1, good |-> good])
      BY <3>2 DEF Feed!Publish
    <3>3. ASSUME Feed!Disconnect
          PROVE  /\ published' = published
                 /\ \E kept \in {socket, << >>} : socket' = Append(kept, Feed!Closing)
      BY <3>3, Zenon DEF Feed!Disconnect
    <3>4. Feed!Closing \in Frame
      BY DEF Feed!Closing, Frame
    <3>5. \A good \in BOOLEAN : [id |-> published + 1, good |-> good] \in Frame
      BY <1>2 DEF FeedType, Frame
    <3>6. published + 1 \in Nat /\ published \in Nat /\ socket \in Frames /\ << >> \in Frames
      BY <1>2, NoFrames DEF FeedType
    <3>7. CASE \E good \in BOOLEAN : Feed!Publish(good)
      BY <3>2, <3>5, <3>6, <3>7, Zenon
    <3>8. CASE Feed!Disconnect
      BY <3>3, <3>4, <3>6, <3>8, Zenon
    <3>9. QED
      BY <3>1, <3>7, <3>8, Zenon DEF Feed!Remote
  <2>3. \A kept \in Frames, e \in Frame : Append(kept, e) \in Frames
    BY DEF Frames
  <2>4. FeedType'
    BY <1>2, <2>1, <2>2, <2>3, Zenon DEF FeedType
  <2>5. QED
    BY <1>1, <2>1, <2>4
<1>8. QED
  BY <1>3, <1>4, <1>5, <1>6, <1>7, Zenon DEF FeedStep, Feed!Client

\* An output goes to the broadcast channel.
LEMMA BroadcastFlows ==
  ASSUME FlowInv, SinkStep(Sink!Broadcast)
  PROVE  FlowInv' /\ \E e \in Frame : broadcasted' = Append(broadcasted, e)
<1>1. /\ outbox # << >> /\ outbox' = Tail(outbox)
      /\ broadcasted' = Append(broadcasted, Head(outbox))
      /\ inbox' = inbox /\ forwarded' = forwarded /\ gone' = gone /\ output' = output
      /\ published' = published /\ socket' = socket /\ holding' = holding
      /\ listener' = listener
  BY DEF SinkStep, Sink!Broadcast, feedVars
<1>2. outbox \in Frames /\ broadcasted \in Frames
  BY Zenon DEF FlowInv, FlowType
<1>3. /\ Head(outbox) \in Frame /\ Tail(outbox) \in Frames
      /\ Append(broadcasted, Head(outbox)) \in Frames
      /\ broadcasted \o outbox = Append(broadcasted, Head(outbox)) \o Tail(outbox)
  BY <1>1, <1>2, FramesHead, Zenon
<1>4. FeedType' /\ FlowType'
  BY <1>1, <1>3, Zenon DEF FlowInv, FeedType, FlowType
<1>5. Through' = Through /\ output' \o inbox' = output \o inbox
  BY <1>1, <1>3, Zenon DEF Through
<1>6. FlowInv'
  BY <1>1, <1>4, <1>5, SameFlow, Zenon
<1>7. QED
  BY <1>1, <1>3, <1>6, Zenon

\* The sink cannot start, and what is in its channel is lost.
LEMMA BindFailsFlows == ASSUME FlowInv, SinkStep(Sink!BindFails) PROVE FlowInv'
<1>1. /\ outbox' = << >> /\ listener' = "failed" /\ broadcasted' = broadcasted
      /\ inbox' = inbox /\ forwarded' = forwarded /\ gone' = gone /\ output' = output
      /\ published' = published /\ socket' = socket /\ holding' = holding
  BY DEF SinkStep, Sink!BindFails, feedVars
<1>2. FeedType' /\ FlowType'
  BY <1>1, NoFrames, Zenon DEF FlowInv, FeedType, FlowType
<1>3. /\ broadcasted \in Frames /\ outbox \in Frames /\ forwarded \in Frames /\ Through \in Frames
      /\ Through' = broadcasted
  BY <1>1, FramesConcat, NoFrames, Zenon DEF FlowInv, FlowType, Through
<1>4. IsPrefix(broadcasted, Through) /\ IsPrefix(Through, forwarded)
  BY <1>3, FramesConcat, Zenon DEF FlowInv, Flow, Through
<1>5. IsPrefix(Through', forwarded')
  BY <1>1, <1>3, <1>4, FramesPrefix, Zenon
<1>6. QED
  BY <1>1, <1>2, <1>5 DEF FlowInv, Flow

\* The steps of the sink by which no output moves.
flowVars == <<published, socket, holding, inbox, output, outbox, broadcasted, forwarded, gone>>

LEMMA SameFlowVars ==
  ASSUME FlowInv, UNCHANGED flowVars, listener = "failed" => listener' = "failed"
  PROVE  FlowInv'
<1>1. FeedType' /\ FlowType'
  BY Zenon DEF FlowInv, FeedType, FlowType, flowVars
<1>2. /\ Through' = Through /\ output' \o inbox' = output \o inbox /\ forwarded' = forwarded
      /\ gone' = gone
  BY Zenon DEF flowVars, Through
<1>3. QED
  BY <1>1, <1>2, SameFlow, Zenon

(***************************************************************************)
(* What the clients of the sink see                                        *)
(***************************************************************************)

\* The frames s are those before place n of b.
EndsBefore(s, n, b) ==
  /\ s \in Frames /\ n \in Nat
  /\ Len(s) < n /\ n <= Len(b) + 1
  /\ \A i \in 1 .. Len(s) : s[i] = b[n - 1 - Len(s) + i]

\* A client has seen a run of outputs that ends where its receiver is, and nothing before it
\* was accepted.
SeenInv ==
  /\ task \in [Clients -> {"none", "handshake", "open", "ended"}]
  /\ DOMAIN next = Clients /\ DOMAIN seen = Clients
  /\ \A c \in Clients : /\ EndsBefore(seen[c], next[c], broadcasted)
                        /\ task[c] = "none" => seen[c] = << >>

LEMMA NothingSeen ==
  ASSUME NEW b \in Frames PROVE EndsBefore(<< >>, Len(b) + 1, b)
<1>1. Len(<< >>) = 0 /\ Len(b) \in Nat /\ << >> \in Frames
  BY DEF Frames
<1>2. QED
  BY <1>1 DEF EndsBefore

LEMMA BroadcastGrows ==
  ASSUME NEW b \in Frames, NEW e \in Frame, NEW s, NEW n, EndsBefore(s, n, b)
  PROVE  EndsBefore(s, n, Append(b, e))
<1> DEFINE t == Append(b, e)
<1>1. Len(t) = Len(b) + 1 /\ \A i \in 1 .. Len(b) : t[i] = b[i]
  BY AppendProperties DEF Frames
<1>2. Len(b) \in Nat /\ Len(s) \in Nat
  BY DEF Frames, EndsBefore
<1> HIDE DEF t
<1>3. EndsBefore(s, n, t)
  <2>1. /\ s \in Frames /\ n \in Nat /\ Len(s) < n /\ n <= Len(b) + 1
        /\ \A i \in 1 .. Len(s) : s[i] = b[n - 1 - Len(s) + i]
    BY DEF EndsBefore
  <2>2. \A i \in 1 .. Len(s) : n - 1 - Len(s) + i \in 1 .. Len(b)
    BY <1>2, <2>1
  <2>3. \A i \in 1 .. Len(s) : s[i] = t[n - 1 - Len(s) + i]
    BY <1>1, <2>1, <2>2
  <2>4. n <= Len(t) + 1
    BY <1>1, <1>2, <2>1
  <2>5. QED
    BY <2>1, <2>3, <2>4, Zenon DEF EndsBefore
<1>4. QED
  BY <1>3 DEF t

\* The output at place n is written to the client.
LEMMA WriteSees ==
  ASSUME NEW b \in Frames, NEW s, NEW n, EndsBefore(s, n, b), n <= Len(b)
  PROVE  EndsBefore(Append(s, b[n]), n + 1, b)
<1> DEFINE e == b[n]
<1> DEFINE t == Append(s, e)
<1>1. Len(b) \in Nat /\ Len(s) \in Nat /\ n \in 1 .. Len(b) /\ s \in Frames
  BY DEF Frames, EndsBefore
<1>2. e \in Frame
  BY <1>1, ElementOfSeq DEF Frames
<1> HIDE DEF e
<1>3. /\ t \in Frames /\ Len(t) = Len(s) + 1 /\ \A i \in 1 .. Len(s) : t[i] = s[i]
      /\ t[Len(s) + 1] = e
  BY <1>1, <1>2, AppendProperties DEF Frames
<1> HIDE DEF t
<1>4. ASSUME NEW i \in 1 .. Len(t) PROVE t[i] = b[n - Len(t) + i]
  <2>1. CASE i = Len(t)
    BY <1>1, <1>3, <2>1 DEF e
  <2>2. CASE i # Len(t)
    <3>1. i \in 1 .. Len(s) /\ n - 1 - Len(s) + i = n - Len(t) + i
      BY <1>1, <1>3, <2>2
    <3>2. t[i] = s[i] /\ s[i] = b[n - 1 - Len(s) + i]
      BY <1>3, <3>1 DEF EndsBefore
    <3>3. QED
      BY <3>1, <3>2
  <2>3. QED
    BY <2>1, <2>2
<1>5. n + 1 \in Nat /\ Len(t) < n + 1 /\ n + 1 <= Len(b) + 1 /\ n + 1 - 1 = n
  BY <1>1, <1>3 DEF EndsBefore
<1>6. EndsBefore(t, n + 1, b)
  BY <1>3, <1>4, <1>5 DEF EndsBefore
<1>7. QED
  BY <1>6 DEF t, e

LEMMA SeenInit == Init => SeenInv
<1> SUFFICES ASSUME Init PROVE SeenInv
  OBVIOUS
<1>1. /\ broadcasted = << >> /\ task = [c \in Clients |-> "none"]
      /\ next = [c \in Clients |-> 1] /\ seen = [c \in Clients |-> << >>]
  BY DEF Init, Sink!Init
<1>2. EndsBefore(<< >>, 1, << >>)
  BY NothingSeen, NoFrames DEF EndsBefore
<1>3. QED
  BY <1>1, <1>2 DEF SeenInv

LEMMA SeenUnchanged ==
  ASSUME SeenInv, UNCHANGED <<broadcasted, task, next, seen>>
  PROVE  SeenInv'
BY Zenon DEF SeenInv, EndsBefore

LEMMA BroadcastSeen ==
  ASSUME SeenInv, FlowInv, SinkStep(Sink!Broadcast)
  PROVE  SeenInv'
<1>1. task' = task /\ next' = next /\ seen' = seen
  BY DEF SinkStep, Sink!Broadcast
<1>2. PICK e \in Frame : broadcasted' = Append(broadcasted, e)
  BY BroadcastFlows
<1>3. broadcasted \in Frames
  BY Zenon DEF FlowInv, FlowType
<1>4. \A c \in Clients : EndsBefore(seen[c], next[c], Append(broadcasted, e))
  BY <1>3, BroadcastGrows DEF SeenInv
<1>5. QED
  BY <1>1, <1>2, <1>4, Zenon DEF SeenInv

\* A client's task changes at most how far this client is.
LEMMA ClientSees ==
  ASSUME SeenInv, FlowInv, NEW c \in Clients, SinkStep(Sink!ClientTask(c))
  PROVE  SeenInv'
<1>1. broadcasted \in Frames /\ broadcasted' = broadcasted
  BY Zenon DEF FlowInv, FlowType, SinkStep, Sink!ClientTask, Sink!AcceptClient, Sink!Handshake,
     Sink!Write, Sink!LagEnds, Sink!ClientFails
<1>2. ASSUME task' \in [Clients -> {"none", "handshake", "open", "ended"}],
             DOMAIN next' = Clients, DOMAIN seen' = Clients,
             \A d \in Clients : d # c =>
               task'[d] = task[d] /\ next'[d] = next[d] /\ seen'[d] = seen[d],
             EndsBefore(seen'[c], next'[c], broadcasted), task'[c] # "none"
      PROVE  SeenInv'
  <2>1. ASSUME NEW d \in Clients
        PROVE  /\ EndsBefore(seen'[d], next'[d], broadcasted)
               /\ task'[d] = "none" => seen'[d] = << >>
    <3>1. CASE d = c
      BY <1>2, <3>1, Zenon
    <3>2. CASE d # c
      BY <1>2, <3>2, Zenon DEF SeenInv
    <3>3. QED
      BY <3>1, <3>2
  <2>2. QED
    BY <1>1, <1>2, <2>1, Zenon DEF SeenInv
<1>3. CASE SinkStep(Sink!AcceptClient(c))
  <2>1. /\ task[c] = "none" /\ task' = [task EXCEPT ![c] = "handshake"]
        /\ next' = [next EXCEPT ![c] = Len(broadcasted) + 1] /\ seen' = seen
    BY <1>3 DEF SinkStep, Sink!AcceptClient
  <2>2. EndsBefore(seen'[c], next'[c], broadcasted)
    BY <1>1, <2>1, NothingSeen DEF SeenInv
  <2>3. QED
    BY <1>2, <2>1, <2>2 DEF SeenInv
<1>4. CASE SinkStep(Sink!Handshake(c) \/ Sink!LagEnds(c) \/ Sink!ClientFails(c))
  <2>1. /\ task' = [task EXCEPT ![c] = "open"] \/ task' = [task EXCEPT ![c] = "ended"]
        /\ next' = next /\ seen' = seen
    BY <1>4 DEF SinkStep, Sink!Handshake, Sink!LagEnds, Sink!ClientFails
  <2>2. EndsBefore(seen'[c], next'[c], broadcasted)
    BY <2>1 DEF SeenInv
  <2>3. QED
    BY <1>2, <2>1, <2>2 DEF SeenInv
<1>5. CASE SinkStep(Sink!Write(c))
  <2>1. /\ task[c] = "open" /\ task' = task /\ Sink!Behind(c) > 0
        /\ seen' = [seen EXCEPT ![c] = Append(seen[c], broadcasted[next[c]])]
        /\ next' = [next EXCEPT ![c] = next[c] + 1]
    BY <1>5 DEF SinkStep, Sink!Write
  <2>2. next[c] <= Len(broadcasted)
    <3>1. Len(broadcasted) \in Nat /\ next[c] \in Nat
      BY <1>1 DEF SeenInv, EndsBefore, Frames
    <3>2. QED
      BY <2>1, <3>1 DEF Sink!Behind
  <2>3. EndsBefore(Append(seen[c], broadcasted[next[c]]), next[c] + 1, broadcasted)
    BY <1>1, <2>2, WriteSees DEF SeenInv
  <2>4. seen'[c] = Append(seen[c], broadcasted[next[c]]) /\ next'[c] = next[c] + 1
    BY <2>1 DEF SeenInv
  <2>5. EndsBefore(seen'[c], next'[c], broadcasted)
    BY <2>3, <2>4, Zenon
  <2>6. /\ DOMAIN next' = Clients /\ DOMAIN seen' = Clients
        /\ \A d \in Clients : d # c => next'[d] = next[d] /\ seen'[d] = seen[d]
    BY <2>1 DEF SeenInv
  <2>7. QED
    BY <1>2, <2>1, <2>5, <2>6 DEF SeenInv
<1>6. QED
  BY <1>3, <1>4, <1>5, Zenon DEF SinkStep, Sink!ClientTask

WayInv == FlowInv /\ SeenInv

LEMMA WayNext == ASSUME WayInv, [Next]_vars PROVE WayInv'
<1>1. FlowInv /\ SeenInv
  BY DEF WayInv
<1>2. CASE Pipeline
  <2>1. FlowInv'
    BY <1>1, <1>2, TakeFlows, SendFlows, ReturnFlows DEF Pipeline
  <2>2. UNCHANGED <<broadcasted, task, next, seen>>
    BY <1>2 DEF Pipeline, Take, Send, RunReturns, sinkVars
  <2>3. QED
    BY <1>1, <2>1, <2>2, SeenUnchanged, Zenon DEF WayInv
<1>3. CASE FeedStep(Feed!Client) \/ FeedStep(Feed!Remote)
  <2>1. UNCHANGED <<broadcasted, task, next, seen>>
    BY <1>3, Zenon DEF FeedStep, sinkVars
  <2>2. QED
    BY <1>1, <1>3, <2>1, FeedFlows, SeenUnchanged, Zenon DEF WayInv
<1>4. CASE SinkStep(Sink!Listener)
  <2>1. UNCHANGED <<broadcasted, task, next, seen>>
    BY <1>4 DEF SinkStep, Sink!Listener, Sink!Bind, Sink!BindFails, Sink!AcceptFails
  <2>2. FlowInv'
    <3>1. CASE SinkStep(Sink!Bind \/ Sink!AcceptFails)
      <4>1. UNCHANGED flowVars /\ listener # "failed"
        BY <3>1 DEF SinkStep, Sink!Bind, Sink!AcceptFails, feedVars, flowVars
      <4>2. QED
        BY <1>1, <4>1, SameFlowVars
    <3>2. CASE SinkStep(Sink!BindFails)
      BY <1>1, <3>2, BindFailsFlows
    <3>3. QED
      BY <1>4, <3>1, <3>2, Zenon DEF SinkStep, Sink!Listener
  <2>3. QED
    BY <1>1, <2>1, <2>2, SeenUnchanged, Zenon DEF WayInv
<1>5. CASE SinkStep(Sink!Broadcast)
  BY <1>1, <1>5, BroadcastFlows, BroadcastSeen DEF WayInv
<1>6. CASE SinkStep(\E c \in Clients : Sink!ClientTask(c))
  <2>1. PICK c \in Clients : SinkStep(Sink!ClientTask(c))
    BY <1>6, Zenon DEF SinkStep
  <2>2. UNCHANGED flowVars /\ listener' = listener
    BY <2>1 DEF SinkStep, Sink!ClientTask, Sink!AcceptClient, Sink!Handshake, Sink!Write,
       Sink!LagEnds, Sink!ClientFails, feedVars, flowVars
  <2>3. QED
    BY <1>1, <2>1, <2>2, SameFlowVars, ClientSees DEF WayInv
<1>7. CASE UNCHANGED vars
  <2>1. UNCHANGED flowVars /\ listener' = listener
    BY <1>7 DEF vars, feedVars, sinkVars, flowVars
  <2>2. UNCHANGED <<broadcasted, task, next, seen>>
    BY <1>7 DEF vars, sinkVars
  <2>3. QED
    BY <1>1, <2>1, <2>2, SameFlowVars, SeenUnchanged DEF WayInv
<1>8. QED
  BY <1>2, <1>3, <1>4, <1>5, <1>6, <1>7, Zenon DEF Next

\* Whatever is broadcast was forwarded at the same place, so a run of the one is a run of the
\* other.
LEMMA WaySeesNoGap == WayInv => ClientsSeeNoGap
<1> SUFFICES ASSUME WayInv, NEW c \in Clients
             PROVE  \E from \in 0 .. Len(forwarded) - Len(seen[c]) :
                      \A i \in 1 .. Len(seen[c]) : seen[c][i] = forwarded[from + i]
  BY DEF ClientsSeeNoGap
<1>1. /\ broadcasted \in Frames /\ outbox \in Frames /\ forwarded \in Frames
      /\ IsPrefix(Through, forwarded)
  BY Zenon DEF WayInv, FlowInv, FlowType, Flow
<1>2. IsPrefix(broadcasted, forwarded)
  BY <1>1, FramesConcat, FramesPrefix, Zenon DEF Through
<1>3. /\ Len(broadcasted) <= Len(forwarded)
      /\ \A i \in 1 .. Len(broadcasted) : broadcasted[i] = forwarded[i]
  BY <1>1, <1>2, PrefixByPlace DEF Frames
<1>4. EndsBefore(seen[c], next[c], broadcasted)
  BY Zenon DEF WayInv, SeenInv
<1>5. PICK s, n : s = seen[c] /\ n = next[c]
  OBVIOUS
<1>6. EndsBefore(s, n, broadcasted)
  BY <1>4, <1>5, Zenon
<1>7. Len(s) \in Nat /\ n \in Nat /\ Len(broadcasted) \in Nat /\ Len(forwarded) \in Nat
  BY <1>1, <1>6 DEF Frames, EndsBefore
<1>8. n - 1 - Len(s) \in 0 .. Len(forwarded) - Len(s)
  BY <1>3, <1>6, <1>7 DEF EndsBefore
<1>9. \A i \in 1 .. Len(s) : s[i] = forwarded[n - 1 - Len(s) + i]
  <2>1. SUFFICES ASSUME NEW i \in 1 .. Len(s) PROVE s[i] = forwarded[n - 1 - Len(s) + i]
    OBVIOUS
  <2>2. n - 1 - Len(s) + i \in 1 .. Len(broadcasted)
    BY <1>6, <1>7 DEF EndsBefore
  <2>3. s[i] = broadcasted[n - 1 - Len(s) + i]
    BY <1>6 DEF EndsBefore
  <2>4. QED
    BY <1>3, <2>2, <2>3
<1>10. \E from \in 0 .. Len(forwarded) - Len(s) : \A i \in 1 .. Len(s) : s[i] = forwarded[from + i]
  BY <1>8, <1>9
<1>11. QED
  BY <1>5, <1>10, Zenon

\* What a client of the sink sees is a run of the feed's events, whatever the feed, the other
\* clients and the failures of the sink do.
THEOREM ClientsMissNothingBetween == Spec => []ClientsSeeNoGap
<1>1. Init => WayInv
  BY FlowInit, SeenInit DEF WayInv
<1>2. WayInv /\ [Next]_vars => WayInv'
  BY WayNext
<1>3. WayInv => ClientsSeeNoGap
  BY WaySeesNoGap
<1>4. QED
  BY <1>1, <1>2, <1>3, PTL DEF Spec

=============================================================================
