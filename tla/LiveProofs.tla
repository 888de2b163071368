----------------------------- MODULE LiveProofs -----------------------------
(***************************************************************************)
(* Theorems about Live, for every number of clients, ticks and changes and *)
(* every size of the buffer.  Positions says where a receiver can stand,   *)
(* BufferReached what a lag cannot take from it, DetailsKnown how what has *)
(* been published of the host hangs together with last_details.            *)
(***************************************************************************)
EXTENDS Live, TLAPS

\* A receiver is not before its subscription; the message that is being
\* written is the one it has just moved past.
Positions ==
  \A c \in Client :
    /\ handler[c] = "acking" => cursor[c] = acked[c]
    /\ Following(c) => acked[c] <= cursor[c]
    /\ handler[c] = "writing" => holding[c] = cursor[c]

\* What lies behind a receiver, and not too far from the end of the channel
\* to be in the buffer, has been written or is being written.
BufferReached ==
  \A c \in Client : Following(c) =>
    {p \in acked[c] + 1 .. cursor[c] : p + Buffer > End}
      \subseteq received[c] \cup {holding[c]}

\* No details have been published that are newer than last_details.
DetailsKnown ==
  /\ lastDetails # NoDetails => lastDetails <= host
  /\ \A p \in 1 .. End : sent[p].kind = "details" =>
       lastDetails # NoDetails /\ sent[p].of <= lastDetails

Stream  == Positions /\ BufferReached /\ NothingSkippedUnlapped
Details == DetailsKnown /\ DetailsOnlyOnChange

-----------------------------------------------------------------------------
(* Publish, and what the telemetry loop does by it.                        *)

\* The channel grows by the message, or stays as it is.
Grows(message) == sent' \in {sent, Append(sent, message)}

LEMMA SentGrows ==
  ASSUME TypeOK, NEW m \in Message, Grows(m)
  PROVE  /\ sent' \in Seq(Message)
         /\ End \in Nat /\ End' \in Nat /\ End <= End' /\ End' <= End + 1
         /\ \A p \in 1 .. End : sent'[p] = sent[p]
         /\ \A p \in 1 .. End' : p <= End \/ sent'[p] = m
<1>1. sent \in Seq(Message)
  BY DEF TypeOK
<1>2. CASE sent' = sent
  BY <1>1, <1>2 DEF End
<1>3. CASE sent' = Append(sent, m)
  BY <1>1, <1>3 DEF End
<1> QED
  BY <1>2, <1>3 DEF Grows

LEMMA ProbeGrows ==
  ASSUME TypeOK, NEW persist \in BOOLEAN, Probe(persist)
  PROVE  \E m \in Message : m.kind = "reading" /\ Grows(m)
<1>1. probes + 1 \in 1 .. MaxProbes
  BY LiveAssumption DEF Probe, TypeOK
<1>2. [kind |-> "reading", of |-> probes + 1] \in Message
  BY <1>1 DEF Message
<1>3. Grows([kind |-> "reading", of |-> probes + 1])
  BY DEF Probe, Publish, Grows
<1> QED
  BY <1>2, <1>3

LEMMA CollectGrows ==
  ASSUME TypeOK, Collect
  PROVE  /\ [kind |-> "details", of |-> host] \in Message
         /\ Grows([kind |-> "details", of |-> host])
         /\ host = lastDetails => sent' = sent
BY DEF TypeOK, Message, Collect, Publish, Grows

LEMMA TelemetryGrows ==
  ASSUME TypeOK, Telemetry
  PROVE  (\E m \in Message : Grows(m)) /\ UNCHANGED clientVars
BY ProbeGrows, CollectGrows DEF Telemetry, Probe, Collect

-----------------------------------------------------------------------------
(* Types.                                                                  *)

LEMMA TypeInit == Init => TypeOK
BY LiveAssumption DEF Init, TypeOK, End

LEMMA ClientTypesGrow ==
  ASSUME TypeOK, UNCHANGED clientVars, End' \in Nat, End <= End', End \in Nat
  PROVE  /\ handler' \in [Client -> {"other", "acking", "waiting", "writing"}]
         /\ cursor' \in [Client -> 0 .. End']
         /\ holding' \in [Client -> 0 .. End']
         /\ \A c \in Client : holding'[c] # 0 <=> handler'[c] = "writing"
         /\ acked' \in [Client -> 0 .. End']
         /\ received' \in [Client -> SUBSET (1 .. End')]
         /\ lapped' \in [Client -> BOOLEAN]
<1>1. 0 .. End \subseteq 0 .. End' /\ 1 .. End \subseteq 1 .. End'
  OBVIOUS
<1> QED
  BY <1>1 DEF TypeOK, clientVars

LEMMA TypeStep ==
  ASSUME TypeOK, [Next]_vars
  PROVE  TypeOK'
<1> USE LiveAssumption DEF loopVars
<1>0. sent \in Seq(Message) /\ End \in Nat
  BY DEF TypeOK, End
<1>1. CASE UNCHANGED vars
  BY <1>1 DEF vars, clientVars, TypeOK, End
<1>2. ASSUME NEW persist \in BOOLEAN, Probe(persist) PROVE TypeOK'
  <2>1. PICK m \in Message : Grows(m)
    BY <1>2, ProbeGrows
  <2>2. probes' \in 0 .. MaxProbes /\ UNCHANGED clientVars
    BY <1>2 DEF Probe, TypeOK
  <2> QED
    BY <1>2, <2>1, <2>2, SentGrows, ClientTypesGrow DEF Probe, TypeOK
<1>3. CASE Collect
  BY <1>3, CollectGrows, SentGrows, ClientTypesGrow DEF Collect, TypeOK
<1>4. CASE HostChanges
  BY <1>4 DEF HostChanges, clientVars, TypeOK, End
<1>5. ASSUME NEW c \in Client, Subscribe(c) PROVE TypeOK'
  BY <1>0, <1>5 DEF Subscribe, TypeOK, End
<1>6. ASSUME NEW c \in Client, AckWritten(c) PROVE TypeOK'
  BY <1>0, <1>6 DEF AckWritten, TypeOK, End
<1>7. ASSUME NEW c \in Client, Receive(c) PROVE TypeOK'
  <2>1. cursor[c] + 1 \in 1 .. End
    BY <1>0, <1>7 DEF Receive, Behind, TypeOK
  <2> QED
    BY <1>0, <1>7, <2>1 DEF Receive, TypeOK, End
<1>8. ASSUME NEW c \in Client, Lag(c) PROVE TypeOK'
  <2>1. End - Buffer \in 0 .. End
    BY <1>0, <1>8 DEF Lag, Behind, TypeOK
  <2> QED
    BY <1>0, <1>8, <2>1 DEF Lag, TypeOK, End
<1>9. ASSUME NEW c \in Client, Written(c) PROVE TypeOK'
  <2>1. holding[c] \in 1 .. End
    BY <1>0, <1>9 DEF Written, TypeOK
  <2> QED
    BY <1>0, <1>9, <2>1 DEF Written, TypeOK, End
<1>10. ASSUME NEW c \in Client, Unsubscribe(c) PROVE TypeOK'
  BY <1>0, <1>10 DEF Unsubscribe, TypeOK, End
<1> QED
  BY <1>1, <1>2, <1>3, <1>4, <1>5, <1>6, <1>7, <1>8, <1>9, <1>10
  DEF Next, Telemetry, Follow

\* The positions of a subscriber, and what it has been written, always lie
\* within what has been published; only one that writes holds a message.
THEOREM TypeCorrect == Spec => []TypeOK
BY TypeInit, TypeStep, PTL DEF Spec

-----------------------------------------------------------------------------
(* What a subscriber is written.                                           *)

LEMMA StreamInit == Init => Stream
BY DEF Init, Stream, Positions, BufferReached, NothingSkippedUnlapped, Following

LEMMA StreamStep ==
  ASSUME TypeOK, TypeOK', Stream, [Next]_vars
  PROVE  Stream'
<1> USE LiveAssumption DEF loopVars, Following
<1>0. End \in Nat /\ End' \in Nat
  BY DEF TypeOK, End
<1>1. ASSUME UNCHANGED clientVars, End <= End' PROVE Stream'
  <2>1. UNCHANGED <<handler, cursor, holding, acked, received, lapped>>
    BY <1>1 DEF clientVars
  <2>2. BufferReached'
    <3> SUFFICES ASSUME NEW c \in Client, Following(c),
                        NEW p \in acked[c] + 1 .. cursor[c], p + Buffer > End'
                 PROVE  p \in received[c] \cup {holding[c]}
      BY <2>1 DEF BufferReached
    <3>1. cursor[c] \in Nat /\ acked[c] \in Nat
      BY DEF TypeOK
    <3>2. p + Buffer > End
      BY <1>0, <1>1, <3>1
    <3> QED
      BY <3>2 DEF Stream, BufferReached
  <2> QED
    BY <2>1, <2>2 DEF Stream, Positions, NothingSkippedUnlapped
<1>2. CASE UNCHANGED vars \/ Telemetry \/ HostChanges
  <2>1. UNCHANGED clientVars /\ End <= End'
    <3>1. CASE Telemetry
      BY <3>1, TelemetryGrows, SentGrows
    <3>2. CASE UNCHANGED vars \/ HostChanges
      BY <1>0, <3>2 DEF vars, HostChanges, End
    <3> QED
      BY <1>2, <3>1, <3>2
  <2> QED
    BY <1>1, <2>1
<1>3. ASSUME NEW c \in Client, Subscribe(c) \/ Follow(c) \/ Unsubscribe(c)
      PROVE  Stream'
  <2>1. End' = End
    BY <1>3 DEF Subscribe, Follow, AckWritten, Receive, Lag, Written,
                Unsubscribe, End
  <2>2. \A d \in Client \ {c} :
          /\ handler'[d] = handler[d] /\ cursor'[d] = cursor[d]
          /\ holding'[d] = holding[d] /\ acked'[d] = acked[d]
          /\ received'[d] = received[d] /\ lapped'[d] = lapped[d]
    <3>1. CASE Subscribe(c) \/ AckWritten(c)
      BY <3>1 DEF Subscribe, AckWritten, TypeOK
    <3>2. CASE Receive(c) \/ Lag(c)
      BY <3>2 DEF Receive, Lag, TypeOK
    <3>3. CASE Written(c) \/ Unsubscribe(c)
      BY <3>3 DEF Written, Unsubscribe, TypeOK
    <3> QED
      BY <1>3, <3>1, <3>2, <3>3 DEF Follow
  <2>3. /\ cursor[c] \in 0 .. End /\ acked[c] \in 0 .. End
        /\ cursor'[c] \in 0 .. End' /\ acked'[c] \in 0 .. End'
    BY DEF TypeOK
  <2>4. \* What is left to show, of c alone.
        ASSUME /\ handler'[c] = "acking" => cursor'[c] = acked'[c]
               /\ Following(c)' => acked'[c] <= cursor'[c]
               /\ handler'[c] = "writing" => holding'[c] = cursor'[c]
               /\ Following(c)' =>
                    \A p \in acked'[c] + 1 .. cursor'[c] :
                      p + Buffer > End \/ ~lapped'[c]
                        => p \in received'[c] \cup {holding'[c]}
        PROVE  Stream'
    BY <2>1, <2>2, <2>4
    DEF Stream, Positions, BufferReached, NothingSkippedUnlapped
  <2>5. CASE Subscribe(c) \/ Unsubscribe(c)
    <3>1. ~Following(c)' /\ cursor'[c] = acked'[c]
          /\ handler'[c] # "writing"
      BY <2>5 DEF Subscribe, Unsubscribe, TypeOK
    <3> QED
      BY <2>4, <3>1
  <2>6. CASE AckWritten(c)
    <3>1. handler'[c] = "waiting" /\ cursor'[c] = acked'[c]
      BY <2>6 DEF AckWritten, TypeOK, Stream, Positions
    <3> QED
      BY <2>3, <2>4, <3>1
  <2>7. CASE Receive(c)
    <3>1. /\ handler'[c] = "writing" /\ acked'[c] = acked[c]
          /\ cursor'[c] = cursor[c] + 1 /\ holding'[c] = cursor[c] + 1
          /\ received'[c] = received[c] /\ lapped'[c] = lapped[c]
          /\ Following(c) /\ holding[c] = 0
      BY <2>7 DEF Receive, TypeOK
    <3>2. acked[c] <= cursor[c]
      BY <3>1 DEF Stream, Positions
    <3>3. ASSUME NEW p \in acked[c] + 1 .. cursor[c] + 1,
                 p + Buffer > End \/ ~lapped[c]
          PROVE  p \in received[c] \cup {cursor[c] + 1}
      <4>1. CASE p = cursor[c] + 1
        BY <4>1
      <4>2. CASE p \in acked[c] + 1 .. cursor[c]
        <5>1. p \in received[c] \cup {holding[c]}
          BY <3>1, <3>3, <4>2
          DEF Stream, BufferReached, NothingSkippedUnlapped
        <5> QED
          BY <2>3, <3>1, <4>2, <5>1
      <4> QED
        BY <2>3, <4>1, <4>2
    <3> QED
      BY <2>3, <2>4, <3>1, <3>2, <3>3
  <2>8. CASE Lag(c)
    <3>1. /\ handler'[c] = "waiting" /\ acked'[c] = acked[c]
          /\ cursor'[c] = End - Buffer /\ lapped'[c]
          /\ Following(c) /\ End - cursor[c] > Buffer
      BY <2>8 DEF Lag, Behind, TypeOK
    <3>2. acked[c] <= cursor[c]
      BY <3>1 DEF Stream, Positions
    <3>3. \A p \in acked[c] + 1 .. End - Buffer : ~(p + Buffer > End)
      BY <1>0, <2>3
    <3> QED
      BY <1>0, <2>3, <2>4, <3>1, <3>2, <3>3
  <2>9. CASE Written(c)
    <3>1. /\ handler'[c] = "waiting" /\ acked'[c] = acked[c]
          /\ cursor'[c] = cursor[c] /\ lapped'[c] = lapped[c]
          /\ received'[c] = received[c] \cup {holding[c]} /\ Following(c)
      BY <2>9 DEF Written, TypeOK
    <3> QED
      BY <2>4, <3>1
      DEF Stream, Positions, BufferReached, NothingSkippedUnlapped
  <2> QED
    BY <1>3, <2>5, <2>6, <2>7, <2>8, <2>9 DEF Follow
<1> QED
  BY <1>2, <1>3 DEF Next

\* Every message published after a subscription, up to where its receiver
\* stands, is written to the client, unless the receiver was lapped.
THEOREM NothingIsSkipped == Spec => []NothingSkippedUnlapped
<1>1. Stream => NothingSkippedUnlapped
  BY DEF Stream
<1> QED
  BY <1>1, TypeInit, TypeStep, StreamInit, StreamStep, PTL DEF Spec

\* However often it is lapped, a client that has caught up has been written
\* the last BUFFER messages since its subscription.
THEOREM LagsKeepTheBuffer == Spec => []LagKeepsTheBuffer
<1>1. TypeOK /\ Stream => LagKeepsTheBuffer
  <2> SUFFICES ASSUME TypeOK, Stream, NEW c \in Client,
                      handler[c] = "waiting", cursor[c] = End,
                      NEW p \in acked[c] + 1 .. End, p + Buffer > End
               PROVE  p \in received[c]
    BY DEF LagKeepsTheBuffer
  <2>1. p \in received[c] \cup {holding[c]}
    BY DEF Stream, BufferReached, Following
  <2>2. holding[c] = 0 /\ p # 0
    BY DEF TypeOK, End
  <2> QED
    BY <2>1, <2>2
<1> QED
  BY <1>1, TypeInit, TypeStep, StreamInit, StreamStep, PTL DEF Spec

-----------------------------------------------------------------------------
(* What is published of the host.                                          *)

LEMMA DetailsInit == Init => Details
BY DEF Init, Details, DetailsKnown, DetailsOnlyOnChange, End

LEMMA DetailsStep ==
  ASSUME TypeOK, Details, [Next]_vars
  PROVE  Details'
<1> USE LiveAssumption DEF Details, loopVars
<1>0. End \in Nat /\ host \in Nat
      /\ (lastDetails # NoDetails => lastDetails \in Nat)
  BY DEF TypeOK, End
<1>1. ASSUME NEW persist \in BOOLEAN, Probe(persist) PROVE Details'
  <2>1. PICK m \in Message : m.kind = "reading" /\ Grows(m)
    BY <1>1, ProbeGrows
  <2>2. UNCHANGED <<host, lastDetails>>
    BY <1>1 DEF Probe
  <2>3. \A p \in 1 .. End' : sent'[p].kind = "details"
          => p \in 1 .. End /\ sent'[p] = sent[p]
    BY <1>0, <2>1, SentGrows
  <2> QED
    BY <2>2, <2>3 DEF DetailsKnown, DetailsOnlyOnChange
<1>2. CASE Collect
  <2> DEFINE m == [kind |-> "details", of |-> host]
  <2>1. m \in Message /\ Grows(m) /\ (host = lastDetails => sent' = sent)
    BY <1>2, CollectGrows
  <2>2. host' = host /\ lastDetails' = host
    BY <1>2 DEF Collect
  <2>3. CASE host = lastDetails
    BY <2>1, <2>2, <2>3 DEF DetailsKnown, DetailsOnlyOnChange, End
  <2>4. CASE host # lastDetails
    <3>1. \A p \in 1 .. End : sent[p].kind = "details" => sent[p].of < host
      <4> SUFFICES ASSUME NEW p \in 1 .. End, sent[p].kind = "details"
                   PROVE  sent[p].of < host
        OBVIOUS
      <4>1. sent[p] \in Message
        BY DEF TypeOK, End
      <4>2. sent[p].of \in Nat
        BY <4>1 DEF Message
      <4> QED
        BY <1>0, <2>4, <4>2 DEF DetailsKnown
    <3>2. \A p \in 1 .. End' : \/ p \in 1 .. End /\ sent'[p] = sent[p]
                               \/ p = End + 1 /\ sent'[p] = m
      BY <1>0, <2>1, SentGrows
    <3>3. DetailsKnown'
      <4> SUFFICES ASSUME NEW p \in 1 .. End', sent'[p].kind = "details"
                   PROVE  sent'[p].of <= host
        BY <1>0, <2>2 DEF DetailsKnown
      <4>1. CASE p \in 1 .. End /\ sent'[p] = sent[p]
        <5>1. sent[p] \in Message
          BY <4>1 DEF TypeOK, End
        <5>2. sent[p].of \in Nat
          BY <5>1 DEF Message
        <5> QED
          BY <1>0, <3>1, <4>1, <5>2
      <4>2. CASE sent'[p] = m
        BY <1>0, <4>2
      <4> QED
        BY <3>2, <4>1, <4>2
    <3>4. DetailsOnlyOnChange'
      <4> SUFFICES ASSUME NEW p \in 1 .. End', NEW q \in 1 .. End', p # q,
                          sent'[p].kind = "details", sent'[q].kind = "details"
                   PROVE  sent'[p].of # sent'[q].of
        BY DEF DetailsOnlyOnChange
      <4>1. CASE p \in 1 .. End /\ q \in 1 .. End
        BY <1>0, <3>2, <4>1 DEF DetailsOnlyOnChange
      <4>2. \A x \in 1 .. End : sent[x].kind = "details" => sent[x].of # host
        BY <1>0, <3>1
      <4> QED
        BY <1>0, <3>2, <4>1, <4>2
    <3> QED
      BY <3>3, <3>4
  <2> QED
    BY <2>3, <2>4
<1>3. CASE HostChanges
  <2>1. host <= host' /\ host' \in Nat /\ UNCHANGED <<lastDetails, sent>>
    BY <1>0, <1>3 DEF HostChanges
  <2> QED
    BY <1>0, <2>1 DEF DetailsKnown, DetailsOnlyOnChange, End
<1>4. CASE UNCHANGED <<host, lastDetails, sent>>
  BY <1>4 DEF DetailsKnown, DetailsOnlyOnChange, End
<1> QED
  BY <1>1, <1>2, <1>3, <1>4
  DEF Next, Telemetry, Follow, Subscribe, AckWritten, Receive, Lag, Written,
      Unsubscribe, vars

\* No change of the host is announced twice.
THEOREM DetailsAreNews == Spec => []DetailsOnlyOnChange
<1>1. Details => DetailsOnlyOnChange
  BY DEF Details
<1> QED
  BY <1>1, TypeInit, TypeStep, DetailsInit, DetailsStep, PTL DEF Spec
=============================================================================
