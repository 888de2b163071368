-------------------------------- MODULE Live --------------------------------
(***************************************************************************)
(* The live stream: the telemetry loop (src/src/main.rs) publishes through *)
(* a broadcast channel (src/src/live.rs) to the handlers of subscribed     *)
(* connections (handle_subscribe, src/src/transport.rs).  The channel is a *)
(* ring: a subscriber that falls more than BUFFER messages behind is moved *)
(* to the oldest one that is left.                                         *)
(*                                                                         *)
(* A message is known by its position in everything ever published; sent   *)
(* says of each whether it is a reading or the details of the host, and    *)
(* which.  The details of the host are numbered by their changes: one that *)
(* comes back to an earlier state gets a new number.                       *)
(***************************************************************************)
EXTENDS Naturals, Sequences

CONSTANTS
  Client,      \* connections that may subscribe
  Buffer,      \* BUFFER
  MaxProbes,   \* bound on the ticks of the telemetry loop
  MaxChanges,  \* bound on the changes of disk or containers
  NoDetails    \* last_details of a loop that has published none

ASSUME LiveAssumption ==
  /\ Buffer \in Nat \ {0}
  /\ MaxProbes \in Nat /\ MaxChanges \in Nat
  /\ NoDetails \notin Nat

VARIABLES
  loop,         \* the telemetry loop: "ticking" or "collecting"
  probes,       \* ticks so far
  host,         \* the state of the host's disks and containers
  lastDetails,  \* last_details
  sent,         \* the messages published so far
  handler,      \* a client's handler: not subscribed, or where it stands
  cursor,       \* the position its receiver is at
  holding,      \* the message it is writing
  \* History for the properties; no action reads it.
  acked,        \* where the channel stood when its answer was sent
  received,     \* the messages written to the client
  lapped        \* its receiver fell behind by more than the buffer

loopVars   == <<loop, probes, host, lastDetails>>
clientVars == <<handler, cursor, holding, acked, received, lapped>>
vars == <<loopVars, sent, clientVars>>

-----------------------------------------------------------------------------
End == Len(sent)

\* Handlers that own a receiver.
Receivers == {c \in Client : handler[c] # "other"}

Message == [kind : {"reading"}, of : 1 .. MaxProbes]
             \cup [kind : {"details"}, of : 0 .. MaxChanges]

TypeOK ==
  /\ loop \in {"ticking", "collecting"}
  /\ probes \in 0 .. MaxProbes
  /\ host \in 0 .. MaxChanges
  /\ lastDetails \in 0 .. MaxChanges \cup {NoDetails}
  /\ sent \in Seq(Message)
  /\ handler \in [Client -> {"other", "acking", "waiting", "writing"}]
  /\ cursor \in [Client -> 0 .. End]
  /\ holding \in [Client -> 0 .. End]
  /\ \A c \in Client : holding[c] # 0 <=> handler[c] = "writing"
  /\ acked \in [Client -> 0 .. End]
  /\ received \in [Client -> SUBSET (1 .. End)]
  /\ lapped \in [Client -> BOOLEAN]

Init ==
  /\ loop = "ticking" /\ probes = 0
  /\ host = 0 /\ lastDetails = NoDetails
  /\ sent = <<>>
  /\ handler = [c \in Client |-> "other"]
  /\ cursor = [c \in Client |-> 0]
  /\ holding = [c \in Client |-> 0]
  /\ acked = [c \in Client |-> 0]
  /\ received = [c \in Client |-> {}]
  /\ lapped = [c \in Client |-> FALSE]

-----------------------------------------------------------------------------
(* live::publish and the telemetry loop.                                   *)

\* Nothing is built, and nothing kept, when nobody listens.
Publish(message) ==
  sent' = IF Receivers = {} THEN sent ELSE Append(sent, message)

\* A tick: probe, observe, publish the reading.  The pacer decides whether the
\* window is closed by it.
Probe(persist) ==
  /\ loop = "ticking" /\ probes < MaxProbes
  /\ probes' = probes + 1
  /\ Publish([kind |-> "reading", of |-> probes'])
  /\ loop' = IF persist THEN "collecting" ELSE "ticking"
  /\ UNCHANGED <<host, lastDetails, clientVars>>

\* Mutant of Collect: last_details is not updated.
CollectForgets ==
  /\ loop = "collecting"
  /\ loop' = "ticking"
  /\ IF host # lastDetails
       THEN Publish([kind |-> "details", of |-> host])
       ELSE UNCHANGED sent
  /\ UNCHANGED <<probes, host, lastDetails, clientVars>>

\* The snapshot is collected; the details go out if they have changed since
\* they last did, or would have.
Collect ==
  /\ loop = "collecting"
  /\ loop' = "ticking"
  /\ IF host # lastDetails
       THEN Publish([kind |-> "details", of |-> host])
       ELSE UNCHANGED sent
  /\ lastDetails' = host
  /\ UNCHANGED <<probes, host, clientVars>>

HostChanges ==
  /\ host < MaxChanges
  /\ host' = host + 1
  /\ UNCHANGED <<loop, probes, lastDetails, sent, clientVars>>

-----------------------------------------------------------------------------
(* handle_subscribe.                                                       *)

\* The receiver starts at the end of the channel; the answer is sent next.
Subscribe(c) ==
  /\ handler[c] = "other"
  /\ handler' = [handler EXCEPT ![c] = "acking"]
  /\ cursor' = [cursor EXCEPT ![c] = End]
  /\ acked' = [acked EXCEPT ![c] = End]
  /\ UNCHANGED <<loopVars, sent, holding, received, lapped>>

\* Mutant of AckWritten: the receiver is made once the answer is out.
AckWrittenFirst(c) ==
  /\ handler[c] = "acking"
  /\ handler' = [handler EXCEPT ![c] = "waiting"]
  /\ cursor' = [cursor EXCEPT ![c] = End]
  /\ UNCHANGED <<loopVars, sent, acked, holding, received, lapped>>

AckWritten(c) ==
  /\ handler[c] = "acking"
  /\ handler' = [handler EXCEPT ![c] = "waiting"]
  /\ UNCHANGED <<loopVars, sent, cursor, acked, holding, received, lapped>>

Behind(c) == End - cursor[c]

\* Mutant of Receive: the newest message is taken, the others with it.
ReceiveNewest(c) ==
  /\ handler[c] = "waiting"
  /\ Behind(c) \in 1 .. Buffer
  /\ cursor' = [cursor EXCEPT ![c] = End]
  /\ holding' = [holding EXCEPT ![c] = End]
  /\ handler' = [handler EXCEPT ![c] = "writing"]
  /\ UNCHANGED <<loopVars, sent, acked, received, lapped>>

Receive(c) ==
  /\ handler[c] = "waiting"
  /\ Behind(c) \in 1 .. Buffer
  /\ cursor' = [cursor EXCEPT ![c] = @ + 1]
  /\ holding' = [holding EXCEPT ![c] = cursor'[c]]
  /\ handler' = [handler EXCEPT ![c] = "writing"]
  /\ UNCHANGED <<loopVars, sent, acked, received, lapped>>

\* Mutant of Lag: the subscriber goes on from the newest message.
LagDropsBuffer(c) ==
  /\ handler[c] = "waiting"
  /\ Behind(c) > Buffer
  /\ cursor' = [cursor EXCEPT ![c] = End]
  /\ lapped' = [lapped EXCEPT ![c] = TRUE]
  /\ UNCHANGED <<loopVars, sent, handler, holding, acked, received>>

\* RecvError::Lagged: logged, and the loop goes on from the oldest message.
Lag(c) ==
  /\ handler[c] = "waiting"
  /\ Behind(c) > Buffer
  /\ cursor' = [cursor EXCEPT ![c] = End - Buffer]
  /\ lapped' = [lapped EXCEPT ![c] = TRUE]
  /\ UNCHANGED <<loopVars, sent, handler, holding, acked, received>>

\* Mutant of Written: the line stays in the buffer it was taken from.
WrittenKept(c) ==
  /\ handler[c] = "writing"
  /\ handler' = [handler EXCEPT ![c] = "waiting"]
  /\ received' = [received EXCEPT ![c] = @ \cup {holding[c]}]
  /\ UNCHANGED <<loopVars, sent, cursor, holding, acked, lapped>>

Written(c) ==
  /\ handler[c] = "writing"
  /\ handler' = [handler EXCEPT ![c] = "waiting"]
  /\ received' = [received EXCEPT ![c] = @ \cup {holding[c]}]
  /\ holding' = [holding EXCEPT ![c] = 0]
  /\ UNCHANGED <<loopVars, sent, cursor, acked, lapped>>

\* The client is gone: a write fails, the receiver is dropped.
Unsubscribe(c) ==
  /\ handler[c] \in {"acking", "writing"}
  /\ handler' = [handler EXCEPT ![c] = "other"]
  /\ cursor' = [cursor EXCEPT ![c] = 0]
  /\ holding' = [holding EXCEPT ![c] = 0]
  /\ acked' = [acked EXCEPT ![c] = 0]
  /\ received' = [received EXCEPT ![c] = {}]
  /\ lapped' = [lapped EXCEPT ![c] = FALSE]
  /\ UNCHANGED <<loopVars, sent>>

-----------------------------------------------------------------------------
Telemetry == (\E persist \in BOOLEAN : Probe(persist)) \/ Collect

Follow(c) == AckWritten(c) \/ Receive(c) \/ Lag(c) \/ Written(c)

Next ==
  \/ Telemetry \/ HostChanges
  \/ \E c \in Client : Subscribe(c) \/ Follow(c) \/ Unsubscribe(c)

Spec == Init /\ [][Next]_vars

-----------------------------------------------------------------------------
(* Safety.                                                                 *)

Following(c) == handler[c] \in {"waiting", "writing"}

\* A client is written every message published since its subscription was
\* taken, up to where its receiver stands, unless the receiver was lapped:
\* nothing falls between the subscription and the answer.
NothingSkippedUnlapped ==
  \A c \in Client : Following(c) /\ ~lapped[c] =>
    acked[c] + 1 .. cursor[c] \subseteq received[c] \cup {holding[c]}

\* What a lag costs is what the buffer no longer holds: a client that has
\* caught up has the last BUFFER messages since its acknowledgement.
LagKeepsTheBuffer ==
  \A c \in Client : handler[c] = "waiting" /\ cursor[c] = End =>
    {p \in acked[c] + 1 .. End : p + Buffer > End} \subseteq received[c]

\* No change of the host is announced twice, however often its details are
\* collected in between and whoever was listening at the time.
DetailsOnlyOnChange ==
  \A p, q \in 1 .. End :
    p # q /\ sent[p].kind = "details" /\ sent[q].kind = "details" =>
      sent[p].of # sent[q].of

-----------------------------------------------------------------------------
(* Liveness, for clients that stay and read: the handler's task is polled  *)
(* whenever a message or room in the socket is there.                      *)

FairSpec == Spec /\ \A c \in Client : WF_vars(Follow(c))

\* README.md:216, "a `reading` every probe and `details` whenever disk or
\* containers change": a client that stays is in the end written each of the
\* details published after its subscription, unless it is lapped.
DetailsArrive ==
  \A c \in Client, p \in 1 .. MaxProbes + MaxChanges + 1 :
    (Following(c) /\ p \in acked[c] + 1 .. End /\ sent[p].kind = "details")
      ~> (p \in received[c] \/ lapped[c] \/ ~Following(c))
=============================================================================
