----------------------------- MODULE Transport -----------------------------
(***************************************************************************)
(* The Unix-socket server (src/src/transport.rs): the accept loop and its  *)
(* connection semaphore, one handler task per accepted connection, the     *)
(* Ed25519 challenge-response that unlocks the privileged commands, and    *)
(* the three ways a request is answered: one line, a stream that ends      *)
(* (agent.update), a stream that does not (telemetry.subscribe).           *)
(*                                                                         *)
(* A connection is a slot c \in Conn, reused once it is closed.  Request   *)
(* lines are counted while they wait in the socket; what a line says is    *)
(* chosen when the handler reads it.  Time is the age of a challenge and   *)
(* of the current read, each counted just past the limit it is compared    *)
(* with.  What the update task does is the subject of module Update, what  *)
(* the live channel holds of module Live, what the queries read of Store.  *)
(***************************************************************************)
EXTENDS Naturals, FiniteSets

CONSTANTS
  Conn,            \* connection slots
  MaxConnections,  \* permits of the semaphore (MAX_CONNECTIONS)
  KeyString,       \* strings a client can send as its "pubkey"
  AllowedKeys,     \* config.agent.allowed_keys
  VKey,            \* Ed25519 verifying keys
  Decode,          \* the key a string decodes to, or NoKey
  Nonce,           \* 32-byte random values; one is drawn at most once
  NonceTtl,        \* AUTH_NONCE_TTL
  IdleLimit,       \* READ_IDLE_TIMEOUT
  InCap, OutCap,   \* lines the socket holds towards the server, the client
  UpdateLines,     \* bound on the lines an update streams
  NoKey, NoNonce, NoGrant

ASSUME TransportAssumption ==
  /\ IsFiniteSet(Conn)
  /\ MaxConnections \in Nat \ {0}
  /\ AllowedKeys \subseteq KeyString
  /\ Decode \in [KeyString -> VKey \cup {NoKey}]
  /\ NoKey \notin VKey
  /\ NoNonce \notin Nonce
  /\ NonceTtl \in Nat
  /\ NoGrant \notin [nonce : Nonce, key : VKey, age : 0 .. NonceTtl + 1]
  /\ IdleLimit \in Nat \ {0}
  /\ InCap \in Nat \ {0} /\ OutCap \in Nat \ {0}
  /\ UpdateLines \in Nat \ {0}

VARIABLES
  pc,             \* the loop the handler of a connection is in
  writing,        \* the kind of line it is writing, or "nothing"
  permits,        \* free permits of the semaphore
  authenticated,  \* the handler's local variables, in this and the
  pending,        \*   next three lines: the challenge not yet answered,
  age,            \*   the time since it was issued (issued_at.elapsed()),
  pubkey,         \*   the key it was issued to
  idle,           \* time spent in the current read_line
  peer,           \* the client's end: "open" or "gone"
  unread,         \* request lines in the socket
  outbox,         \* response lines the client has not read
  live,           \* a broadcast message waits for this subscriber
  lines,          \* lines the running update has still to send
  drawn,          \* nonces drawn so far
  \* The next three record history for the properties; no action reads them.
  tried,          \* nonces that some agent.auth.verify has been held against
  challenges,     \* the <<nonce, key>> pairs issued in this session
  grant           \* the proof that authenticated this session

sessionVars == <<authenticated, pending, age, pubkey, challenges, grant>>
socketVars  == <<peer, unread, outbox>>
nonceVars   == <<drawn, tried>>
vars == <<pc, writing, permits, sessionVars, idle, socketVars, live, lines,
          nonceVars>>

-----------------------------------------------------------------------------
InUse      == {"reading", "following", "updating"}
Privileged == {"data", "subscribed", "live", "update", "final"}
Lines      == Privileged \cup {"malformed", "error", "nonce", "granted"}
Signature  == [key : VKey, nonce : Nonce]
Grants     == [nonce : Nonce, key : VKey, age : 0 .. NonceTtl + 1]

\* Connections whose handler task is alive: each owns a permit.
Handlers == {c \in Conn : pc[c] \in InUse}

\* The connection has become a live stream (or is being told so).
Subscribed(c) == pc[c] = "following"

TypeOK ==
  /\ pc \in [Conn -> InUse \cup {"none", "backlog"}]
  /\ writing \in [Conn -> Lines \cup {"nothing"}]
  /\ permits \in 0 .. MaxConnections
  /\ authenticated \in [Conn -> BOOLEAN]
  /\ pending \in [Conn -> Nonce \cup {NoNonce}]
  /\ age \in [Conn -> 0 .. NonceTtl + 1]
  /\ pubkey \in [Conn -> VKey \cup {NoKey}]
  /\ idle \in [Conn -> 0 .. IdleLimit]
  /\ peer \in [Conn -> {"open", "gone"}]
  /\ unread \in [Conn -> 0 .. InCap]
  /\ outbox \in [Conn -> 0 .. OutCap]
  /\ live \in [Conn -> BOOLEAN]
  /\ lines \in [Conn -> 0 .. UpdateLines]
  /\ drawn \in SUBSET Nonce /\ tried \in SUBSET Nonce
  /\ challenges \in [Conn -> SUBSET (Nonce \X VKey)]
  /\ grant \in [Conn -> Grants \cup {NoGrant}]

Init ==
  /\ pc = [c \in Conn |-> "none"]
  /\ writing = [c \in Conn |-> "nothing"]
  /\ permits = MaxConnections
  /\ authenticated = [c \in Conn |-> FALSE]
  /\ pending = [c \in Conn |-> NoNonce]
  /\ age = [c \in Conn |-> 0]
  /\ pubkey = [c \in Conn |-> NoKey]
  /\ idle = [c \in Conn |-> 0]
  /\ peer = [c \in Conn |-> "gone"]
  /\ unread = [c \in Conn |-> 0]
  /\ outbox = [c \in Conn |-> 0]
  /\ live = [c \in Conn |-> FALSE]
  /\ lines = [c \in Conn |-> 0]
  /\ drawn = {} /\ tried = {}
  /\ challenges = [c \in Conn |-> {}]
  /\ grant = [c \in Conn |-> NoGrant]

-----------------------------------------------------------------------------
(* The client's end of the socket, and time.                               *)

Connect(c) ==
  /\ pc[c] = "none"
  /\ pc' = [pc EXCEPT ![c] = "backlog"]
  /\ peer' = [peer EXCEPT ![c] = "open"]
  /\ UNCHANGED <<writing, permits, sessionVars, idle, unread, outbox, live,
                 lines, nonceVars>>

\* A complete line, or the unterminated one a client leaves at its end.
Send(c) ==
  /\ pc[c] # "none" /\ peer[c] = "open" /\ unread[c] < InCap
  /\ unread' = [unread EXCEPT ![c] = @ + 1]
  /\ UNCHANGED <<pc, writing, permits, sessionVars, idle, peer, outbox, live,
                 lines, nonceVars>>

Drain(c) ==
  /\ peer[c] = "open" /\ outbox[c] > 0
  /\ outbox' = [outbox EXCEPT ![c] = @ - 1]
  /\ UNCHANGED <<pc, writing, permits, sessionVars, idle, peer, unread, live,
                 lines, nonceVars>>

Hangup(c) ==
  /\ pc[c] # "none" /\ peer[c] = "open"
  /\ peer' = [peer EXCEPT ![c] = "gone"]
  /\ UNCHANGED <<pc, writing, permits, sessionVars, idle, unread, outbox,
                 live, lines, nonceVars>>

AtMost(limit, n) == IF n > limit THEN limit ELSE n

\* A handler waits for a request: the timeout of read_line runs.
Listening(c) == pc[c] = "reading" /\ writing[c] = "nothing"

\* One unit of time: challenges age, reads in progress come nearer to the
\* idle timeout.  Both counts stop where the code no longer tells them apart.
Tick ==
  /\ age' = [c \in Conn |-> IF pending[c] = NoNonce THEN age[c]
                             ELSE AtMost(NonceTtl + 1, age[c] + 1)]
  /\ idle' = [c \in Conn |-> IF Listening(c)
                              THEN AtMost(IdleLimit, idle[c] + 1) ELSE idle[c]]
  /\ UNCHANGED <<pc, writing, permits, authenticated, pending, pubkey,
                 challenges, grant, socketVars, live, lines, nonceVars>>

\* live::publish: every receiver gets the message, and no one else.
Publish ==
  /\ \E c \in Conn : Subscribed(c)
  /\ live' = [c \in Conn |-> live[c] \/ Subscribed(c)]
  /\ UNCHANGED <<pc, writing, permits, sessionVars, idle, socketVars, lines,
                 nonceVars>>

-----------------------------------------------------------------------------
(* The accept loop.                                                        *)

\* A free permit: the handler starts, its local variables at their defaults
\* (as Init and Release leave them: Gate says that they are).
Accept(c) ==
  /\ pc[c] = "backlog" /\ permits > 0
  /\ permits' = permits - 1
  /\ pc' = [pc EXCEPT ![c] = "reading"]
  /\ UNCHANGED <<writing, sessionVars, idle, socketVars, live, lines, nonceVars>>

\* Both ends of the socket are closed: what it held is lost.
Disconnect(c) ==
  /\ pc' = [pc EXCEPT ![c] = "none"]
  /\ peer' = [peer EXCEPT ![c] = "gone"]
  /\ unread' = [unread EXCEPT ![c] = 0]
  /\ outbox' = [outbox EXCEPT ![c] = 0]

\* No permit: the stream is dropped without a word.
Reject(c) ==
  /\ pc[c] = "backlog" /\ permits = 0
  /\ Disconnect(c)
  /\ UNCHANGED <<writing, permits, sessionVars, idle, live, lines, nonceVars>>

-----------------------------------------------------------------------------
(* The handler: building blocks.                                           *)

\* Mutant of Release: authenticated outlives the connection.
ReleaseKeepsSession(c) ==
  /\ pending' = [pending EXCEPT ![c] = NoNonce]
  /\ age' = [age EXCEPT ![c] = 0]
  /\ idle' = [idle EXCEPT ![c] = 0]
  /\ live' = [live EXCEPT ![c] = FALSE]
  /\ lines' = [lines EXCEPT ![c] = 0]
  /\ writing' = [writing EXCEPT ![c] = "nothing"]
  /\ UNCHANGED <<authenticated, pubkey, challenges, grant>>

\* The handler's locals go with its task; the next one declares its own.
Release(c) ==
  /\ authenticated' = [authenticated EXCEPT ![c] = FALSE]
  /\ pending' = [pending EXCEPT ![c] = NoNonce]
  /\ age' = [age EXCEPT ![c] = 0]
  /\ pubkey' = [pubkey EXCEPT ![c] = NoKey]
  /\ challenges' = [challenges EXCEPT ![c] = {}]
  /\ grant' = [grant EXCEPT ![c] = NoGrant]
  /\ idle' = [idle EXCEPT ![c] = 0]
  /\ live' = [live EXCEPT ![c] = FALSE]
  /\ lines' = [lines EXCEPT ![c] = 0]
  /\ writing' = [writing EXCEPT ![c] = "nothing"]

\* Mutant of Close: the permit is not moved into the task, and leaks.
CloseLeaksPermit(c) ==
  /\ Disconnect(c)
  /\ Release(c)
  /\ UNCHANGED <<permits, nonceVars>>

\* Mutant of Close: the permit is given back by hand, and dropped as well.
CloseReturnsTwice(c) ==
  /\ Disconnect(c)
  /\ Release(c)
  /\ permits' = permits + 2
  /\ UNCHANGED nonceVars

\* handle_connection returns: the stream is closed, the permit comes back.
Close(c) ==
  /\ Disconnect(c)
  /\ Release(c)
  /\ permits' = permits + 1
  /\ UNCHANGED nonceVars

\* read_line has returned one line.
TakeLine(c) ==
  /\ Listening(c) /\ unread[c] > 0
  /\ unread' = [unread EXCEPT ![c] = @ - 1]

\* write_response(kind) begins, in the handler's loop `loop`.
Answer(c, kind, loop) ==
  /\ writing' = [writing EXCEPT ![c] = kind]
  /\ pc' = [pc EXCEPT ![c] = loop]

\* A request answered with one line, after which the handler reads on.
Respond(c, kind) ==
  /\ Answer(c, kind, "reading")
  /\ UNCHANGED <<permits, idle, peer, outbox, live, lines>>

-----------------------------------------------------------------------------
(* The handler: the ends of a read that yield no request.                  *)

\* Mutant of ReadTimeout: an elapsed timer is taken for a blank line.
ReadTimeoutContinues(c) ==
  /\ Listening(c) /\ unread[c] = 0
  /\ idle[c] = IdleLimit
  /\ idle' = [idle EXCEPT ![c] = 0]
  /\ UNCHANGED <<pc, writing, permits, sessionVars, socketVars, live, lines,
                 nonceVars>>

\* The timer is looked at only when no complete line is there to be read.
ReadTimeout(c) ==
  /\ Listening(c) /\ unread[c] = 0
  /\ idle[c] = IdleLimit
  /\ Close(c)

ReadEof(c) ==
  /\ Listening(c) /\ unread[c] = 0 /\ peer[c] = "gone"
  /\ Close(c)

\* A line that is not UTF-8, or a socket reset by a client that left
\* responses unread.
ReadError(c) ==
  /\ Listening(c)
  /\ unread[c] > 0 \/ (peer[c] = "gone" /\ outbox[c] > 0)
  /\ Close(c)

\* A blank line is skipped, and the next read has the full time again.
ReadBlank(c) ==
  /\ TakeLine(c)
  /\ idle' = [idle EXCEPT ![c] = 0]
  /\ UNCHANGED <<pc, writing, permits, sessionVars, peer, outbox, live, lines,
                 nonceVars>>

ReadMalformed(c) ==
  /\ TakeLine(c)
  /\ Respond(c, "malformed")
  /\ UNCHANGED <<sessionVars, nonceVars>>

-----------------------------------------------------------------------------
(* agent.auth.request and agent.auth.verify.                               *)

\* The key is missing, not allowed or not decodable, or the system has no
\* randomness: the challenge a client may already hold stays valid.
AuthRequestRefused(c) ==
  /\ TakeLine(c)
  /\ Respond(c, "error")
  /\ UNCHANGED <<sessionVars, nonceVars>>

AuthRequest(c, k, n) ==
  /\ TakeLine(c)
  /\ k \in AllowedKeys
  /\ Decode[k] # NoKey
  /\ n \notin drawn
  /\ drawn' = drawn \cup {n}
  /\ pending' = [pending EXCEPT ![c] = n]
  /\ age' = [age EXCEPT ![c] = 0]
  /\ pubkey' = [pubkey EXCEPT ![c] = Decode[k]]
  /\ challenges' = [challenges EXCEPT ![c] = @ \cup {<<n, Decode[k]>>}]
  /\ Respond(c, "nonce")
  /\ UNCHANGED <<authenticated, grant, tried>>

\* Mutant of Proves: the time of the challenge is not looked at.
ProvesLate(c, sig) ==
  /\ pending[c] # NoNonce
  /\ sig = [key |-> pubkey[c], nonce |-> pending[c]]

\* The signature answers the pending challenge: in time, with its key.
Proves(c, sig) ==
  /\ pending[c] # NoNonce
  /\ age[c] <= NonceTtl
  /\ pubkey[c] # NoKey
  /\ sig = [key |-> pubkey[c], nonce |-> pending[c]]

\* pending_nonce.take(): whatever the answer, the challenge is spent.
TakeChallenge(c) ==
  /\ pending' = [pending EXCEPT ![c] = NoNonce]
  /\ age' = [age EXCEPT ![c] = 0]

\* History: the pending challenge, if there is one, has been tried.
Try(c) == tried' = tried \cup ({pending[c]} \ {NoNonce})

AuthVerify(c, sig) ==
  /\ TakeLine(c)
  /\ Proves(c, sig)
  /\ TakeChallenge(c) /\ Try(c)
  /\ authenticated' = [authenticated EXCEPT ![c] = TRUE]
  /\ grant' = [grant EXCEPT ![c] =
                 [nonce |-> sig.nonce, key |-> sig.key, age |-> age[c]]]
  /\ Respond(c, "granted")
  /\ UNCHANGED <<pubkey, challenges, drawn>>

\* Mutant of AuthVerifyRefused: only a good answer takes the challenge.
AuthVerifyRefusedKeeps(c) ==
  /\ TakeLine(c)
  /\ Try(c)
  /\ Respond(c, "error")
  /\ UNCHANGED <<authenticated, pending, age, pubkey, challenges, grant, drawn>>

\* No challenge, an expired one, a missing or malformed signature, or one
\* that does not verify.
AuthVerifyRefused(c) ==
  /\ TakeLine(c)
  /\ TakeChallenge(c) /\ Try(c)
  /\ Respond(c, "error")
  /\ UNCHANGED <<authenticated, pubkey, challenges, grant, drawn>>

-----------------------------------------------------------------------------
(* Every other command.                                                    *)

Unauthenticated(c) ==
  /\ TakeLine(c)
  /\ ~authenticated[c]
  /\ Respond(c, "error")
  /\ UNCHANGED <<sessionVars, nonceVars>>

\* The telemetry queries and agent.version: their data, or an error line
\* (a failed read, an unknown command).
Command(c, kind) ==
  /\ TakeLine(c)
  /\ authenticated[c]
  /\ Respond(c, kind)
  /\ UNCHANGED <<sessionVars, nonceVars>>

\* The receiver exists before the acknowledgement is written, so that no
\* message published meanwhile is missed.
Subscribe(c) ==
  /\ TakeLine(c)
  /\ authenticated[c]
  /\ Answer(c, "subscribed", "following")
  /\ UNCHANGED <<permits, sessionVars, idle, peer, outbox, live, lines,
                 nonceVars>>

\* recv() returns the next message (or, after a lag, a later one).
FollowLine(c) ==
  /\ pc[c] = "following" /\ writing[c] = "nothing" /\ live[c]
  /\ live' = [live EXCEPT ![c] = FALSE]
  /\ Answer(c, "live", "following")
  /\ UNCHANGED <<permits, sessionVars, idle, socketVars, lines, nonceVars>>

\* The update runs in a task of its own; the handler waits for its lines.
StartUpdate(c, k) ==
  /\ TakeLine(c)
  /\ authenticated[c]
  /\ lines' = [lines EXCEPT ![c] = k]
  /\ pc' = [pc EXCEPT ![c] = "updating"]
  /\ UNCHANGED <<writing, permits, sessionVars, idle, peer, outbox, live,
                 nonceVars>>

UpdateLine(c) ==
  /\ pc[c] = "updating" /\ writing[c] = "nothing" /\ lines[c] > 0
  /\ lines' = [lines EXCEPT ![c] = @ - 1]
  /\ Answer(c, "update", "updating")
  /\ UNCHANGED <<permits, sessionVars, idle, socketVars, live, nonceVars>>

\* The channel is closed and the task joined: the outcome is reported.
UpdateDone(c) ==
  /\ pc[c] = "updating" /\ writing[c] = "nothing" /\ lines[c] = 0
  /\ Answer(c, "final", "reading")
  /\ UNCHANGED <<permits, sessionVars, idle, socketVars, live, lines, nonceVars>>

-----------------------------------------------------------------------------
(* The write itself.  It has no timeout.                                   *)

\* The socket takes the line; the next read starts its timer.
Written(c) ==
  /\ writing[c] # "nothing" /\ peer[c] = "open" /\ outbox[c] < OutCap
  /\ outbox' = [outbox EXCEPT ![c] = @ + 1]
  /\ writing' = [writing EXCEPT ![c] = "nothing"]
  /\ idle' = [idle EXCEPT ![c] = 0]
  /\ UNCHANGED <<pc, permits, sessionVars, peer, unread, live, lines,
                 nonceVars>>

\* Mutant of WriteFails: the handler goes on as if the line were out.
WriteFailsGoesOn(c) ==
  /\ writing[c] \notin {"nothing", "malformed"} /\ peer[c] = "gone"
  /\ writing' = [writing EXCEPT ![c] = "nothing"]
  /\ UNCHANGED <<pc, permits, sessionVars, idle, socketVars, live, lines,
                 nonceVars>>

\* The client is gone: the handler ends.  An update task it started does not.
WriteFails(c) ==
  /\ writing[c] \notin {"nothing", "malformed"} /\ peer[c] = "gone"
  /\ Close(c)

\* Only the answer to a malformed line is written without looking.
WriteFailsUnnoticed(c) ==
  /\ writing[c] = "malformed" /\ peer[c] = "gone"
  /\ writing' = [writing EXCEPT ![c] = "nothing"]
  /\ idle' = [idle EXCEPT ![c] = 0]
  /\ UNCHANGED <<pc, permits, sessionVars, socketVars, live, lines,
                 nonceVars>>

-----------------------------------------------------------------------------
Reading(c) ==
  \/ ReadTimeout(c) \/ ReadEof(c) \/ ReadError(c)
  \/ ReadBlank(c) \/ ReadMalformed(c)
  \/ AuthRequestRefused(c) \/ AuthVerifyRefused(c)
  \/ \E k \in KeyString, n \in Nonce : AuthRequest(c, k, n)
  \/ \E sig \in Signature : AuthVerify(c, sig)
  \/ Unauthenticated(c)
  \/ \E kind \in {"data", "error"} : Command(c, kind)
  \/ Subscribe(c)
  \/ \E k \in 1 .. UpdateLines : StartUpdate(c, k)

Streaming(c) == FollowLine(c) \/ UpdateLine(c) \/ UpdateDone(c)

Writing(c) == Written(c) \/ WriteFails(c) \/ WriteFailsUnnoticed(c)

Handler(c) == Reading(c) \/ Streaming(c) \/ Writing(c)

AcceptLoop(c) == Accept(c) \/ Reject(c)

Client(c) == Connect(c) \/ Send(c) \/ Drain(c) \/ Hangup(c)

Next ==
  \/ Tick \/ Publish
  \/ \E c \in Conn : AcceptLoop(c) \/ Handler(c) \/ Client(c)

Spec == Init /\ [][Next]_vars

-----------------------------------------------------------------------------
(* Safety.                                                                 *)

\* Every live handler holds exactly one permit of the semaphore, on every way
\* a connection can end: the server neither leaks capacity nor exceeds
\* MAX_CONNECTIONS, and it turns a client away only when that many are served.
PermitsConserved == permits + Cardinality(Handlers) = MaxConnections

\* The session was unlocked by a proof for a challenge it was itself issued,
\* for a configured key, within the lifetime of the nonce.
Proven(c) ==
  /\ grant[c] # NoGrant
  /\ <<grant[c].nonce, grant[c].key>> \in challenges[c]
  /\ grant[c].key \in {Decode[k] : k \in AllowedKeys}
  /\ grant[c].age <= NonceTtl

\* The handler is doing, or about to do, something only an authenticated
\* client may ask for.
Unlocked(c) ==
  authenticated[c] \/ pc[c] \in {"following", "updating"}
                   \/ writing[c] \in Privileged

\* No connection is served anything privileged, streamed to or allowed an
\* update, unless its own session answered one of its own challenges with a
\* configured key: neither a later request for another key, nor a refused or
\* expired one, nor the slot's previous session can stand in for the proof.
UnlockedOnlyByProof == \A c \in Conn : Unlocked(c) => Proven(c)

\* A challenge is answered once, by the connection that asked for it: no other
\* connection waits on the same nonce, and none that has been answered, rightly
\* or wrongly, in time or not, is still pending or pending again anywhere, so
\* that there is no second guess (handle_auth_verify takes it first).
ChallengesAnsweredOnce ==
  \A c \in Conn :
    pending[c] # NoNonce =>
      /\ pending[c] \notin tried
      /\ \A d \in Conn \ {c} : pending[d] # pending[c]

Served == {c \in Conn : \/ pc[c] \in {"following", "updating"}
                         \/ writing[c] \in Privileged}

\* The sessions are gates, one for each connection that is served: it begins
\* shut and without a challenge, whoever had the slot before; it is opened only
\* in the step that spends the challenge it holds; it is served only while it is
\* open; and it is shut with its connection, and not before.
Gate == INSTANCE Gate WITH
  Session <- Conn, begun <- Handlers,
  open <- {c \in Conn : authenticated[c]},
  challenge <- pending, served <- Served

ImplementsGate == Gate!Spec

-----------------------------------------------------------------------------
(* Liveness.  Tokio polls every task that is ready, the clock advances and *)
(* the telemetry loop publishes a reading on every tick: each of these is  *)
(* weakly fair.  Nothing is assumed of a client.                           *)

FairSpec ==
  /\ Spec
  /\ WF_vars(Tick) /\ WF_vars(Publish)
  /\ \A c \in Conn : WF_vars(AcceptLoop(c)) /\ WF_vars(Handler(c))

\* A client that hangs up, whatever its handler was doing (reading, blocked in
\* a write, following the live stream, waiting for an update), gives its slot
\* and permit back.
HangupIsNoticed ==
  \A c \in Conn : (c \in Handlers /\ peer[c] = "gone") ~> pc[c] = "none"

\* What a client does that is not kept for ever: neither the live stream nor
\* a line of its own, again and again.
Silent(c) == <>[](c \in Handlers /\ ~Subscribed(c)) /\ <>[][~Send(c)]_vars

\* A client that falls silent is not kept, as long as it reads its answers:
\* whatever it has asked for, its handler comes back to a read, and the read
\* times out.
SilentReaderCloses == \A c \in Conn : WF_vars(Drain(c)) => ~Silent(c)

\* transport.rs:18, "Close connections that send nothing for this long.": the
\* same of every client.
SilentConnectionCloses == \A c \in Conn : ~Silent(c)
=============================================================================
