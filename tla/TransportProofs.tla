-------------------------- MODULE TransportProofs --------------------------
(***************************************************************************)
(* Theorems about Transport, for every number of connections, permits and  *)
(* nonces.  The inductive invariant Inv says, besides the types, how the   *)
(* writes hang together with the handlers, the handlers with the permits,  *)
(* and the challenges of a session with what unlocks it.                   *)
(***************************************************************************)
EXTENDS Transport, FiniteSetTheorems, TLAPS

\* Only a handler task writes.
WritersHandle == \A c \in Conn : writing[c] # "nothing" => c \in Handlers

\* What only an authenticated client may ask for is done for no other.
ServedIsUnlocked ==
  \A c \in Conn :
    pc[c] \in {"following", "updating"} \/ writing[c] \in Privileged
      => authenticated[c]

\* A pending challenge was issued in this session, to the current key.
PendingIsIssued ==
  \A c \in Conn : pending[c] # NoNonce =>
    /\ <<pending[c], pubkey[c]>> \in challenges[c]
    /\ pubkey[c] \in {Decode[k] : k \in AllowedKeys}

UnlockedIsProven == \A c \in Conn : authenticated[c] => Proven(c)

\* Every nonce in use or used has been drawn, so the next one drawn is another.
NoncesAreDrawn ==
  /\ \A c \in Conn : pending[c] # NoNonce => pending[c] \in drawn
  /\ tried \subseteq drawn

\* Nothing of a connection is left once its handler has ended.
ShutIsClean ==
  \A c \in Conn \ Handlers : ~authenticated[c] /\ pending[c] = NoNonce

\* Capacity: what the permits rest on.  Sessions: what the proofs rest on.
Capacity == TypeOK /\ WritersHandle /\ PermitsConserved
Sessions ==
  /\ ServedIsUnlocked /\ PendingIsIssued /\ UnlockedIsProven
  /\ NoncesAreDrawn /\ ChallengesAnsweredOnce /\ ShutIsClean
Inv == Capacity /\ Sessions

-----------------------------------------------------------------------------
(* The actions that differ for no invariant are taken together.            *)

\* The handler ends, whatever the reason.
Ends(c) == c \in Handlers /\ Close(c)

\* A request is answered with one line and leaves the session as it is.
OneLine(c, kind) ==
  /\ TakeLine(c)
  /\ kind \in Privileged => authenticated[c]
  /\ Respond(c, kind)
  /\ UNCHANGED <<sessionVars, nonceVars>>

LEMMA StepCases ==
  ASSUME WritersHandle, [Next]_vars
  PROVE
    \/ UNCHANGED vars \/ Tick \/ Publish
    \/ \E c \in Conn :
         \/ Connect(c) \/ Send(c) \/ Drain(c) \/ Hangup(c)
         \/ Accept(c) \/ Reject(c) \/ Ends(c) \/ ReadBlank(c)
         \/ \E kind \in {"malformed", "error", "data"} : OneLine(c, kind)
         \/ \E k \in KeyString, n \in Nonce : AuthRequest(c, k, n)
         \/ \E sig \in Signature : AuthVerify(c, sig)
         \/ AuthVerifyRefused(c) \/ Subscribe(c)
         \/ \E k \in 1 .. UpdateLines : StartUpdate(c, k)
         \/ FollowLine(c) \/ UpdateLine(c) \/ UpdateDone(c)
         \/ Written(c) \/ WriteFailsUnnoticed(c)
<1>1. ASSUME NEW c \in Conn,
             ReadTimeout(c) \/ ReadEof(c) \/ ReadError(c) \/ WriteFails(c)
      PROVE  Ends(c)
  BY <1>1 DEF ReadTimeout, ReadEof, ReadError, WriteFails, Listening, Ends,
              Handlers, InUse, WritersHandle
<1>2. ASSUME NEW c \in Conn,
             \/ ReadMalformed(c) \/ AuthRequestRefused(c) \/ Unauthenticated(c)
             \/ \E kind \in {"data", "error"} : Command(c, kind)
      PROVE  \E kind \in {"malformed", "error", "data"} : OneLine(c, kind)
  BY <1>2 DEF ReadMalformed, AuthRequestRefused, Unauthenticated, Command,
              OneLine, Privileged
<1> QED
  BY <1>1, <1>2 DEF Next, AcceptLoop, Handler, Client, Reading, Streaming,
                    Writing

-----------------------------------------------------------------------------
(* Types, writers and permits.                                             *)

LEMMA CapacityInit == Init => Capacity
<1> SUFFICES ASSUME Init PROVE Capacity
  OBVIOUS
<1>1. TypeOK
  BY TransportAssumption DEF Init, TypeOK, InUse, Lines, Privileged, Grants
<1>2. WritersHandle
  BY DEF Init, WritersHandle
<1>3. Handlers = {}
  BY DEF Init, Handlers, InUse
<1>4. PermitsConserved
  BY <1>3, FS_EmptySet, TransportAssumption DEF Init, PermitsConserved
<1> QED
  BY <1>1, <1>2, <1>4 DEF Capacity

\* The number of handlers follows from how one connection's loop changes.
LEMMA HandlersFinite ==
  IsFiniteSet(Handlers) /\ Cardinality(Handlers) \in Nat
  BY TransportAssumption, FS_Subset, FS_CardinalityType DEF Handlers

LEMMA TypeStep ==
  ASSUME Capacity, [Next]_vars
  PROVE  TypeOK'
<1> USE TransportAssumption DEF Capacity, TypeOK, InUse, Lines, Privileged,
      sessionVars, socketVars, nonceVars
<1>1. CASE UNCHANGED vars
  BY <1>1 DEF vars
<1>2. CASE Tick
  BY <1>2 DEF Tick, AtMost, Listening
<1>3. CASE Publish
  BY <1>3 DEF Publish, Subscribed
<1>4. ASSUME NEW c \in Conn, Connect(c) PROVE TypeOK'
  BY <1>4 DEF Connect
<1>5. ASSUME NEW c \in Conn, Send(c) PROVE TypeOK'
  BY <1>5 DEF Send
<1>6. ASSUME NEW c \in Conn, Drain(c) PROVE TypeOK'
  BY <1>6 DEF Drain
<1>7. ASSUME NEW c \in Conn, Hangup(c) PROVE TypeOK'
  BY <1>7 DEF Hangup
<1>8. ASSUME NEW c \in Conn, Accept(c) PROVE TypeOK'
  BY <1>8 DEF Accept
<1>9. ASSUME NEW c \in Conn, Reject(c) PROVE TypeOK'
  BY <1>9 DEF Reject, Disconnect
<1>10. ASSUME NEW c \in Conn, Ends(c) PROVE TypeOK'
  <2>1. Cardinality(Handlers) > 0
    BY <1>10, HandlersFinite, FS_EmptySet DEF Ends
  <2>2. permits + 1 \in 0 .. MaxConnections
    BY <2>1, HandlersFinite DEF PermitsConserved
  <2> QED
    BY <1>10, <2>2 DEF Ends, Close, Disconnect, Release
<1>11. ASSUME NEW c \in Conn, ReadBlank(c) PROVE TypeOK'
  BY <1>11 DEF ReadBlank, TakeLine, Listening
<1>12. ASSUME NEW c \in Conn, NEW kind \in {"malformed", "error", "data"},
             OneLine(c, kind)
      PROVE  TypeOK'
  BY <1>12 DEF OneLine, Respond, Answer, TakeLine, Listening
<1>13. ASSUME NEW c \in Conn, NEW k \in KeyString, NEW n \in Nonce,
             AuthRequest(c, k, n)
      PROVE  TypeOK'
  BY <1>13 DEF AuthRequest, Respond, Answer, TakeLine, Listening
<1>14. ASSUME NEW c \in Conn, NEW sig \in Signature, AuthVerify(c, sig)
      PROVE  TypeOK'
  BY <1>14 DEF AuthVerify, Respond, Answer, TakeLine, Listening,
            TakeChallenge, Try, Signature, Grants
<1>15. ASSUME NEW c \in Conn, AuthVerifyRefused(c) PROVE TypeOK'
  BY <1>15 DEF AuthVerifyRefused, Respond, Answer, TakeLine,
            Listening, TakeChallenge, Try
<1>16. ASSUME NEW c \in Conn, Subscribe(c) PROVE TypeOK'
  BY <1>16 DEF Subscribe, Answer, TakeLine, Listening
<1>17. ASSUME NEW c \in Conn, NEW k \in 1 .. UpdateLines, StartUpdate(c, k)
      PROVE  TypeOK'
  BY <1>17 DEF StartUpdate, TakeLine, Listening
<1>18. ASSUME NEW c \in Conn, FollowLine(c) PROVE TypeOK'
  BY <1>18 DEF FollowLine, Answer
<1>19. ASSUME NEW c \in Conn, UpdateLine(c) PROVE TypeOK'
  BY <1>19 DEF UpdateLine, Answer
<1>20. ASSUME NEW c \in Conn, UpdateDone(c) PROVE TypeOK'
  BY <1>20 DEF UpdateDone, Answer
<1>21. ASSUME NEW c \in Conn, Written(c) PROVE TypeOK'
  BY <1>21 DEF Written
<1>22. ASSUME NEW c \in Conn, WriteFailsUnnoticed(c) PROVE TypeOK'
  BY <1>22 DEF WriteFailsUnnoticed
<1> QED
  BY <1>1, <1>2, <1>3, <1>4, <1>5, <1>6, <1>7, <1>8, <1>9, <1>10, <1>11,
     <1>12, <1>13, <1>14, <1>15, <1>16, <1>17, <1>18, <1>19, <1>20, <1>21,
     <1>22, StepCases

LEMMA PermitsStep ==
  ASSUME Capacity, [Next]_vars
  PROVE  PermitsConserved'
<1> USE HandlersFinite
<1>1. ASSUME Handlers' = Handlers, permits' = permits PROVE PermitsConserved'
  BY <1>1 DEF Capacity, PermitsConserved
<1>2. ASSUME NEW c \in Conn, Accept(c) PROVE PermitsConserved'
  <2>1. c \notin Handlers /\ Handlers' = Handlers \cup {c}
    BY <1>2 DEF Accept, Capacity, TypeOK, Handlers, InUse
  <2>2. Cardinality(Handlers') = Cardinality(Handlers) + 1
    BY <2>1, FS_AddElement
  <2>3. permits' = permits - 1 /\ permits \in Nat
    BY <1>2, TransportAssumption DEF Accept, Capacity, TypeOK
  <2> QED
    BY <2>2, <2>3, TransportAssumption DEF Capacity, PermitsConserved
<1>3. ASSUME NEW c \in Conn, Ends(c) PROVE PermitsConserved'
  <2>1. c \in Handlers /\ Handlers' = Handlers \ {c}
    BY <1>3 DEF Ends, Close, Disconnect, Capacity, TypeOK, Handlers, InUse
  <2>2. Cardinality(Handlers') = Cardinality(Handlers) - 1
    BY <2>1, FS_RemoveElement
  <2>3. permits' = permits + 1 /\ permits \in Nat
    BY <1>3, TransportAssumption DEF Ends, Close, Capacity, TypeOK
  <2> QED
    BY <2>2, <2>3, TransportAssumption DEF Capacity, PermitsConserved
<1>4. CASE UNCHANGED vars \/ Tick \/ Publish
  <2>1. UNCHANGED <<pc, permits>>
    BY <1>4 DEF vars, Tick, Publish
  <2> QED
    BY <1>1, <2>1 DEF Handlers
<1>5. ASSUME NEW c \in Conn,
             \/ Connect(c) \/ Reject(c) \/ Send(c) \/ Drain(c) \/ Hangup(c)
             \/ ReadBlank(c) \/ Written(c) \/ WriteFailsUnnoticed(c)
      PROVE  PermitsConserved'
  <2>1. permits' = permits /\ Handlers' = Handlers
    BY <1>5 DEF Connect, Reject, Disconnect, Send, Drain, Hangup, ReadBlank,
                Written, WriteFailsUnnoticed, Handlers, InUse, Capacity, TypeOK
  <2> QED
    BY <1>1, <2>1
<1>6. ASSUME NEW c \in Conn,
             \/ \E kind \in {"malformed", "error", "data"} : OneLine(c, kind)
             \/ \E k \in KeyString, n \in Nonce : AuthRequest(c, k, n)
             \/ \E sig \in Signature : AuthVerify(c, sig)
             \/ AuthVerifyRefused(c) \/ Subscribe(c)
             \/ \E k \in 1 .. UpdateLines : StartUpdate(c, k)
      PROVE  PermitsConserved'
  <2>1. permits' = permits
    BY <1>6 DEF OneLine, AuthRequest, AuthVerify, AuthVerifyRefused,
                Subscribe, StartUpdate, Respond
  <2>2. pc[c] = "reading" /\ \E s \in InUse : pc' = [pc EXCEPT ![c] = s]
    BY <1>6 DEF OneLine, AuthRequest, AuthVerify, AuthVerifyRefused, InUse,
                Subscribe, StartUpdate, Respond, Answer, TakeLine, Listening
  <2>3. Handlers' = Handlers
    BY <2>2 DEF Handlers, InUse, Capacity, TypeOK
  <2> QED
    BY <1>1, <2>1, <2>3
<1>7. ASSUME NEW c \in Conn, FollowLine(c) \/ UpdateLine(c) \/ UpdateDone(c)
      PROVE  PermitsConserved'
  <2>1. permits' = permits /\ Handlers' = Handlers
    BY <1>7 DEF FollowLine, UpdateLine, UpdateDone, Answer, Handlers, InUse,
                Capacity, TypeOK
  <2> QED
    BY <1>1, <2>1
<1> QED
  BY <1>2, <1>3, <1>4, <1>5, <1>6, <1>7, StepCases DEF Capacity

-----------------------------------------------------------------------------
(* Challenges, grants and what they unlock.                                *)

LEMMA SessionsInit == Init => Sessions
  BY DEF Init, Sessions, ServedIsUnlocked, PendingIsIssued, UnlockedIsProven,
         NoncesAreDrawn, ChallengesAnsweredOnce, ShutIsClean, Privileged

\* What a handler writes, in which loop, and whether it may.
Loops == WritersHandle /\ ServedIsUnlocked

LEMMA LoopStep ==
  ASSUME Capacity, ServedIsUnlocked, [Next]_vars
  PROVE  Loops'
<1> USE DEF Capacity, TypeOK, Loops, WritersHandle, ServedIsUnlocked,
              Handlers, InUse, Privileged, sessionVars, socketVars, nonceVars
<1>1. CASE UNCHANGED vars
  BY <1>1 DEF vars
<1>2. CASE Tick
  BY <1>2 DEF Tick, AtMost, Listening
<1>3. CASE Publish
  BY <1>3 DEF Publish, Subscribed
<1>4. ASSUME NEW c \in Conn, Connect(c) PROVE Loops'
  BY <1>4 DEF Connect
<1>5. ASSUME NEW c \in Conn, Send(c) PROVE Loops'
  BY <1>5 DEF Send
<1>6. ASSUME NEW c \in Conn, Drain(c) PROVE Loops'
  BY <1>6 DEF Drain
<1>7. ASSUME NEW c \in Conn, Hangup(c) PROVE Loops'
  BY <1>7 DEF Hangup
<1>8. ASSUME NEW c \in Conn, Accept(c) PROVE Loops'
  BY <1>8 DEF Accept
<1>9. ASSUME NEW c \in Conn, Reject(c) PROVE Loops'
  BY <1>9 DEF Reject, Disconnect
<1>10. ASSUME NEW c \in Conn, Ends(c) PROVE Loops'
  BY <1>10 DEF Ends, Close, Disconnect, Release
<1>11. ASSUME NEW c \in Conn, ReadBlank(c) PROVE Loops'
  BY <1>11 DEF ReadBlank, TakeLine, Listening
<1>12. ASSUME NEW c \in Conn, NEW kind \in {"malformed", "error", "data"},
             OneLine(c, kind)
      PROVE  Loops'
  BY <1>12 DEF OneLine, Respond, Answer, TakeLine, Listening
<1>13. ASSUME NEW c \in Conn, NEW k \in KeyString, NEW n \in Nonce,
             AuthRequest(c, k, n)
      PROVE  Loops'
  BY <1>13 DEF AuthRequest, Respond, Answer, TakeLine, Listening
<1>14. ASSUME NEW c \in Conn, NEW sig \in Signature, AuthVerify(c, sig)
      PROVE  Loops'
  BY <1>14 DEF AuthVerify, Respond, Answer, TakeLine, Listening,
            TakeChallenge
<1>15. ASSUME NEW c \in Conn, AuthVerifyRefused(c) PROVE Loops'
  BY <1>15 DEF AuthVerifyRefused, Respond, Answer, TakeLine,
            Listening, TakeChallenge
<1>16. ASSUME NEW c \in Conn, Subscribe(c) PROVE Loops'
  BY <1>16 DEF Subscribe, Answer, TakeLine, Listening
<1>17. ASSUME NEW c \in Conn, NEW k \in 1 .. UpdateLines, StartUpdate(c, k)
      PROVE  Loops'
  BY <1>17 DEF StartUpdate, TakeLine, Listening
<1>18. ASSUME NEW c \in Conn, FollowLine(c) PROVE Loops'
  BY <1>18 DEF FollowLine, Answer
<1>19. ASSUME NEW c \in Conn, UpdateLine(c) PROVE Loops'
  BY <1>19 DEF UpdateLine, Answer
<1>20. ASSUME NEW c \in Conn, UpdateDone(c) PROVE Loops'
  BY <1>20 DEF UpdateDone, Answer
<1>21. ASSUME NEW c \in Conn, Written(c) PROVE Loops'
  BY <1>21 DEF Written
<1>22. ASSUME NEW c \in Conn, WriteFailsUnnoticed(c) PROVE Loops'
  BY <1>22 DEF WriteFailsUnnoticed
<1> QED
  BY <1>1, <1>2, <1>3, <1>4, <1>5, <1>6, <1>7, <1>8, <1>9, <1>10, <1>11,
     <1>12, <1>13, <1>14, <1>15, <1>16, <1>17, <1>18, <1>19, <1>20, <1>21,
     <1>22, StepCases

\* Few steps touch a challenge or a grant; a handler that ends forgets its own.
Untouched ==
  UNCHANGED <<authenticated, pending, pubkey, challenges, grant, nonceVars>>

LEMMA SessionCases ==
  ASSUME Capacity, [Next]_vars
  PROVE
    \/ Untouched
    \/ \E c \in Conn :
         \/ Release(c) /\ UNCHANGED nonceVars
         \/ \E k \in KeyString, n \in Nonce : AuthRequest(c, k, n)
         \/ \E sig \in Signature : AuthVerify(c, sig)
         \/ AuthVerifyRefused(c)
<1>1. CASE UNCHANGED vars \/ Tick \/ Publish
  BY <1>1 DEF vars, Untouched, sessionVars, nonceVars, Tick, Publish
<1>2. ASSUME NEW c \in Conn,
             \/ Connect(c) \/ Send(c) \/ Drain(c) \/ Hangup(c)
             \/ Accept(c) \/ Reject(c) \/ ReadBlank(c)
             \/ \E kind \in {"malformed", "error", "data"} : OneLine(c, kind)
             \/ Subscribe(c) \/ \E k \in 1 .. UpdateLines : StartUpdate(c, k)
             \/ FollowLine(c) \/ UpdateLine(c) \/ UpdateDone(c)
             \/ Written(c) \/ WriteFailsUnnoticed(c)
      PROVE  Untouched
  BY <1>2 DEF Connect, Send, Drain, Hangup, Accept, Reject, ReadBlank, OneLine,
              Subscribe, StartUpdate, FollowLine, UpdateLine, UpdateDone,
              Written, WriteFailsUnnoticed, Untouched, sessionVars, nonceVars
<1>3. ASSUME NEW c \in Conn, Ends(c) PROVE Release(c) /\ UNCHANGED nonceVars
  BY <1>3 DEF Ends, Close
<1> QED
  BY <1>1, <1>2, <1>3, StepCases DEF Capacity

LEMMA PendingStep ==
  ASSUME Capacity, PendingIsIssued, [Next]_vars
  PROVE  PendingIsIssued'
<1> USE DEF Capacity, TypeOK, Untouched, nonceVars, PendingIsIssued
<1>1. CASE Untouched
  BY <1>1
<1>2. ASSUME NEW c \in Conn, Release(c), UNCHANGED nonceVars PROVE PendingIsIssued'
  BY <1>2 DEF Release
<1>3. ASSUME NEW c \in Conn, NEW k \in KeyString, NEW n \in Nonce,
             AuthRequest(c, k, n)
      PROVE  PendingIsIssued'
  BY <1>3 DEF AuthRequest
<1>4. ASSUME NEW c \in Conn, NEW sig \in Signature, AuthVerify(c, sig)
      PROVE  PendingIsIssued'
  BY <1>4 DEF AuthVerify, TakeChallenge
<1>5. ASSUME NEW c \in Conn, AuthVerifyRefused(c) PROVE PendingIsIssued'
  BY <1>5 DEF AuthVerifyRefused, TakeChallenge
<1> QED
  BY <1>1, <1>2, <1>3, <1>4, <1>5, SessionCases

LEMMA ProvenStep ==
  ASSUME Capacity, PendingIsIssued, UnlockedIsProven, [Next]_vars
  PROVE  UnlockedIsProven'
<1> USE DEF Capacity, TypeOK, Untouched, nonceVars, UnlockedIsProven, Proven
<1>1. CASE Untouched
  BY <1>1
<1>2. ASSUME NEW c \in Conn, Release(c), UNCHANGED nonceVars PROVE UnlockedIsProven'
  BY <1>2 DEF Release
<1>3. ASSUME NEW c \in Conn, NEW k \in KeyString, NEW n \in Nonce,
             AuthRequest(c, k, n)
      PROVE  UnlockedIsProven'
  BY <1>3 DEF AuthRequest
<1>4. ASSUME NEW c \in Conn, NEW sig \in Signature, AuthVerify(c, sig)
      PROVE  UnlockedIsProven'
  <2>1. /\ grant'[c] = [nonce |-> pending[c], key |-> pubkey[c], age |-> age[c]]
        /\ age[c] <= NonceTtl
        /\ pending[c] # NoNonce /\ pubkey[c] \in VKey
    BY <1>4 DEF AuthVerify, Proves, Signature
  <2>2. grant'[c] \in Grants
    BY <2>1, TransportAssumption DEF Grants
  <2>3. Proven(c)'
    BY <1>4, <2>1, <2>2, TransportAssumption DEF AuthVerify,
          PendingIsIssued, Grants
  <2> QED
    BY <1>4, <2>3 DEF AuthVerify
<1>5. ASSUME NEW c \in Conn, AuthVerifyRefused(c) PROVE UnlockedIsProven'
  BY <1>5 DEF AuthVerifyRefused, TakeChallenge
<1> QED
  BY <1>1, <1>2, <1>3, <1>4, <1>5, SessionCases

LEMMA DrawnStep ==
  ASSUME Capacity, NoncesAreDrawn, [Next]_vars
  PROVE  NoncesAreDrawn'
<1> USE DEF Capacity, TypeOK, Untouched, nonceVars, NoncesAreDrawn
<1>1. CASE Untouched
  BY <1>1
<1>2. ASSUME NEW c \in Conn, Release(c), UNCHANGED nonceVars PROVE NoncesAreDrawn'
  BY <1>2 DEF Release
<1>3. ASSUME NEW c \in Conn, NEW k \in KeyString, NEW n \in Nonce,
             AuthRequest(c, k, n)
      PROVE  NoncesAreDrawn'
  BY <1>3 DEF AuthRequest
<1>4. ASSUME NEW c \in Conn, NEW sig \in Signature, AuthVerify(c, sig)
      PROVE  NoncesAreDrawn'
  BY <1>4 DEF AuthVerify, TakeChallenge, Try, Proves, Signature
<1>5. ASSUME NEW c \in Conn, AuthVerifyRefused(c) PROVE NoncesAreDrawn'
  BY <1>5 DEF AuthVerifyRefused, TakeChallenge, Try
<1> QED
  BY <1>1, <1>2, <1>3, <1>4, <1>5, SessionCases

LEMMA OnceStep ==
  ASSUME Capacity, NoncesAreDrawn, ChallengesAnsweredOnce, [Next]_vars
  PROVE  ChallengesAnsweredOnce'
<1> USE DEF Capacity, TypeOK, Untouched, nonceVars, ChallengesAnsweredOnce
<1>1. CASE Untouched
  BY <1>1
<1>2. ASSUME NEW c \in Conn, Release(c), UNCHANGED nonceVars PROVE ChallengesAnsweredOnce'
  BY <1>2 DEF Release
<1>3. ASSUME NEW c \in Conn, NEW k \in KeyString, NEW n \in Nonce,
             AuthRequest(c, k, n)
      PROVE  ChallengesAnsweredOnce'
  BY <1>3 DEF AuthRequest, NoncesAreDrawn
<1>4. ASSUME NEW c \in Conn, NEW sig \in Signature, AuthVerify(c, sig)
      PROVE  ChallengesAnsweredOnce'
  BY <1>4 DEF AuthVerify, TakeChallenge, Try, Proves, Signature
<1>5. ASSUME NEW c \in Conn, AuthVerifyRefused(c) PROVE ChallengesAnsweredOnce'
  BY <1>5 DEF AuthVerifyRefused, TakeChallenge, Try
<1> QED
  BY <1>1, <1>2, <1>3, <1>4, <1>5, SessionCases

LEMMA ShutStep ==
  ASSUME Capacity, ShutIsClean, [Next]_vars
  PROVE  ShutIsClean'
<1> USE DEF Capacity, TypeOK, ShutIsClean, Handlers, InUse, sessionVars
<1>1. CASE UNCHANGED vars \/ Tick \/ Publish
  BY <1>1 DEF vars, Tick, Publish
<1>2. ASSUME NEW c \in Conn, Connect(c) \/ Send(c) \/ Drain(c) \/ Hangup(c)
      PROVE  ShutIsClean'
  BY <1>2 DEF Connect, Send, Drain, Hangup
<1>3. ASSUME NEW c \in Conn, Accept(c) \/ Reject(c) PROVE ShutIsClean'
  BY <1>3 DEF Accept, Reject, Disconnect
<1>4. ASSUME NEW c \in Conn, Ends(c) PROVE ShutIsClean'
  BY <1>4 DEF Ends, Close, Disconnect, Release
<1>5. ASSUME NEW c \in Conn,
             \/ ReadBlank(c)
             \/ \E kind \in {"malformed", "error", "data"} : OneLine(c, kind)
             \/ Subscribe(c) \/ \E k \in 1 .. UpdateLines : StartUpdate(c, k)
      PROVE  ShutIsClean'
  BY <1>5 DEF ReadBlank, OneLine, Subscribe, StartUpdate, Respond, Answer,
              TakeLine, Listening
<1>6. ASSUME NEW c \in Conn, NEW k \in KeyString, NEW n \in Nonce,
             AuthRequest(c, k, n)
      PROVE  ShutIsClean'
  BY <1>6 DEF AuthRequest, Respond, Answer, TakeLine, Listening
<1>7. ASSUME NEW c \in Conn, NEW sig \in Signature,
             AuthVerify(c, sig)
      PROVE  ShutIsClean'
  BY <1>7 DEF AuthVerify, Respond, Answer, TakeLine, Listening, TakeChallenge
<1>8. ASSUME NEW c \in Conn, AuthVerifyRefused(c) PROVE ShutIsClean'
  BY <1>8 DEF AuthVerifyRefused, Respond, Answer, TakeLine, Listening,
              TakeChallenge
<1>9. ASSUME NEW c \in Conn,
             \/ FollowLine(c) \/ UpdateLine(c) \/ UpdateDone(c)
             \/ Written(c) \/ WriteFailsUnnoticed(c)
      PROVE  ShutIsClean'
  BY <1>9 DEF FollowLine, UpdateLine, UpdateDone, Answer, Written,
              WriteFailsUnnoticed
<1> QED
  BY <1>1, <1>2, <1>3, <1>4, <1>5, <1>6, <1>7, <1>8, <1>9, StepCases

-----------------------------------------------------------------------------
(* Transport implements Gate.  A step that leaves the sessions alone may   *)
(* begin or finish something privileged in one of them.                    *)

Opened == {c \in Conn : authenticated[c]}

\* The sessions, as Gate sees them, stay as they are.
SameSessions == UNCHANGED <<Handlers, Opened, pending, drawn>>

LEMMA StutterCases ==
  ASSUME Capacity,
         \/ UNCHANGED vars \/ Tick \/ Publish
         \/ \E c \in Conn :
              \/ Connect(c) \/ Send(c) \/ Drain(c) \/ Hangup(c)
              \/ Reject(c) \/ ReadBlank(c)
              \/ \E kind \in {"malformed", "error"} : OneLine(c, kind)
              \/ FollowLine(c) \/ UpdateLine(c) \/ UpdateDone(c)
              \/ WriteFailsUnnoticed(c)
  PROVE  SameSessions /\ UNCHANGED Served
<1> USE DEF Capacity, TypeOK, SameSessions, Opened, Served, Privileged,
            Handlers, InUse, sessionVars, socketVars, nonceVars
<1>1. CASE UNCHANGED vars \/ Tick \/ Publish
  BY <1>1 DEF vars, Tick, Publish
<1>2. ASSUME NEW c \in Conn, Connect(c) \/ Send(c) \/ Drain(c) \/ Hangup(c)
      PROVE  SameSessions /\ UNCHANGED Served
  BY <1>2 DEF Connect, Send, Drain, Hangup
<1>3. ASSUME NEW c \in Conn, Reject(c)
      PROVE  SameSessions /\ UNCHANGED Served
  BY <1>3 DEF Reject, Disconnect
<1>4. ASSUME NEW c \in Conn, ReadBlank(c)
      PROVE  SameSessions /\ UNCHANGED Served
  BY <1>4 DEF ReadBlank
<1>5. ASSUME NEW c \in Conn, NEW kind \in {"malformed", "error"},
             OneLine(c, kind)
      PROVE  SameSessions /\ UNCHANGED Served
  BY <1>5 DEF OneLine, Respond, Answer, TakeLine, Listening
<1>6. ASSUME NEW c \in Conn, FollowLine(c) \/ UpdateLine(c) \/ UpdateDone(c)
      PROVE  SameSessions /\ UNCHANGED Served
  BY <1>6 DEF FollowLine, UpdateLine, UpdateDone, Answer
<1>7. ASSUME NEW c \in Conn, WriteFailsUnnoticed(c)
      PROVE  SameSessions /\ UNCHANGED Served
  BY <1>7 DEF WriteFailsUnnoticed
<1> QED
  BY <1>1, <1>2, <1>3, <1>4, <1>5, <1>6, <1>7

LEMMA GateStep ==
  ASSUME Capacity, ServedIsUnlocked, ShutIsClean, [Next]_vars
  PROVE  [Gate!Next]_Gate!vars
<1> USE DEF Capacity, TypeOK, Served, Privileged, Handlers, InUse,
            sessionVars, socketVars, nonceVars
<1>1. ASSUME SameSessions /\ UNCHANGED Served
      PROVE  UNCHANGED Gate!vars
  BY <1>1 DEF SameSessions, Opened, Gate!vars
<1>2. ASSUME NEW c \in Conn, Ends(c) PROVE Gate!End(c)
  BY <1>2 DEF Ends, Close, Disconnect, Release, Gate!End
<1>3. ASSUME NEW c \in Conn, OneLine(c, "data") PROVE Gate!Serve(c)
  BY <1>3 DEF OneLine, Respond, Answer, TakeLine, Listening, Gate!Serve
<1>4. ASSUME NEW c \in Conn,
             Subscribe(c) \/ \E k \in 1 .. UpdateLines : StartUpdate(c, k)
      PROVE  Gate!Serve(c)
  BY <1>4 DEF Subscribe, StartUpdate, Answer, TakeLine, Listening, Gate!Serve
<1>5. ASSUME NEW c \in Conn, Written(c)
      PROVE  Gate!Finish(c) \/ UNCHANGED Gate!vars
  BY <1>5 DEF Written, Gate!Finish, Gate!vars
<1>6. ASSUME NEW c \in Conn, NEW k \in KeyString, NEW n \in Nonce,
             AuthRequest(c, k, n)
      PROVE  Gate!Challenge(c)
  BY <1>6 DEF AuthRequest, Respond, Answer, TakeLine, Listening,
              Gate!Challenge
<1>7. ASSUME NEW c \in Conn, NEW sig \in Signature, AuthVerify(c, sig)
      PROVE  Gate!Unlock(c)
  BY <1>7 DEF AuthVerify, TakeChallenge, Try, Proves, Respond, Answer, TakeLine,
              Listening, Gate!Unlock, Gate!Spend
<1>8. ASSUME NEW c \in Conn, AuthVerifyRefused(c)
      PROVE  Gate!Refuse(c) \/ UNCHANGED Gate!vars
  BY <1>8 DEF AuthVerifyRefused, TakeChallenge, Try, Respond, Answer, TakeLine,
              Listening, Gate!Refuse, Gate!Spend, Gate!vars
<1>9. ASSUME NEW c \in Conn,
             \/ Gate!Begin(c) \/ Gate!Challenge(c) \/ Gate!Refuse(c)
             \/ Gate!Unlock(c) \/ Gate!Serve(c) \/ Gate!Finish(c) \/ Gate!End(c)
      PROVE  Gate!Next
  BY <1>9 DEF Gate!Next
<1>10. ASSUME NEW c \in Conn, Accept(c) PROVE Gate!Begin(c)
  <2>1. c \notin Handlers /\ Handlers' = Handlers \cup {c}
    BY <1>10 DEF Accept
  <2>2. ~authenticated[c] /\ pending[c] = NoNonce /\ c \notin Served
    BY <1>10, <2>1 DEF Accept, ShutIsClean, WritersHandle
  <2> QED
    BY <1>10, <2>1, <2>2 DEF Accept, Gate!Begin
<1> QED
  BY <1>1, <1>2, <1>3, <1>4, <1>5, <1>6, <1>7, <1>8, <1>9, <1>10, StutterCases,
     StepCases DEF Capacity

-----------------------------------------------------------------------------
(* The theorems.                                                           *)

LEMMA InvariantStep == Inv /\ [Next]_vars => Inv'
  BY TypeStep, PermitsStep, LoopStep, PendingStep, ProvenStep, DrawnStep,
     OnceStep, ShutStep DEF Inv, Capacity, Sessions, Loops

\* Everything the proofs rest on holds in every reachable state.
THEOREM Invariance == Spec => []Inv
<1>1. Init => Inv
  BY CapacityInit, SessionsInit DEF Inv
<1> QED
  BY <1>1, InvariantStep, PTL DEF Spec

\* Every variable keeps to its type: in particular the semaphore never holds
\* more than MAX_CONNECTIONS permits.
THEOREM TypeCorrect == Spec => []TypeOK
  BY Invariance, PTL DEF Inv, Capacity

\* Every live handler holds one permit and every other permit is free, however
\* connections are accepted, rejected, cut off, timed out or left blocked.
THEOREM PermitsAreConserved == Spec => []PermitsConserved
  BY Invariance, PTL DEF Inv, Capacity

\* Nothing privileged is done on a connection whose own session has not proved
\* possession of a configured key with a fresh challenge of its own.
THEOREM OnlyProofUnlocks == Spec => []UnlockedOnlyByProof
<1>1. Inv => UnlockedOnlyByProof
  BY DEF Inv, Sessions, ServedIsUnlocked, UnlockedIsProven,
         UnlockedOnlyByProof, Unlocked
<1> QED
  BY <1>1, Invariance, PTL

\* A challenge opens at most one session, the one it was issued to.
THEOREM ChallengesOpenOneSession == Spec => []ChallengesAnsweredOnce
  BY Invariance, PTL DEF Inv, Sessions

\* The sessions of the server are gates: each begins shut, with no challenge,
\* nothing opens it but the answer to the challenge it holds, what is
\* privileged is begun only in an open one, and it ends with its connection.
THEOREM SessionsAreGates == Spec => ImplementsGate
<1>1. Init => Gate!Init
  BY DEF Init, Gate!Init, Served, Privileged, Handlers, InUse
<1>2. Inv /\ [Next]_vars => [Gate!Next]_Gate!vars
  BY GateStep DEF Inv, Capacity, Sessions
<1> QED
  BY <1>1, <1>2, Invariance, PTL DEF Spec, ImplementsGate, Gate!Spec
=============================================================================
