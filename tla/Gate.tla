-------------------------------- MODULE Gate --------------------------------
(***************************************************************************)
(* What the authentication of src/src/transport.rs promises, with no       *)
(* sockets, handlers or signatures: a session begins shut, is opened by    *)
(* spending the challenge it holds, and stays open until it ends; nothing  *)
(* is served in one that is not open, and no challenge is given out twice. *)
(* Transport implements it.                                                *)
(***************************************************************************)
CONSTANTS Session, Nonce, NoNonce

VARIABLES
  begun,      \* sessions that have begun and not ended
  open,       \* sessions that have been unlocked
  challenge,  \* what each session has to answer
  drawn,      \* challenges given out so far
  served      \* sessions in which something privileged is under way

vars == <<begun, open, challenge, drawn, served>>

Init ==
  /\ begun = {}
  /\ open = {}
  /\ challenge = [s \in Session |-> NoNonce]
  /\ drawn = {}
  /\ served = {}

\* The session is shut: it inherits nothing from one before it.
Begin(s) ==
  /\ s \notin begun \cup open \cup served
  /\ challenge[s] = NoNonce
  /\ begun' = begun \cup {s}
  /\ UNCHANGED <<open, challenge, drawn, served>>

\* A new challenge takes the place of the one before.
Challenge(s) ==
  /\ s \in begun
  /\ \E n \in Nonce \ drawn :
       /\ challenge' = [challenge EXCEPT ![s] = n]
       /\ drawn' = drawn \cup {n}
  /\ UNCHANGED <<begun, open, served>>

Spend(s) ==
  /\ s \in begun
  /\ challenge[s] # NoNonce
  /\ challenge' = [challenge EXCEPT ![s] = NoNonce]
  /\ UNCHANGED <<begun, drawn, served>>

Refuse(s) == Spend(s) /\ UNCHANGED open
Unlock(s) == Spend(s) /\ open' = open \cup {s}

Serve(s) ==
  /\ s \in open
  /\ served' = served \cup {s}
  /\ UNCHANGED <<begun, open, challenge, drawn>>

Finish(s) ==
  /\ served' = served \ {s}
  /\ UNCHANGED <<begun, open, challenge, drawn>>

\* The session is shut, with whatever it was doing and waiting for.
End(s) ==
  /\ s \in begun
  /\ begun' = begun \ {s}
  /\ open' = open \ {s}
  /\ challenge' = [challenge EXCEPT ![s] = NoNonce]
  /\ served' = served \ {s}
  /\ UNCHANGED drawn

Next ==
  \E s \in Session :
    \/ Begin(s) \/ Challenge(s) \/ Refuse(s) \/ Unlock(s)
    \/ Serve(s) \/ Finish(s) \/ End(s)

Spec == Init /\ [][Next]_vars
=============================================================================
