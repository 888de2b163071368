\* Two clients served at once, every kind of key, two nonces.
CONSTANTS
  c1 = c1
  c2 = c2
  n1 = n1
  n2 = n2
  Conn <- Slots
  MaxConnections = 2
  KeyString <- MCKeyString
  AllowedKeys <- MCAllowedKeys
  VKey <- MCVKey
  Decode <- MCDecode
  Nonce = {n1, n2}
  NonceTtl = 1
  IdleLimit = 1
  InCap = 1
  OutCap = 1
  UpdateLines = 1
  NoKey = NoKey
  NoNonce = NoNonce
  NoGrant = NoGrant
SYMMETRY Symmetry
SPECIFICATION Spec
INVARIANTS TypeOK PermitsConserved UnlockedOnlyByProof ChallengesAnsweredOnce
PROPERTY ImplementsGate
