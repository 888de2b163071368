\* Two clients for one permit, of which nothing is assumed.
CONSTANTS
  c1 = c1
  c2 = c2
  n1 = n1
  n2 = n2
  Conn <- Slots
  MaxConnections = 1
  KeyString <- OneKeyString
  AllowedKeys <- OneKeyString
  VKey <- OneVKey
  Decode <- OneDecode
  Nonce = {n1}
  NonceTtl = 1
  IdleLimit = 2
  InCap = 2
  OutCap = 1
  UpdateLines = 2
  NoKey = NoKey
  NoNonce = NoNonce
  NoGrant = NoGrant
SPECIFICATION FairSpec
PROPERTIES HangupIsNoticed SilentReaderCloses
