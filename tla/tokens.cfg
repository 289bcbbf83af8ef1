SPECIFICATION MCSpec
CONSTANTS
  Themes <- MCThemes
  Jobs <- MCJobs
  Protocol <- MCProtocol
  MaxMade <- MCMaxMade
  MaxExchanges = 1
  Unprotected <- MCUnprotected
  ClaimArgs <- MCClaimArgs
  MaxBuilders = 5
  ConfigNames <- MCConfigNames
  InitialConfigs <- MCInitialConfigs
  KeySets <- MCKeySets
  MaxVerifiers = 2
  Parsers <- MCParsers
  KeyFuncs <- MCKeyFuncs
  Times <- MCTimes
  Leeways <- MCLeeways
  Signers <- MCSigners
  Encrypters <- MCEncrypters
  BlockSize = 2
  HashSize = 3
  Plaintexts <- MCPlaintexts
  Data <- MCData
  Nonces <- MCNonces
  WrapKeys <- MCWrapKeys
  MaxRead = 8
  Unit <- MCUnit
  DefaultIV = 10
  CBCEncrypt <- MCCBCEncrypt
  CBCDecrypt <- MCCBCDecrypt
  PairEncrypt <- MCPairEncrypt
  PairDecrypt <- MCPairDecrypt
  XorCount <- MCXorCount
INVARIANTS
  SignedArrives
  SealedArrives
  AcceptedWasMade
  ClaimsArrive
  TokenJudged
  AgreedWindow
  IDTokenChecked
  EndsAgree
CHECK_DEADLOCK FALSE
