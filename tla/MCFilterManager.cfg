SPECIFICATION FairSpec
CONSTANTS
  Plugins <- MCPlugins
  PluginOrder <- MCOrder
  AuthnPlugins <- MCAuthn
  Setups <- MCSetups
  MaxData = 1
INVARIANTS
  TypeOK
  CounterExact
  RecycledIsNew
  DecodeOrder
  EncodeOrder
  CalledOnce
  WholeOrStreamed
  ForwardedAfterAll
  DecodeComplete
  EncodeComplete
  SkipIsSound
PROPERTIES
  InlineNonBlocking
  ImplementsPool
  RequestProgress
  ResponseProgress
  ObjectReleased
