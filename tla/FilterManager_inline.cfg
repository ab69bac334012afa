SPECIFICATION Spec
CONSTANTS
  Plugins <- MCPlugins
  PluginOrder <- MCOrder
  AuthnPlugins <- MCAuthn
  Setups <- MCSetups
  MaxData = 1
PROPERTY TrailersInlineNonBlocking
