SPECIFICATION ServerSpec
CHECK_DEADLOCK FALSE
CONSTANTS
  t1 = t1
  t2 = t2
  Tasks = {t1, t2}
  Publishers = {drive}
  Callers <- MCCallers
  Settings <- MCSettings
  Declarations <- MCDeclarations
  Offered <- MCOffered
  Urls <- MCUrls
  Literals = {"192.0.2.1", "10.0.0.1"}
  Names = {"hook.example", "localhost"}
  BlockedNames = {"localhost"}
  BlockedIps = {"10.0.0.1"}
  MaxConfigs = 2
  MaxHops = 1
  MaxSaves = 3
  JsonRpcWires <- MCJsonRpcWires
  RestWires <- MCRestWires
  GrpcWires <- MCGrpcWires
  SlimWires <- MCSlimWires
  PluginLaunches <- MCPluginLaunches
  AppNames <- MCAppNames
  PluginHeaders <- MCPluginHeaders
  MaxLabel = 17
  FormParts <- MCFormParts
  FormRequirements <- MCFormRequirements
  FormOrigins = {"none", "unreadable", "*", "https://site.example"}
INVARIANTS ServerTypeOK NeverDialsBlocked OnlyRefusalsCutShort EntryGuarded PluginSound OneMeaning
PROPERTIES OnlyPermitted
