SPECIFICATION FairSpec
CONSTANTS
    Clients <- MCClients
    Depth = 2
    Lower <- MCLower
    Canonical <- MCCanonical
    NoHost = NoHost
    Origin <- MCOrigin
    YamlFiles = {1, 2, 4}
    Matches <- MCMatches
    InvalidPatterns = {"../*"}
    SecretVariables = {"API_TOKEN"}
    JsonPath <- MCJsonPath
    Unsupported = Unsupported
    SensitiveNames = {"x-token", "password"}
    SecretNames = {"key-id", "secret key"}
    InvalidHeaders = {"bad name"}
    InvalidValues = {"bad value"}
    OriginOnly <- MCOriginOnly
    VariableFor <- MCVariableFor
    Worlds <- MCWorlds
    FileOf <- MCFileOf
    MaxRemovals = 1
INVARIANTS
    EffectiveConfigIsDeclared
    SecretsStayInTheEnvironment
    DiscoveryIsComplete
    CapturedScenarioReplays
    SavedScenarioIsClean
    RedactionIsRecorded
PROPERTY LoadingEnds
CHECK_DEADLOCK FALSE
