CONSTANTS
    Keys <- OneKey
    RecordTypes = {"A", "CNAME"}
    Owners = {"blue", "green"}
    Resources = {"r", "s"}
    Properties = {"txt/force-update", "alias"}
    ManagedTypes = {"A", "CNAME"}
    DomainNames = {"www"}
    Policy = "sync"
    Instances = {"blue"}
    OldOwnerID = ""
    CacheRecords = TRUE
    ProviderChecks = "all"
    Desirable <- AliasOrCNAME
    InitZone <- Nothing
    InitTXTs <- Nothing
    MaxEdits = 2
    MaxFaults = 0
SPECIFICATION Spec
INVARIANT Paired
