CONSTANTS
    Keys <- OneKey
    RecordTypes = {"A", "CNAME"}
    Owners = {"blue", "green"}
    Resources = {"r", "s"}
    Properties = {"alias"}
    ManagedTypes = {"A", "CNAME"}
    DomainNames = {"www"}
    Policy = "sync"
    ProviderChecks = "all"
    Instances = {"blue"}
    CacheRecords = TRUE
    Desirable <- AddressOrCNAME
    InitZone <- Nothing
    MaxEdits = 2
    MaxFaults = 2
SPECIFICATION FairSpec
PROPERTIES
    Converges
    Quiescent
