CONSTANTS
    Keys <- OneKey
    RecordTypes = {"A", "CNAME"}
    Owners = {"blue", "green"}
    Resources = {"r", "s"}
    Properties = {"txt/force-update"}
    ManagedTypes = {"A", "CNAME"}
    DomainNames = {"www"}
    Policy = "sync"
    Instances = {"blue"}
    OldOwnerID = ""
    CacheRecords = TRUE
    ProviderChecks = "all"
    Desirable <- AddressesAndCNAME
    InitZone <- Nothing
    InitTXTs <- Nothing
    MaxEdits = 2
    MaxFaults = 2
SPECIFICATION FairSpec
INVARIANT CNAMEAlone
PROPERTIES
    Converges
    Quiescent
