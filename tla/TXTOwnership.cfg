CONSTANTS
    Keys <- OneKey
    RecordTypes = {"A", "CNAME"}
    Owners = {"blue", "green"}
    Resources = {"r", "s"}
    Properties = {"txt/force-update"}
    ManagedTypes = {"A", "CNAME"}
    DomainNames = {"www"}
    Policy = "sync"
    Instances = {"blue", "green"}
    OldOwnerID = ""
    CacheRecords = TRUE
    ProviderChecks = "all"
    Desirable <- AddressesAndCNAME
    InitZone <- Nothing
    InitTXTs <- Nothing
    MaxEdits = 1
    MaxFaults = 1
SPECIFICATION Spec
INVARIANTS
    TypeOK
    Paired
    CacheAccurate
    TXTsReconstructed
PROPERTIES
    ForeignUntouched
    OwnershipUntouched
    KeepsPromise
    HolderKept
    TakenNamesLeft
