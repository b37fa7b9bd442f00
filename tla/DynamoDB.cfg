CONSTANTS
    Keys <- OneKey
    RecordTypes = {"A", "CNAME"}
    Owners = {"blue", "green"}
    Resources = {"r", "s"}
    Properties = {"alias"}
    ManagedTypes = {"A", "CNAME"}
    DomainNames = {"www"}
    Policy = "sync"
    ProviderChecks = "none"
    Instances = {"blue", "green"}
    CacheRecords = TRUE
    Desirable <- AddressesAndCNAME
    InitZone <- Nothing
    MaxEdits = 2
    MaxFaults = 1
SPECIFICATION Spec
INVARIANTS
    TypeOK
    NeverUnclaimed
    LabelsAccurate
PROPERTY Arbitrated KeepsPromise
