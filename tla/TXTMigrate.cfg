CONSTANTS
    Keys <- OneKey
    RecordTypes = {"A", "CNAME"}
    Owners = {"blue", "old"}
    Resources = {"r", "s"}
    Properties = {"txt/force-update"}
    ManagedTypes = {"A", "CNAME"}
    DomainNames = {"www"}
    Policy = "sync"
    Instances = {"blue"}
    OldOwnerID = "old"
    CacheRecords = FALSE
    ProviderChecks = "upsert"
    Desirable <- OneAddress
    InitZone <- OneRecord
    InitTXTs <- OwnedByOld
    MaxEdits = 0
    MaxFaults = 0
SPECIFICATION FairSpec
PROPERTY OwnerMigrated
