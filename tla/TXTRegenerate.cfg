CONSTANTS
    Keys <- OneKey
    RecordTypes = {"A", "CNAME"}
    Owners = {"blue", "green"}
    Resources = {"r", "s"}
    Properties = {"txt/force-update"}
    ManagedTypes = {"A", "CNAME"}
    DomainNames = {"www"}
    Policy = "sync"
    Instances = {"blue"}
    OldOwnerID = ""
    CacheRecords = TRUE
    ProviderChecks = "upsert"
    Desirable <- OneAddress
    InitZone <- OneRecord
    InitTXTs <- OwnedByBlue
    MaxEdits = 0
    MaxFaults = 1
SPECIFICATION FairSpec
PROPERTY TXTsRegenerated
