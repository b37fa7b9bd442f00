CONSTANTS
    Keys <- AllKeys
    RecordTypes = {"A", "AAAA", "CNAME", "TXT", "MX"}
    Owners = {"me"}
    Resources = {"r"}
    Properties = {}
    ManagedTypes = {"A", "AAAA", "CNAME"}
    DomainNames <- Names
    Policy = "sync"
    Zones <- NestedZones
    TargetIds = {0, 1, 2, 3, 4}
    HostTargets = {3, 4}
    CanonicalTargets = {4}
    BatchChangeSize = 5
    BatchChangeValues = 7
    GoogleBatchChangeSize = 5
    AWSLoadBalancers = {4}
    CleanEmptyService = TRUE
    LongerOwners = {"me-too"}
    LabelStarts = {}
    LabelEndings <- MCLabelEndings
    RFC2136BatchChangeSize = 2
    MinTTL = 60
    NS1MinTTL = 60
    ExoscaleServiceTTL = 3600
    DryRun = FALSE
    Kinds <- AllKinds
    TXTKinds = {"aws", "oci", "scaleway", "pdns"}
    TypedLabel <- MCTypedLabel
    Desirable <- WishesOf
    InitService <- Others
    MaxEdits = 1
    MaxFaults = 2
    MaxDrifts = 1
SPECIFICATION Spec
INVARIANTS TypeOK OwnedTogether  RightZone
PROPERTIES Converges Seamless KeepsContract
