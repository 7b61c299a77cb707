CONSTANTS
    Chains = {c1, c2}
    FirstParty = {c1}
    Locals = {l1}
    Payloads = {interval}
    MaxSlots = 2
    MaxThirdParty = 1
    MaxShardConns = 2
    SendNodeData = TRUE
    MetadataPath = FALSE

SPECIFICATION Spec

INVARIANT TypeOK
INVARIANT IdentityMapSound
INVARIANT PendingDeltasAgree
PROPERTY TickShowsLiveNodes
