SPECIFICATION Spec
CONSTANTS
    Gateways = {g1}
    SeqMod = 4
    MaxLag = 2
    MaxBoots = 2
    MaxEpoch = 1
    MaxBridgeRestarts = 1
CHECK_DEADLOCK FALSE
INVARIANTS TypeOK NoDuplicateBatch RetiredStaysRetired LiveBootNotRetired
