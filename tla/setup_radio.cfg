SPECIFICATION Spec
CONSTANTS
    home = home
    guest = guest
    pc = pc
    NoText = NoText
    NoConfig = NoConfig
    Networks = {home, guest}
    Hosts = {NoText, pc}
    Inputs <- MCInputs
    MaxFaults = 0
INVARIANT RadioRunsInStation
