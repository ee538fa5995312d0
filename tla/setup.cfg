SPECIFICATION FairSpec
CONSTANTS
    home = home
    guest = guest
    pc = pc
    NoText = NoText
    NoConfig = NoConfig
    Networks = {home, guest}
    Hosts = {NoText, pc}
    Inputs <- MCInputs
    MaxFaults = 2
INVARIANTS TypeOK PromisedIsLoaded ApExcludesStation
PROPERTIES BootReachesUser JoinsAgain
