SPECIFICATION FairSpec
CONSTANTS
    Hosts = {h1, h2}
    NoHost = NoHost
    DiscoverInterval = 1
    HelloInterval = 1
    AckTimeout = 3
    MaxMishaps = 1
    MaxOutages = 1
PROPERTY FollowsName
