SPECIFICATION FairSpec
CONSTANTS
    s1 = s1
    s2 = s2
    Servers <- TwoServers
    Starting = {}
    Drivers = {1, 2}
    Tokens = {1, 2, 3, 4, 5}
    Fresh = {FALSE}
    FaultKinds <- AnyFault
    MaxFaults = 0
    MaxStops <- TwoStops
PROPERTIES
    AlwaysAttached
\* The bound on driver processes stops a launch.
CHECK_DEADLOCK FALSE
