SPECIFICATION FairSpec
CONSTANTS
    s1 = s1
    s2 = s2
    Servers <- TwoServers
    Starting <- OneServer
    Drivers = {1, 2}
    Tokens = {1, 2, 3, 4, 5}
    Fresh = {TRUE, FALSE}
    FaultKinds <- AnyFault
    MaxFaults = 1
    MaxStops <- TwoStops
INVARIANTS
    OneServes
    ServingIsReached
PROPERTIES
    RunComesBack
\* The bound on driver processes stops a launch.
CHECK_DEADLOCK FALSE
