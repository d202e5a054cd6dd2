SPECIFICATION FairSpec
CONSTANTS
    MaxFails = 2
    MaxTyped = 1
    MaxQueue = 1
PROPERTY
    ConsoleReconnects
