\* The file breaks, and nothing else goes wrong.
CONSTANTS
    Extensions = {x1, x2}
    Versions = {1}
    MaxChanges = 1
    MaxFaults = 0
SPECIFICATION FairSpec
PROPERTIES
    BrokenFileIgnored
