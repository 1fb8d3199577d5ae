\* Sizes of three octal digits: 520 is cut off, and from 64 on PAX writes size=.
SPECIFICATION Spec
CONSTANTS
    Block = 56
    SizeDigits = 3
    ZipMax = 60
    LongNames <- MCLongNames
    Files <- MCFiles
    MaxFiles = 3
    MaxRefs = 2
    Buses = {"auto", "sata"}
    Clean <- MCClean
    BusLimits <- MCBusLimits
INVARIANTS ReadsBack NamesAgree NoPartTravels DiskForDisk
\* A bundle that is imported, or rejected, is done.
CHECK_DEADLOCK FALSE
