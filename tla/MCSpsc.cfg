\* A buffer of four bytes, records of up to three, positions that wrap at eight.
CONSTANTS
    Capacity = 3
    WordSize = 8
    MaxRecord = 3
    Byte = {0, 1}
SPECIFICATION FairSpscSpec
INVARIANTS
    NoDataRace
    PromiseKept
PROPERTIES
    ImplementsFifo
    WritesGoOn
    ReadsGoOn
