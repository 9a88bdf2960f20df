\* Responses of up to five half-kilobytes, two of which are worth compressing.
SPECIFICATION Spec
CONSTANTS
    MinimumSize = 2
    MaxUnits = 5
    MaxOptions = 2
    None = None
INVARIANTS
    ClientReadsWhatWasWritten
    HeaderFitsBody
CHECK_DEADLOCK FALSE
