CONSTANTS
    Calls = {c1}
    Root = Root
    Ops = {c1}
    Kinds = {"msa"}
    Cap = 2
    MaxFaults = 3
SPECIFICATION FairSpec
CHECK_DEADLOCK FALSE
PROPERTY
    CallsEnd
