SPECIFICATION Spec
CONSTANTS
    Specs = {s1, s2}
    Calls = {c1}
    MaxReopens = 1
    NoSpec = NoSpec
CHECK_DEADLOCK FALSE
PROPERTY NoneRunningAtBoot
