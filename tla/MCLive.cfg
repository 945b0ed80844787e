SPECIFICATION LiveSpec
CONSTANTS
    c1 = c1
    c2 = c2
PROPERTIES SyncsConverge LogGetsOn
CHECK_DEADLOCK FALSE
