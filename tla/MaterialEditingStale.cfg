SPECIFICATION Spec
CONSTANTS
    Contents = {x1, x2}
    Texts = {x1}
    MaxReads = 2
    MaxEdits = 2
INVARIANT EditsBuildOnWhatTheyReplace
CHECK_DEADLOCK FALSE
