CONSTANTS
    Rows = {1, 2, 3, 4}
    Created <- MCCreated
    Inputs = {Text, 1, 2, 3, 99}
    Text = Text
    DefaultSize = 1
    Cap = 2
    MaxInt = 31
SPECIFICATION Spec
INVARIANTS WalkSeesAll WalkHasNoGap NoRowTwice ReplyConsistent PageFull Walk
