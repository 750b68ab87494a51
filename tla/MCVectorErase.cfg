CONSTANTS
  Values = {v1, v2}
  ElemSizes = {2}
  Align = 4
  Slack = {0}
  MaxSize = 5
  MaxLen <- Lengths
  MaxArg = 2
  MaxBlock = 6
SPECIFICATION Spec
PROPERTY EraseKeepsTheRest
CHECK_DEADLOCK FALSE
