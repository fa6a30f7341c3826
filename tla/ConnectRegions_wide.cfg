\* The same images: is a region what the comment says it is?
CONSTANTS
  Shapes <- SmallImages
  NMax = 5
SPECIFICATION Spec
INVARIANT EightConnected
CHECK_DEADLOCK FALSE
