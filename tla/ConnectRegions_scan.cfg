\* Every image of five columns and three rows, and of three by three;
\* one of six columns is refused.
CONSTANTS
  Shapes <- SmallImages
  NMax = 5
SPECIFICATION Spec
INVARIANTS TypeOK RootsAreRegions RegionsReturned
CHECK_DEADLOCK FALSE
