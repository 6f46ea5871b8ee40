SPECIFICATION Spec
CONSTANTS
  PortLists <- MCUnnamed
  SliceSpace <- MCSliceSpace
  MaxSlices = 1
INVARIANT
  EveryPortIsDiscovered
