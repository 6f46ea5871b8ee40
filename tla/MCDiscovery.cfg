SPECIFICATION Spec
CONSTANTS
  PortLists <- MCPortLists
  SliceSpace <- MCSliceSpace
  MaxSlices = 2
INVARIANTS
  DiscoversTheReady
  OrderIsImmaterial
