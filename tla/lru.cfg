CONSTANTS
  k1 = k1
  k2 = k2
  v1 = v1
  v2 = v2
  Key <- MCKey
  Value <- MCValue
  Capacities <- MCCapacities
SPECIFICATION HSpec
SYMMETRY Interchangeable
INVARIANTS TypeOK NoDuplicatePairs WithinCapacity RecencyOrder
PROPERTIES RetainsWorkingSet ImplementsContract
