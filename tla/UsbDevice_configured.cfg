CONSTANTS
  Extra = {}
  MaxRequests = 0
  MaxFaults = 1
  Packets = 2
SPECIFICATION Spec
INVARIANT ConfiguredMeansEnumerated
