CONSTANTS
  Extra = {"SetConfiguration", "Unconfigure", "GetStatus", "SetFeature", "ClearFeature", "Unknown"}
  MaxRequests = 1
  MaxFaults = 2
  Packets = 1
SPECIFICATION FairSpec
INVARIANTS TypeOK ReadyWhenConfigured HostAndDeviceAgree
PROPERTY Recovers
