CONSTANTS
  Backends = {"data_control", "wl_data_device"}
  MaxOps = 5
  None = None
SPECIFICATION FairSpec
INVARIANTS
  CounterSettles
  HostAndClientsAgree
PROPERTIES
  HostCopyArrives
CHECK_DEADLOCK FALSE
