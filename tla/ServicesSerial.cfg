\* Registrations and controls overlap freely; a deregistration overlaps nothing.
CONSTANTS
  a = a  b = b  c = c  h1 = h1  h2 = h2
  Names <- TwoNames
  Ports = {8000, 8001}
  Hosts = {h1}
  NoHost = NoHost
  HostOf <- SharedHost
  Reqs = {r1, r2}
  SerialDeregister = TRUE
  CfMayFail = TRUE
  MaxCrashes = 0
SPECIFICATION Spec
INVARIANTS UnitsMatchRegistry RunningIsRegistered RoutesLeadHome 
PROPERTY ImplementsAllocator
