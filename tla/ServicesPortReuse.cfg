\* A deregistration overlaps a registration: two unit files get one port.
CONSTANTS
  a = a  b = b  c = c  h1 = h1  h2 = h2
  Names <- ThreeNames
  Ports = {8000, 8001}
  Hosts = {h1}
  NoHost = NoHost
  HostOf <- LocalOnly
  Reqs = {r1, r2}
  SerialDeregister = FALSE
  CfMayFail = FALSE
  MaxCrashes = 0
SPECIFICATION Spec
INVARIANT UnitPortsDistinct
