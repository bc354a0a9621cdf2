\* Every request may overlap every other and the process may die; no service has a hostname.
CONSTANTS
  a = a  b = b  c = c  h1 = h1  h2 = h2
  Names <- TwoNames
  Ports = {8000, 8001}
  Hosts = {h1}
  NoHost = NoHost
  HostOf <- LocalOnly
  Reqs = {r1, r2}
  SerialDeregister = FALSE
  CfMayFail = FALSE
  MaxCrashes = 2
SYMMETRY RequestSymmetry
SPECIFICATION Spec
INVARIANTS TypeOK PortsReservedOnce 
 
