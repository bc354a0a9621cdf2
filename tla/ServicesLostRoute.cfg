\* Two registrations rewrite the tunnel's routes at once: one route is lost.
CONSTANTS
  a = a  b = b  c = c  h1 = h1  h2 = h2
  Names <- TwoNames
  Ports = {8000, 8001}
  Hosts = {h1, h2}
  NoHost = NoHost
  HostOf <- OwnHosts
  Reqs = {r1, r2}
  SerialDeregister = TRUE
  CfMayFail = FALSE
  MaxCrashes = 0
SPECIFICATION Spec
INVARIANT ReportedRouteExists
