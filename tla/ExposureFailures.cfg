\* The requests for exposures one after another, every call may fail; two hostnames of the dashboard, one name and tunnel id of the node.
SYMMETRY ProfileSymmetry
SPECIFICATION ShownSpec
CONSTANTS
    pa = pa  pb = pb  ha = ha  ia = ia  ib = ib  ta = ta  xa = xa  ra = ra
    d1 = d1  d2 = d2  d3 = d3  e1 = e1
    None = None
    Profiles <- TwoProfiles
    Hosts <- OneHost
    Policies <- TwoPolicies
    OwnedTokens <- OneToken
    ExternalTokens <- External
    Requests <- OneRequest
    Faults <- CallsFail
    Careless = FALSE
    MaxForgotten = 1
    DashboardHosts <- TwoDashboards
    ServiceHosts <- OneService
    OtherHosts <- OneOther
    HomeHosts <- InZone
    AccessPolicies = {p1}
    TunnelIds <- OneTunnel
    TunnelNames = {n1}
    HostSets <- DashboardCases
    Nothing = Nothing
INVARIANTS ShownTypeOK    
 
