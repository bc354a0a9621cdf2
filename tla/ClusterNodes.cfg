\* One machine that may enroll twice, with lost messages and restarts; three tokens; three clients that sign in.
SPECIFICATION AdministrationSpec
CONSTANTS
    m1 = m1  t1 = t1  e1 = e1  s1 = s1  s2 = s2
    None = None
    Machines <- OneMachine
    Tokens <- OneToken
    Keys <- TwoNumbers
    Ids <- TwoNumbers
    Enrollments <- OneEnrollment
    Scenarios <- AllScenarios
    Bearers <- ThreeBearers
    Targets <- TwoTargets
    Grants <- SomeGrants
    Lifetime = 2
    Clients = {c1, c2, c3}
    Window = 2
    MaxAttempts = 2
    BaseBackoff = 1
    MaxBackoff = 2
    MaxTracked = 2
    MaxSessions = 2
    Duration = 2
INVARIANTS AdministrationTypeOK TokenEnrollsOnce   TokensAsReported LoginsSound
PROPERTIES WorkerComesBack SilentGoesOffline TunnelIsReported
