--------------------------- MODULE ServiceRegistry ---------------------------
(***************************************************************************)
(* The service manager of one node (services.py): the registry that        *)
(* reserves a port for every service, its backup copy and ports.env, the   *)
(* systemd unit files, the running processes, and the Cloudflare objects   *)
(* that expose a service (tunnel route, DNS record, Access app).           *)
(*                                                                         *)
(* Every handler is a coroutine of one event loop, so what it does between *)
(* two awaits is one action; the registry that a handler loaded before an  *)
(* await is its own copy afterwards.  The process may die inside a         *)
(* registry save, which writes three files one after the other.            *)
(***************************************************************************)
EXTENDS Naturals, FiniteSets

CONSTANTS
    Names,            \* service names
    Ports,            \* the port range, 8000..8999 in the code
    Hosts,            \* public hostnames
    NoHost,           \* a service that is registered without a hostname
    HostOf,           \* the hostname each service is registered with
    Reqs,             \* requests that may be in flight together (bound)
    SerialDeregister, \* TRUE: a deregistration overlaps no other request
    CfMayFail,        \* TRUE: a Cloudflare call may fail or time out
    MaxCrashes        \* how often the process dies (bound)

NoPort == 0

ASSUME ConstantsAssumption ==
    /\ Names # {} /\ Reqs # {}
    /\ Ports \subseteq Nat \ {NoPort}
    /\ NoHost \notin Hosts
    /\ HostOf \in [Names -> Hosts \cup {NoHost}]
    /\ SerialDeregister \in BOOLEAN /\ CfMayFail \in BOOLEAN
    /\ MaxCrashes \in Nat

VARIABLES
    file,      \* services.json
    backup,    \* services.json.bak
    portsEnv,  \* ports.env
    units,     \* the port each unit file passes to its service
    active,    \* the port each running service was started with
    ingress,   \* the tunnel's routes, kept by Cloudflare
    dns,       \* hostnames with a DNS record
    apps,      \* hostnames with an Access application
    abandoned, \* hostnames a failed cleanup left behind at Cloudflare
    reported,  \* services whose caller was told cf_route_added = true
    pc,        \* where each request waits
    name,      \* the service each request is about
    copy,      \* the registry each request holds in memory
    seen,      \* the routes each request has read from Cloudflare
    crashes

disk  == <<file, backup, portsEnv>>
cloud == <<ingress, dns, apps>>
local == <<name, copy, seen>>
told  == <<abandoned, reported>>   \* history: what callers and operators know
vars  == <<disk, units, active, cloud, told, pc, local, crashes>>

(* A registry maps every registered service to its port.                   *)
Registry   == [Names -> Ports \cup {NoPort}]
NoServices == [n \in Names |-> NoPort]
Routes     == [Hosts -> Ports \cup {NoPort}]
NoRoutes   == [h \in Hosts |-> NoPort]
AnyName    == CHOOSE n \in Names : TRUE

(* A JSON file: readable, damaged by an interrupted write, or not there.   *)
File      == [status: {"ok", "corrupt", "missing"}, reg: Registry]
Ok(reg)   == [status |-> "ok", reg |-> reg]
Missing   == [status |-> "missing", reg |-> NoServices]

(* Variant: a damaged file passes for a registry, with ports cut short.    *)
CorruptAccepted == [status |-> "ok", reg |-> [n \in Names |-> 8]]

Corrupt   == [status |-> "corrupt", reg |-> NoServices]

Steps == {"idle", "reg_get", "reg_put", "reg_dns", "reg_app",
          "dereg_disable", "dereg_unlink", "dereg_get", "dereg_put",
          "dereg_dns", "dereg_app", "dereg_save", "start", "stop", "restart"}

Init ==
    /\ file = Missing /\ backup = Missing /\ portsEnv = NoServices
    /\ units = NoServices /\ active = NoServices
    /\ ingress = NoRoutes /\ dns = {} /\ apps = {} /\ abandoned = {} /\ reported = {}
    /\ pc = [r \in Reqs |-> "idle"]
    /\ name = [r \in Reqs |-> AnyName]
    /\ copy = [r \in Reqs |-> NoServices]
    /\ seen = [r \in Reqs |-> NoRoutes]
    /\ crashes = 0

-----------------------------------------------------------------------------
(* Loading and saving                                                      *)

(* _load_registry: a damaged file is set aside and replaced by the backup  *)
(* where that is readable; without a file the registry is empty, whatever  *)
(* the backup holds.                                                       *)
Recovers == file.status = "corrupt" /\ backup.status = "ok"

Loaded ==
    IF file.status = "ok" THEN file.reg
    ELSE IF Recovers THEN backup.reg ELSE NoServices

(* Variant: the damaged file stays where it is.                            *)
FileKept == file

FileAfterLoad ==
    IF file.status # "corrupt" THEN file
    ELSE IF Recovers THEN Ok(backup.reg) ELSE Missing

EnvAfterLoad == IF Recovers THEN backup.reg ELSE portsEnv

Load ==
    /\ file' = FileAfterLoad
    /\ portsEnv' = EnvAfterLoad
    /\ UNCHANGED backup

(* _save_registry over a file f: copy it to the backup, write it, then     *)
(* ports.env.                                                              *)
(* Variant: no backup is taken.                                            *)
NoBackup(f) == backup

BackupOf(f) == IF f.status = "missing" THEN backup ELSE f

(* Variant: ports.env is not rewritten.                                    *)
SaveWithoutEnv(f, reg) ==
    backup' = BackupOf(f) /\ file' = Ok(reg) /\ UNCHANGED portsEnv

Save(f, reg) ==
    /\ backup' = BackupOf(f)
    /\ file' = Ok(reg)
    /\ portsEnv' = reg

(* The process dies inside _save_registry: while copying the backup, while *)
(* writing the registry, or before ports.env is complete.                  *)
TornSave(f, env, reg) ==
    \/ /\ f.status # "missing"
       /\ backup' = Corrupt /\ file' = f /\ portsEnv' = env
    \/ /\ backup' = BackupOf(f) /\ file' = Corrupt /\ portsEnv' = env
    \/ /\ backup' = BackupOf(f) /\ file' = Ok(reg)
       /\ portsEnv' \in {env, NoServices}

(* next_available_port                                                     *)
(* Variants: the used ports are those of ports.env; any free port will do. *)
UsedPortsOfEnv(reg) == {portsEnv[n] : n \in Names} \ {NoPort}

UsedPorts(reg) == {reg[n] : n \in Names} \ {NoPort}
IsFreePort(p, reg) == p \in Ports \ UsedPorts(reg)

IsNextPort(p, reg) ==
    /\ p \in Ports \ UsedPorts(reg)
    /\ \A q \in Ports \ UsedPorts(reg) : p <= q

-----------------------------------------------------------------------------
(* Requests                                                                *)

InFlight == {r \in Reqs : pc[r] # "idle"}
Deregistering(r) == pc[r] \in {"dereg_disable", "dereg_unlink", "dereg_get",
                               "dereg_put", "dereg_dns", "dereg_app",
                               "dereg_save"}
MayBegin == SerialDeregister => \A r \in Reqs : ~Deregistering(r)

Goto(r, step) == pc' = [pc EXCEPT ![r] = step]

(* A request returns and its local variables are gone.                     *)
Return(r) ==
    /\ Goto(r, "idle")
    /\ name' = [name EXCEPT ![r] = AnyName]
    /\ copy' = [copy EXCEPT ![r] = NoServices]
    /\ seen' = [seen EXCEPT ![r] = NoRoutes]

(* A load that only has to recover the file: list_services, the port       *)
(* preview, and every handler that then refuses its request.               *)
ReadRegistry ==
    /\ file.status = "corrupt"
    /\ Load
    /\ UNCHANGED <<units, active, cloud, told, pc, local, crashes>>

-----------------------------------------------------------------------------
(* register_service                                                        *)

(* Everything up to the first await: the name is free, the lowest free     *)
(* port is reserved by saving the registry, the unit file is written.      *)
(* Only a service with a hostname has more to do after daemon-reload.      *)
Reserve(r, n, p) ==
    LET reg == [Loaded EXCEPT ![n] = p] IN
    /\ pc[r] = "idle" /\ MayBegin
    /\ Loaded[n] = NoPort
    /\ IsNextPort(p, Loaded)
    /\ Save(FileAfterLoad, reg)
    /\ units' = [units EXCEPT ![n] = p]
    /\ IF HostOf[n] = NoHost
       THEN UNCHANGED <<pc, local>>
       ELSE /\ Goto(r, "reg_get")
            /\ name' = [name EXCEPT ![r] = n]
            /\ copy' = [copy EXCEPT ![r] = reg]
            /\ UNCHANGED seen
    /\ UNCHANGED <<active, cloud, told, crashes>>

(* add_tunnel_route reads the whole tunnel configuration; a hostname that  *)
(* has a route already ends the exposure, and the error is swallowed.      *)
ReadRoutesToAdd(r) ==
    /\ pc[r] = "reg_get"
    /\ IF ingress[HostOf[name[r]]] # NoPort
       THEN Return(r)
       ELSE /\ seen' = [seen EXCEPT ![r] = ingress]
            /\ Goto(r, "reg_put")
            /\ UNCHANGED <<name, copy>>
    /\ UNCHANGED <<disk, units, active, cloud, told, crashes>>

(* ... and writes the whole configuration back.                            *)
RoutesWith(r) == [seen[r] EXCEPT ![HostOf[name[r]]] = copy[r][name[r]]]

PutRouteAdded(r) ==
    /\ pc[r] = "reg_put"
    /\ ingress' = RoutesWith(r)
    /\ Goto(r, "reg_dns")
    /\ UNCHANGED <<disk, units, active, dns, apps, told, local, crashes>>

(* create_dns_record: Cloudflare refuses a second record for the name.     *)
CreateDnsRecord(r) ==
    /\ pc[r] = "reg_dns"
    /\ IF HostOf[name[r]] \in dns
       THEN Return(r) /\ UNCHANGED dns
       ELSE /\ dns' = dns \cup {HostOf[name[r]]}
            /\ Goto(r, "reg_app")
            /\ UNCHANGED local
    /\ UNCHANGED <<disk, units, active, ingress, apps, told, crashes>>

(* create_access_app, skipped where no policy is configured; then the      *)
(* caller is told cf_route_added = true.                                   *)
CreateAccessApp(r) ==
    /\ pc[r] = "reg_app"
    /\ \/ apps' = apps \cup {HostOf[name[r]]}
       \/ UNCHANGED apps
    /\ reported' = reported \cup {name[r]}
    /\ UNCHANGED abandoned
    /\ Return(r)
    /\ UNCHANGED <<disk, units, active, ingress, dns, crashes>>

(* A Cloudflare call fails: the rest of the exposure is skipped, nothing   *)
(* is undone.  A PUT whose answer was lost may have been applied.          *)
ExposureFails(r) ==
    /\ CfMayFail
    /\ pc[r] \in {"reg_get", "reg_put", "reg_dns", "reg_app"}
    /\ \/ UNCHANGED ingress
       \/ pc[r] = "reg_put" /\ ingress' = RoutesWith(r)
    /\ Return(r)
    /\ UNCHANGED <<disk, units, active, dns, apps, told, crashes>>

-----------------------------------------------------------------------------
(* deregister_service                                                      *)

BeginDeregister(r, n) ==
    /\ pc[r] = "idle"
    /\ SerialDeregister => InFlight = {}
    /\ Loaded[n] # NoPort
    /\ Load
    /\ Goto(r, "dereg_disable")
    /\ name' = [name EXCEPT ![r] = n]
    /\ copy' = [copy EXCEPT ![r] = Loaded]
    /\ UNCHANGED <<units, active, cloud, told, seen, crashes>>

(* Variant: disable without --now.                                         *)
DisabledOnly(r) == active

(* systemctl disable --now, whose exit code is ignored.                    *)
Stopped(r) ==
    IF units[name[r]] = NoPort THEN active
    ELSE [active EXCEPT ![name[r]] = NoPort]

Disable(r) ==
    /\ pc[r] = "dereg_disable"
    /\ active' = Stopped(r)
    /\ Goto(r, "dereg_unlink")
    /\ UNCHANGED <<disk, units, cloud, told, local, crashes>>

(* Variant: the unit file is left.                                         *)
UnitsKept(r) == units

UnitsWithout(r) == [units EXCEPT ![name[r]] = NoPort]

(* The unit file goes, systemd reloads, and the service leaves the copy of *)
(* the registry that was loaded before the first await.                    *)
Unlink(r) ==
    /\ pc[r] = "dereg_unlink"
    /\ units' = UnitsWithout(r)
    /\ copy' = [copy EXCEPT ![r][name[r]] = NoPort]
    /\ Goto(r, IF HostOf[name[r]] = NoHost THEN "dereg_save" ELSE "dereg_get")
    /\ UNCHANGED <<disk, active, cloud, told, name, seen, crashes>>

(* remove_tunnel_route: without a route for the hostname it raises, and    *)
(* the DNS record and the Access app are not looked at.                    *)
ReadRoutesToRemove(r) ==
    /\ pc[r] = "dereg_get"
    /\ IF ingress[HostOf[name[r]]] = NoPort
       THEN Goto(r, "dereg_save") /\ UNCHANGED seen
       ELSE /\ seen' = [seen EXCEPT ![r] = ingress]
            /\ Goto(r, "dereg_put")
    /\ UNCHANGED <<disk, units, active, cloud, told, name, copy, crashes>>

(* Variant: the hostname's rule is not filtered out.                       *)
RoutesUnfiltered(r) == seen[r]

RoutesWithout(r) == [seen[r] EXCEPT ![HostOf[name[r]]] = NoPort]

PutRouteRemoved(r) ==
    /\ pc[r] = "dereg_put"
    /\ ingress' = RoutesWithout(r)
    /\ Goto(r, "dereg_dns")
    /\ UNCHANGED <<disk, units, active, dns, apps, told, local, crashes>>

DeleteDnsRecord(r) ==
    /\ pc[r] = "dereg_dns"
    /\ dns' = dns \ {HostOf[name[r]]}
    /\ Goto(r, "dereg_app")
    /\ UNCHANGED <<disk, units, active, ingress, apps, told, local, crashes>>

DeleteAccessApp(r) ==
    /\ pc[r] = "dereg_app"
    /\ apps' = apps \ {HostOf[name[r]]}
    /\ Goto(r, "dereg_save")
    /\ UNCHANGED <<disk, units, active, ingress, dns, told, local, crashes>>

CleanupFails(r) ==
    /\ CfMayFail
    /\ pc[r] \in {"dereg_get", "dereg_put", "dereg_dns", "dereg_app"}
    /\ \/ UNCHANGED ingress
       \/ pc[r] = "dereg_put" /\ ingress' = RoutesWithout(r)
    /\ abandoned' = abandoned \cup {HostOf[name[r]]}
    /\ Goto(r, "dereg_save")
    /\ UNCHANGED <<disk, units, active, dns, apps, reported, local, crashes>>

(* The copy is saved over whatever the registry has become meanwhile.      *)
SaveDeregistered(r) ==
    /\ pc[r] = "dereg_save"
    /\ Save(file, copy[r])
    /\ reported' = reported \ {name[r]}
    /\ UNCHANGED abandoned
    /\ Return(r)
    /\ UNCHANGED <<units, active, cloud, crashes>>

-----------------------------------------------------------------------------
(* start_service, stop_service, restart_service                            *)

BeginControl(r, n, verb) ==
    /\ pc[r] = "idle" /\ MayBegin
    /\ Loaded[n] # NoPort
    /\ Load
    /\ Goto(r, verb)
    /\ name' = [name EXCEPT ![r] = n]
    /\ UNCHANGED <<units, active, cloud, told, copy, seen, crashes>>

(* systemctl acts when it runs, not when the name was checked; it fails    *)
(* without a unit file.                                                    *)
Control(r) ==
    LET n == name[r] IN
    /\ pc[r] \in {"start", "stop", "restart"}
    /\ \/ units[n] = NoPort /\ UNCHANGED active
       \/ /\ units[n] # NoPort /\ pc[r] = "start"
          /\ active' = IF active[n] # NoPort THEN active
                       ELSE [active EXCEPT ![n] = units[n]]
       \/ /\ units[n] # NoPort /\ pc[r] = "stop"
          /\ active' = [active EXCEPT ![n] = NoPort]
       \/ /\ units[n] # NoPort /\ pc[r] = "restart"
          /\ active' = [active EXCEPT ![n] = units[n]]
    /\ Return(r)
    /\ UNCHANGED <<disk, units, cloud, told, crashes>>

-----------------------------------------------------------------------------
(* Crashes: the requests in flight are gone, the services run on.          *)

Die ==
    /\ crashes < MaxCrashes
    /\ crashes' = crashes + 1
    /\ pc' = [r \in Reqs |-> "idle"]
    /\ name' = [r \in Reqs |-> AnyName]
    /\ copy' = [r \in Reqs |-> NoServices]
    /\ seen' = [r \in Reqs |-> NoRoutes]

Crash ==
    /\ Die
    /\ InFlight # {}
    /\ UNCHANGED <<disk, units, active, cloud, told>>

(* In register_service, inside the save or before the unit file.           *)
CrashInReserve(r, n, p) ==
    LET reg == [Loaded EXCEPT ![n] = p] IN
    /\ Die
    /\ pc[r] = "idle" /\ MayBegin
    /\ Loaded[n] = NoPort
    /\ IsNextPort(p, Loaded)
    /\ \/ TornSave(FileAfterLoad, EnvAfterLoad, reg)
       \/ Save(FileAfterLoad, reg)
    /\ UNCHANGED <<units, active, cloud, told>>

CrashInSaveDeregistered(r) ==
    /\ Die
    /\ pc[r] = "dereg_save"
    /\ TornSave(file, portsEnv, copy[r])
    /\ UNCHANGED <<units, active, cloud, told>>

(* In _load_registry, after the damaged file was set aside.                *)
CrashInRecovery ==
    /\ Die
    /\ Recovers
    /\ \/ file' = Missing /\ UNCHANGED <<backup, portsEnv>>
       \/ TornSave(Missing, portsEnv, backup.reg)
    /\ UNCHANGED <<units, active, cloud, told>>

-----------------------------------------------------------------------------
Next ==
    \/ ReadRegistry
    \/ \E r \in Reqs, n \in Names, p \in Ports : Reserve(r, n, p)
    \/ \E r \in Reqs : ReadRoutesToAdd(r)
    \/ \E r \in Reqs : PutRouteAdded(r)
    \/ \E r \in Reqs : CreateDnsRecord(r)
    \/ \E r \in Reqs : CreateAccessApp(r)
    \/ \E r \in Reqs : ExposureFails(r)
    \/ \E r \in Reqs, n \in Names : BeginDeregister(r, n)
    \/ \E r \in Reqs : Disable(r)
    \/ \E r \in Reqs : Unlink(r)
    \/ \E r \in Reqs : ReadRoutesToRemove(r)
    \/ \E r \in Reqs : PutRouteRemoved(r)
    \/ \E r \in Reqs : DeleteDnsRecord(r)
    \/ \E r \in Reqs : DeleteAccessApp(r)
    \/ \E r \in Reqs : CleanupFails(r)
    \/ \E r \in Reqs : SaveDeregistered(r)
    \/ \E r \in Reqs, n \in Names, verb \in {"start", "stop", "restart"} :
          BeginControl(r, n, verb)
    \/ \E r \in Reqs : Control(r)
    \/ Crash
    \/ \E r \in Reqs, n \in Names, p \in Ports : CrashInReserve(r, n, p)
    \/ \E r \in Reqs : CrashInSaveDeregistered(r)
    \/ CrashInRecovery

Spec == Init /\ [][Next]_vars

-----------------------------------------------------------------------------
(* Properties                                                              *)

(* Every file, copy and request is one the code can produce.               *)
TypeOK ==
    /\ file \in File /\ backup \in File
    /\ portsEnv \in Registry /\ units \in Registry /\ active \in Registry
    /\ ingress \in Routes /\ dns \subseteq Hosts /\ apps \subseteq Hosts
    /\ abandoned \subseteq Hosts /\ reported \subseteq Names
    /\ pc \in [Reqs -> Steps]
    /\ name \in [Reqs -> Names]
    /\ copy \in [Reqs -> Registry]
    /\ seen \in [Reqs -> Routes]
    /\ crashes \in Nat

NoSharedPort(reg) ==
    \A m, n \in Names : m # n /\ reg[m] # NoPort => reg[m] # reg[n]

(* No two services of a registry share a port: not in the file, not in its *)
(* backup, not in a copy that a suspended handler will still save          *)
(* (next_available_port and the reservation in register_service).          *)
PortsReservedOnce ==
    /\ NoSharedPort(file.reg)
    /\ NoSharedPort(backup.reg)
    /\ \A r \in Reqs : NoSharedPort(copy[r])

(* However the process dies while saving or recovering, the registry and   *)
(* its backup are never both unreadable (_save_registry,                   *)
(* _backup_registry, _load_registry).                                      *)
OneGoodCopy == ~(file.status = "corrupt" /\ backup.status = "corrupt")

(* A crash that meets a readable registry costs at most the change being   *)
(* saved: the next load finds the registry of before or of after it.       *)
ChangeBeingSaved(reg) ==
    \/ \E r \in Reqs : pc[r] = "dereg_save" /\ reg = copy[r]
    \/ \E n \in Names, p \in Ports :
          /\ Loaded[n] = NoPort
          /\ reg = [Loaded EXCEPT ![n] = p]

CrashLosesOneChange ==
    [][crashes' # crashes /\ file.status = "ok"
         => Loaded' = Loaded \/ ChangeBeingSaved(Loaded')]_vars

(* A service that no deregistration is working on has a unit file with the *)
(* port it has reserved, and no other service has a unit file.             *)
UnitsMatchRegistry ==
    \A n \in Names :
        (\A r \in Reqs : Deregistering(r) => name[r] # n)
            => units[n] = Loaded[n]

(* A running service is registered and listens on its reserved port.       *)
RunningIsRegistered ==
    \A n \in Names : active[n] # NoPort => active[n] = Loaded[n]

(* A tunnel route leads to the port of a registered service that was       *)
(* registered with the route's hostname, never to a port that was freed    *)
(* and may serve another service, unless Cloudflare failed in a cleanup.   *)
RoutesLeadHome ==
    \A h \in Hosts \ abandoned : ingress[h] # NoPort =>
        \E n \in Names : HostOf[n] = h /\ Loaded[n] = ingress[h]

(* ports.env gives every service the port the registry reserves for it.    *)
PortsEnvCurrent == portsEnv = Loaded

(* One request at a time around a deregistration, and no crash: the        *)
(* registry, as the next load finds it, is a port allocator.               *)
Allocator == INSTANCE PortAllocator WITH alloc <- Loaded

ImplementsAllocator == Allocator!Spec

(* No two unit files pass the same port to their services.                 *)
UnitPortsDistinct == NoSharedPort(units)

(* A service whose caller was told cf_route_added = true has its route.    *)
ReportedRouteExists ==
    \A n \in reported :
        (\A r \in Reqs : Deregistering(r) => name[r] # n)
            => ingress[HostOf[n]] = Loaded[n]
=============================================================================
