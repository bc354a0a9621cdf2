------------------------ MODULE ServiceRegistryProofs ------------------------
(* Theorems about ServiceRegistry, for every set of names, ports, hosts and *)
(* requests: first under any number of crashes and whatever overlaps, then  *)
(* without crashes and with deregistrations that overlap nothing.           *)
EXTENDS ServiceRegistry, TLAPS

(* Only a request for a service with a hostname talks to Cloudflare.        *)
CloudSteps == {"reg_get", "reg_put", "reg_dns", "reg_app",
               "dereg_get", "dereg_put", "dereg_dns", "dereg_app"}

HostKnown ==
    \A r \in Reqs : pc[r] \in CloudSteps => HostOf[name[r]] \in Hosts

TypeInv == TypeOK /\ HostKnown

(* The registry of a load, and the file it leaves, are of their types.      *)
LEMMA LoadTypes ==
    ASSUME TypeOK
    PROVE  /\ Loaded \in Registry
           /\ FileAfterLoad \in File
           /\ EnvAfterLoad \in Registry
    BY ConstantsAssumption
       DEF TypeOK, Loaded, FileAfterLoad, EnvAfterLoad, Recovers, File, Ok,
           Missing, Registry, NoServices, NoPort

(* There is a service name, so a request at home has one.                   *)
LEMMA AnyNameType == AnyName \in Names
    BY ConstantsAssumption DEF AnyName

(* A service is registered with a hostname or with none.                    *)
LEMMA HostOrNone ==
    \A n \in Names : HostOf[n] # NoHost => HostOf[n] \in Hosts
    BY ConstantsAssumption

(* A complete _save_registry leaves files of their types.                   *)
LEMMA SaveTypes ==
    ASSUME TypeOK, NEW f \in File, NEW reg \in Registry, Save(f, reg)
    PROVE  file' \in File /\ backup' \in File /\ portsEnv' \in Registry
    BY DEF TypeOK, Save, BackupOf, File, Ok

(* So does a _save_registry that the process dies in.                       *)
LEMMA TornSaveTypes ==
    ASSUME TypeOK, NEW f \in File, NEW env \in Registry, NEW reg \in Registry,
           TornSave(f, env, reg)
    PROVE  file' \in File /\ backup' \in File /\ portsEnv' \in Registry
    BY DEF TypeOK, TornSave, BackupOf, File, Ok, Corrupt, Registry,
           NoServices, NoPort

(* A request that returns has local variables of their types.               *)
LEMMA ReturnTypes ==
    ASSUME TypeOK, NEW r \in Reqs, Return(r)
    PROVE  /\ pc' \in [Reqs -> Steps]
           /\ name' \in [Reqs -> Names]
           /\ copy' \in [Reqs -> Registry]
           /\ seen' \in [Reqs -> Routes]
    BY AnyNameType
       DEF TypeOK, Return, Goto, Steps, Registry, NoServices, Routes,
           NoRoutes, NoPort

(* So have all requests when the process dies.                              *)
LEMMA DieTypes ==
    ASSUME TypeOK, Die
    PROVE  /\ pc' \in [Reqs -> Steps]
           /\ name' \in [Reqs -> Names]
           /\ copy' \in [Reqs -> Registry]
           /\ seen' \in [Reqs -> Routes]
           /\ crashes' \in Nat
    BY AnyNameType
       DEF TypeOK, Die, Steps, Registry, NoServices, Routes, NoRoutes, NoPort

(* The registry with one more service is a registry.                        *)
LEMMA ReservedType ==
    ASSUME TypeOK, NEW n \in Names, NEW p \in Ports
    PROVE  [Loaded EXCEPT ![n] = p] \in Registry
    BY LoadTypes DEF Registry

-----------------------------------------------------------------------------
(* A step that moves one request, or one that moves it home, keeps HostKnown. *)
LEMMA HostKnownReturn ==
    ASSUME TypeInv, NEW r \in Reqs, Return(r)
    PROVE  HostKnown'
    BY DEF TypeInv, TypeOK, HostKnown, Return, Goto, CloudSteps

(* A request reaches the Cloudflare steps only with a hostname.             *)
LEMMA HostKnownGoto ==
    ASSUME TypeInv, NEW r \in Reqs, NEW step \in Steps, Goto(r, step),
           UNCHANGED name,
           step \in CloudSteps => HostOf[name[r]] \in Hosts
    PROVE  HostKnown' /\ pc' \in [Reqs -> Steps]
    BY DEF TypeInv, TypeOK, HostKnown, Goto

(* After a crash no request is at a Cloudflare step.                        *)
LEMMA HostKnownDie ==
    ASSUME Die
    PROVE  HostKnown'
    BY DEF Die, HostKnown, CloudSteps

(* A request that begins takes its service with it.                         *)
LEMMA HostKnownBegin ==
    ASSUME TypeInv, NEW r \in Reqs, NEW n \in Names, NEW step \in Steps,
           Goto(r, step), name' = [name EXCEPT ![r] = n],
           step \in CloudSteps => HostOf[n] \in Hosts
    PROVE  /\ HostKnown'
           /\ pc' \in [Reqs -> Steps]
           /\ name' \in [Reqs -> Names]
    BY DEF TypeInv, TypeOK, HostKnown, Goto

-----------------------------------------------------------------------------
(* A fresh node, without any file, is well formed.                          *)
LEMMA TypeInit == Init => TypeInv
    BY AnyNameType
       DEF Init, TypeInv, TypeOK, HostKnown, CloudSteps, File, Missing,
           Registry, NoServices, Routes, NoRoutes, Steps, NoPort

(* Every action keeps the types, one step per action.                      *)
LEMMA TypeNext == TypeInv /\ [Next]_vars => TypeInv'
<1> SUFFICES ASSUME TypeInv, [Next]_vars PROVE TypeInv'
    OBVIOUS
<1> USE DEF TypeInv
<1>1. CASE ReadRegistry
    BY <1>1, LoadTypes
       DEF ReadRegistry, Load, cloud, told, local, TypeOK, HostKnown
<1>2. ASSUME NEW r \in Reqs, NEW n \in Names, NEW p \in Ports, Reserve(r, n, p)
      PROVE  TypeInv'
  <2>1. file' \in File /\ backup' \in File /\ portsEnv' \in Registry
      BY <1>2, LoadTypes, ReservedType, SaveTypes DEF Reserve
  <2>2. units' \in Registry
      BY <1>2 DEF Reserve, Registry, TypeOK
  <2>3. CASE HostOf[n] = NoHost
      BY <1>2, <2>1, <2>2, <2>3
         DEF Reserve, cloud, told, local, TypeOK, HostKnown
  <2>4. CASE HostOf[n] # NoHost
    <3>1. copy' \in [Reqs -> Registry]
        BY <1>2, <2>4, ReservedType DEF Reserve, TypeOK
    <3>2. HostKnown' /\ pc' \in [Reqs -> Steps] /\ name' \in [Reqs -> Names]
        BY <1>2, <2>4, HostOrNone, HostKnownBegin DEF Reserve, Steps
    <3>3. QED
        BY <1>2, <2>1, <2>2, <2>4, <3>1, <3>2 DEF Reserve, cloud, told, TypeOK
  <2>5. QED
      BY <2>3, <2>4
<1>3. ASSUME NEW r \in Reqs, ReadRoutesToAdd(r) PROVE TypeInv'
  <2>1. CASE ingress[HostOf[name[r]]] # NoPort
      BY <1>3, <2>1, ReturnTypes, HostKnownReturn
         DEF ReadRoutesToAdd, disk, cloud, told, TypeOK
  <2>2. CASE ingress[HostOf[name[r]]] = NoPort
    <3>1. HostKnown' /\ pc' \in [Reqs -> Steps]
        BY <1>3, <2>2, HostKnownGoto
           DEF ReadRoutesToAdd, HostKnown, CloudSteps, Steps
    <3>2. QED
        BY <1>3, <2>2, <3>1 DEF ReadRoutesToAdd, disk, cloud, told, TypeOK
  <2>3. QED
      BY <2>1, <2>2
<1>4. ASSUME NEW r \in Reqs, PutRouteAdded(r) PROVE TypeInv'
  <2>1. RoutesWith(r) \in Routes
      BY ZenonT(120) DEF RoutesWith, Routes, Registry, TypeOK
  <2>2. HostKnown' /\ pc' \in [Reqs -> Steps]
      BY <1>4, HostKnownGoto
         DEF PutRouteAdded, HostKnown, CloudSteps, Steps, local
  <2>3. QED
      BY <1>4, <2>1, <2>2 DEF PutRouteAdded, disk, told, local, TypeOK
<1>5. ASSUME NEW r \in Reqs, CreateDnsRecord(r) PROVE TypeInv'
  <2>1. HostOf[name[r]] \in Hosts
      BY <1>5 DEF CreateDnsRecord, HostKnown, CloudSteps
  <2>2. CASE HostOf[name[r]] \in dns
      BY <1>5, <2>2, ReturnTypes, HostKnownReturn
         DEF CreateDnsRecord, disk, told, TypeOK
  <2>3. CASE HostOf[name[r]] \notin dns
    <3>1. HostKnown' /\ pc' \in [Reqs -> Steps]
        BY <1>5, <2>1, <2>3, HostKnownGoto DEF CreateDnsRecord, Steps, local
    <3>2. QED
        BY <1>5, <2>1, <2>3, <3>1 DEF CreateDnsRecord, disk, told, local, TypeOK
  <2>4. QED
      BY <2>2, <2>3
<1>6. ASSUME NEW r \in Reqs, CreateAccessApp(r) PROVE TypeInv'
  <2>1. HostOf[name[r]] \in Hosts /\ name[r] \in Names
      BY <1>6 DEF CreateAccessApp, HostKnown, CloudSteps, TypeOK
  <2>2. QED
      BY <1>6, <2>1, ReturnTypes, HostKnownReturn
         DEF CreateAccessApp, disk, TypeOK
<1>7. ASSUME NEW r \in Reqs, ExposureFails(r) PROVE TypeInv'
  <2>1. ingress' \in Routes
      BY <1>7, SMTT(60) DEF ExposureFails, RoutesWith, Routes, Registry, TypeOK
  <2>2. QED
      BY <1>7, <2>1, ReturnTypes, HostKnownReturn
         DEF ExposureFails, disk, told, TypeOK
<1>8. ASSUME NEW r \in Reqs, NEW n \in Names, BeginDeregister(r, n)
      PROVE  TypeInv'
  <2>1. copy' \in [Reqs -> Registry]
      BY <1>8, LoadTypes DEF BeginDeregister, TypeOK
  <2>2. HostKnown' /\ pc' \in [Reqs -> Steps] /\ name' \in [Reqs -> Names]
      BY <1>8, HostKnownBegin DEF BeginDeregister, Steps, CloudSteps
  <2>3. QED
      BY <1>8, <2>1, <2>2, LoadTypes
         DEF BeginDeregister, Load, cloud, told, TypeOK
<1>9. ASSUME NEW r \in Reqs, Disable(r) PROVE TypeInv'
  <2>1. active' \in Registry
      BY <1>9 DEF Disable, Stopped, Registry, NoPort, TypeOK
  <2>2. HostKnown' /\ pc' \in [Reqs -> Steps]
      BY <1>9, HostKnownGoto DEF Disable, Steps, CloudSteps, local
  <2>3. QED
      BY <1>9, <2>1, <2>2 DEF Disable, disk, cloud, told, local, TypeOK
<1>10. ASSUME NEW r \in Reqs, Unlink(r) PROVE TypeInv'
  <2>1. units' \in Registry
      BY <1>10 DEF Unlink, UnitsWithout, Registry, NoPort, TypeOK
  <2>2. copy' \in [Reqs -> Registry]
      BY <1>10 DEF Unlink, Registry, NoPort, TypeOK
  <2>3. CASE HostOf[name[r]] = NoHost
      BY <1>10, <2>1, <2>2, <2>3, HostKnownGoto
         DEF Unlink, Steps, CloudSteps, disk, cloud, told, TypeOK
  <2>4. CASE HostOf[name[r]] # NoHost
    <3>1. HostOf[name[r]] \in Hosts
        BY <2>4, HostOrNone DEF TypeOK
    <3>2. HostKnown' /\ pc' \in [Reqs -> Steps]
        BY <1>10, <2>4, <3>1, HostKnownGoto DEF Unlink, Steps
    <3>3. QED
        BY <1>10, <2>1, <2>2, <3>2 DEF Unlink, disk, cloud, told, TypeOK
  <2>5. QED
      BY <2>3, <2>4
<1>11. ASSUME NEW r \in Reqs, ReadRoutesToRemove(r) PROVE TypeInv'
  <2>1. HostOf[name[r]] \in Hosts
      BY <1>11 DEF ReadRoutesToRemove, HostKnown, CloudSteps
  <2>2. HostKnown' /\ pc' \in [Reqs -> Steps]
      BY <1>11, <2>1, HostKnownGoto DEF ReadRoutesToRemove, Steps
  <2>3. QED
      BY <1>11, <2>2 DEF ReadRoutesToRemove, disk, cloud, told, TypeOK
<1>12. ASSUME NEW r \in Reqs, PutRouteRemoved(r) PROVE TypeInv'
  <2>1. RoutesWithout(r) \in Routes
      BY DEF RoutesWithout, Routes, NoPort, TypeOK
  <2>2. HostKnown' /\ pc' \in [Reqs -> Steps]
      BY <1>12, HostKnownGoto
         DEF PutRouteRemoved, HostKnown, CloudSteps, Steps, local
  <2>3. QED
      BY <1>12, <2>1, <2>2 DEF PutRouteRemoved, disk, told, local, TypeOK
<1>13. ASSUME NEW r \in Reqs, DeleteDnsRecord(r) PROVE TypeInv'
  <2>1. HostKnown' /\ pc' \in [Reqs -> Steps]
      BY <1>13, HostKnownGoto
         DEF DeleteDnsRecord, HostKnown, CloudSteps, Steps, local
  <2>2. QED
      BY <1>13, <2>1 DEF DeleteDnsRecord, disk, told, local, TypeOK
<1>14. ASSUME NEW r \in Reqs, DeleteAccessApp(r) PROVE TypeInv'
  <2>1. HostKnown' /\ pc' \in [Reqs -> Steps]
      BY <1>14, HostKnownGoto
         DEF DeleteAccessApp, CloudSteps, Steps, local
  <2>2. QED
      BY <1>14, <2>1 DEF DeleteAccessApp, disk, told, local, TypeOK
<1>15. ASSUME NEW r \in Reqs, CleanupFails(r) PROVE TypeInv'
  <2>1. ingress' \in Routes
      BY <1>15 DEF CleanupFails, RoutesWithout, Routes, NoPort, TypeOK
  <2>2. HostOf[name[r]] \in Hosts
      BY <1>15 DEF CleanupFails, HostKnown, CloudSteps
  <2>3. HostKnown' /\ pc' \in [Reqs -> Steps]
      BY <1>15, HostKnownGoto DEF CleanupFails, CloudSteps, Steps, local
  <2>4. QED
      BY <1>15, <2>1, <2>2, <2>3 DEF CleanupFails, disk, local, TypeOK
<1>16. ASSUME NEW r \in Reqs, SaveDeregistered(r) PROVE TypeInv'
  <2>1. file' \in File /\ backup' \in File /\ portsEnv' \in Registry
      BY <1>16, SaveTypes DEF SaveDeregistered, TypeOK
  <2>2. QED
      BY <1>16, <2>1, ReturnTypes, HostKnownReturn
         DEF SaveDeregistered, cloud, TypeOK
<1>17. ASSUME NEW r \in Reqs, NEW n \in Names,
              NEW verb \in {"start", "stop", "restart"}, BeginControl(r, n, verb)
      PROVE  TypeInv'
  <2>1. HostKnown' /\ pc' \in [Reqs -> Steps] /\ name' \in [Reqs -> Names]
      BY <1>17, HostKnownBegin DEF BeginControl, Steps, CloudSteps
  <2>2. QED
      BY <1>17, <2>1, LoadTypes DEF BeginControl, Load, cloud, told, TypeOK
<1>18. ASSUME NEW r \in Reqs, Control(r) PROVE TypeInv'
  <2>1. active' \in Registry
      BY <1>18 DEF Control, Registry, NoPort, TypeOK
  <2>2. QED
      BY <1>18, <2>1, ReturnTypes, HostKnownReturn
         DEF Control, disk, cloud, told, TypeOK
<1>19. CASE Crash
    BY <1>19, DieTypes, HostKnownDie DEF Crash, disk, cloud, told, TypeOK
<1>20. ASSUME NEW r \in Reqs, NEW n \in Names, NEW p \in Ports,
              CrashInReserve(r, n, p)
      PROVE  TypeInv'
  <2>1. file' \in File /\ backup' \in File /\ portsEnv' \in Registry
      BY <1>20, LoadTypes, ReservedType, SaveTypes, TornSaveTypes
         DEF CrashInReserve
  <2>2. QED
      BY <1>20, <2>1, DieTypes, HostKnownDie
         DEF CrashInReserve, cloud, told, TypeOK
<1>21. ASSUME NEW r \in Reqs, CrashInSaveDeregistered(r) PROVE TypeInv'
  <2>1. file' \in File /\ backup' \in File /\ portsEnv' \in Registry
      BY <1>21, TornSaveTypes DEF CrashInSaveDeregistered, TypeOK
  <2>2. QED
      BY <1>21, <2>1, DieTypes, HostKnownDie
         DEF CrashInSaveDeregistered, cloud, told, TypeOK
<1>22. CASE CrashInRecovery
  <2>1. Missing \in File /\ backup.reg \in Registry
      BY DEF Missing, File, Registry, NoServices, NoPort, TypeOK
  <2>2. file' \in File /\ backup' \in File /\ portsEnv' \in Registry
      BY <1>22, <2>1, TornSaveTypes DEF CrashInRecovery, TypeOK
  <2>3. QED
      BY <1>22, <2>2, DieTypes, HostKnownDie
         DEF CrashInRecovery, cloud, told, TypeOK
<1>23. CASE UNCHANGED vars
    BY <1>23 DEF vars, disk, cloud, told, local, TypeOK, HostKnown
<1>24. QED
    BY <1>1, <1>2, <1>3, <1>4, <1>5, <1>6, <1>7, <1>8, <1>9, <1>10, <1>11,
       <1>12, <1>13, <1>14, <1>15, <1>16, <1>17, <1>18, <1>19, <1>20, <1>21,
       <1>22, <1>23
       DEF Next

(* Every state the service manager reaches is well formed.                 *)
THEOREM TypeCorrect == Spec => []TypeOK
<1>1. TypeInv => TypeOK
    BY DEF TypeInv
<1>2. QED
    BY <1>1, TypeInit, TypeNext, PTL DEF Spec
-----------------------------------------------------------------------------
(* What a step can do to the registry file, its backup and the copies.      *)

Reserving(n, p) == Loaded[n] = NoPort /\ IsNextPort(p, Loaded)

Reserved(n, p) == [Loaded EXCEPT ![n] = p]

FilesStep ==
    \/ UNCHANGED <<file, backup>>
    \/ Load
    \/ \E n \in Names, p \in Ports :
          /\ Reserving(n, p)
          /\ \/ Save(FileAfterLoad, Reserved(n, p))
             \/ TornSave(FileAfterLoad, EnvAfterLoad, Reserved(n, p))
    \/ \E r \in Reqs :
          /\ pc[r] = "dereg_save"
          /\ \/ Save(file, copy[r])
             \/ TornSave(file, portsEnv, copy[r])
    \/ /\ Recovers
       /\ \/ file' = Missing /\ UNCHANGED backup
          \/ TornSave(Missing, portsEnv, backup.reg)

(* No handler touches the two files but by loading, saving or dying in it.  *)
LEMMA FilesChange == [Next]_vars => FilesStep
<1> SUFFICES ASSUME [Next]_vars PROVE FilesStep
    OBVIOUS
<1> USE DEF FilesStep
<1>1. CASE ReadRegistry
    BY <1>1 DEF ReadRegistry
<1>2. ASSUME NEW r \in Reqs, NEW n \in Names, NEW p \in Ports, Reserve(r, n, p)
      PROVE  FilesStep
    BY <1>2 DEF Reserve, Reserving, Reserved
<1>3. ASSUME NEW r \in Reqs,
             \/ ReadRoutesToAdd(r) \/ PutRouteAdded(r) \/ CreateDnsRecord(r)
             \/ CreateAccessApp(r) \/ ExposureFails(r) \/ Disable(r)
             \/ Unlink(r) \/ ReadRoutesToRemove(r) \/ PutRouteRemoved(r)
             \/ DeleteDnsRecord(r) \/ DeleteAccessApp(r) \/ CleanupFails(r)
             \/ Control(r)
      PROVE  FilesStep
  <2>1. UNCHANGED disk
      BY <1>3
         DEF ReadRoutesToAdd, PutRouteAdded, CreateDnsRecord, CreateAccessApp,
             ExposureFails, Disable, Unlink, ReadRoutesToRemove,
             PutRouteRemoved, DeleteDnsRecord, DeleteAccessApp, CleanupFails,
             Control
  <2>2. QED
      BY <2>1 DEF disk
<1>4. ASSUME NEW r \in Reqs, NEW n \in Names,
             \/ BeginDeregister(r, n)
             \/ \E verb \in {"start", "stop", "restart"} : BeginControl(r, n, verb)
      PROVE  FilesStep
    BY <1>4 DEF BeginDeregister, BeginControl
<1>5. ASSUME NEW r \in Reqs, SaveDeregistered(r) PROVE FilesStep
    BY <1>5 DEF SaveDeregistered
<1>6. CASE Crash \/ UNCHANGED vars
    BY <1>6 DEF Crash, vars, disk
<1>7. ASSUME NEW r \in Reqs, NEW n \in Names, NEW p \in Ports,
             CrashInReserve(r, n, p)
      PROVE  FilesStep
    BY <1>7 DEF CrashInReserve, Reserving, Reserved
<1>8. ASSUME NEW r \in Reqs, CrashInSaveDeregistered(r) PROVE FilesStep
    BY <1>8 DEF CrashInSaveDeregistered
<1>9. CASE CrashInRecovery
    BY <1>9 DEF CrashInRecovery
<1>10. QED
    BY <1>1, <1>2, <1>3, <1>4, <1>5, <1>6, <1>7, <1>8, <1>9 DEF Next

-----------------------------------------------------------------------------
(* One good copy.  A request in flight has loaded the registry since the    *)
(* last crash, so it never backs up a damaged file; and a damaged backup is *)
(* only ever left by a save that found a good file.                         *)
FilesInv ==
    /\ backup.status = "corrupt" => file.status = "ok"
    /\ \A r \in Reqs : pc[r] # "idle" => file.status # "corrupt"

(* Without files there is nothing to recover.                               *)
LEMMA FilesInvInit == Init => FilesInv
    BY DEF Init, FilesInv, Missing

(* A step that leaves a request in flight leaves a readable file.           *)
LEMMA InFlightReadable ==
    ASSUME TypeInv, FilesInv, [Next]_vars
    PROVE  \A r \in Reqs : pc'[r] # "idle" => file'.status # "corrupt"
<1>1. CASE UNCHANGED <<pc, file>>
    BY <1>1 DEF FilesInv
<1>2. CASE Die
    BY <1>2 DEF Die
<1>3. CASE file'.status # "corrupt"
    BY <1>3
<1>4. ASSUME UNCHANGED file,
             NEW r \in Reqs, pc[r] # "idle"
      PROVE  file'.status # "corrupt"
    BY <1>4 DEF FilesInv
<1>5. ASSUME Load \/ \E reg \in Registry, f \in File : Save(f, reg)
      PROVE  file'.status # "corrupt"
    BY <1>5 DEF Load, Save, FileAfterLoad, Ok, Missing
<1>6. CASE ReadRegistry
    BY <1>5, <1>6 DEF ReadRegistry
<1>7. ASSUME NEW r \in Reqs, NEW n \in Names, NEW p \in Ports, Reserve(r, n, p)
      PROVE  file'.status # "corrupt"
    BY <1>7, <1>5, LoadTypes, ReservedType DEF Reserve, TypeInv
<1>8. ASSUME NEW r \in Reqs,
             \/ ReadRoutesToAdd(r) \/ PutRouteAdded(r) \/ CreateDnsRecord(r)
             \/ CreateAccessApp(r) \/ ExposureFails(r) \/ Disable(r)
             \/ Unlink(r) \/ ReadRoutesToRemove(r) \/ PutRouteRemoved(r)
             \/ DeleteDnsRecord(r) \/ DeleteAccessApp(r) \/ CleanupFails(r)
             \/ Control(r)
      PROVE  file'.status # "corrupt"
  <2>1. pc[r] # "idle" /\ UNCHANGED disk
      BY <1>8
         DEF ReadRoutesToAdd, PutRouteAdded, CreateDnsRecord, CreateAccessApp,
             ExposureFails, Disable, Unlink, ReadRoutesToRemove,
             PutRouteRemoved, DeleteDnsRecord, DeleteAccessApp, CleanupFails,
             Control
  <2>2. QED
      BY <2>1, <1>4 DEF disk
<1>9. ASSUME NEW r \in Reqs, NEW n \in Names,
             \/ BeginDeregister(r, n)
             \/ \E verb \in {"start", "stop", "restart"} : BeginControl(r, n, verb)
      PROVE  file'.status # "corrupt"
    BY <1>9, <1>5 DEF BeginDeregister, BeginControl
<1>10. ASSUME NEW r \in Reqs, SaveDeregistered(r)
       PROVE  file'.status # "corrupt"
    BY <1>10, <1>5 DEF SaveDeregistered, TypeInv, TypeOK
<1>11. CASE UNCHANGED vars
    BY <1>11, <1>1 DEF vars, disk
<1>12. QED
    BY <1>2, <1>3, <1>6, <1>7, <1>8, <1>9, <1>10, <1>11
       DEF Next, Crash, CrashInReserve, CrashInSaveDeregistered, CrashInRecovery

(* Saving, recovering and dying keep one of the two files readable.         *)
LEMMA FilesInvNext == TypeInv /\ FilesInv /\ [Next]_vars => FilesInv'
<1> SUFFICES ASSUME TypeInv, FilesInv, [Next]_vars
             PROVE  backup'.status = "corrupt" => file'.status = "ok"
    BY InFlightReadable DEF FilesInv
<1>1. CASE UNCHANGED <<file, backup>>
    BY <1>1 DEF FilesInv
<1>2. CASE Load
    BY <1>2 DEF Load, FilesInv, FileAfterLoad
<1>3. ASSUME NEW f \in File, NEW env, NEW reg,
             Save(f, reg) \/ TornSave(f, env, reg),
             f.status # "corrupt",
             f.status = "missing" => backup.status # "corrupt"
      PROVE  backup'.status = "corrupt" => file'.status = "ok"
    BY <1>3 DEF Save, TornSave, BackupOf, Ok, Corrupt, File
<1>4. ASSUME NEW n \in Names, NEW p \in Ports,
             \/ Save(FileAfterLoad, Reserved(n, p))
             \/ TornSave(FileAfterLoad, EnvAfterLoad, Reserved(n, p))
      PROVE  backup'.status = "corrupt" => file'.status = "ok"
  <2>1. FileAfterLoad.status # "corrupt"
      BY DEF FileAfterLoad, Ok, Missing
  <2>2. FileAfterLoad.status = "missing" => backup.status # "corrupt"
      BY DEF FileAfterLoad, Ok, Missing, FilesInv
  <2>3. QED
      BY <1>3, <1>4, <2>1, <2>2, LoadTypes DEF TypeInv
<1>5. ASSUME NEW r \in Reqs, pc[r] = "dereg_save",
             Save(file, copy[r]) \/ TornSave(file, portsEnv, copy[r])
      PROVE  backup'.status = "corrupt" => file'.status = "ok"
    BY <1>3, <1>5 DEF FilesInv, TypeInv, TypeOK
<1>6. CASE Recovers /\ \/ file' = Missing /\ UNCHANGED backup
                       \/ TornSave(Missing, portsEnv, backup.reg)
    BY <1>6 DEF Recovers, TornSave, BackupOf, Missing
<1>7. QED
    BY <1>1, <1>2, <1>4, <1>5, <1>6, FilesChange DEF FilesStep

(* Whenever and wherever the process dies, the registry or its backup can   *)
(* be read.                                                                 *)
THEOREM OneGoodCopyHolds == Spec => []OneGoodCopy
<1>1. FilesInv => OneGoodCopy
    BY DEF FilesInv, OneGoodCopy
<1>2. QED
    BY <1>1, TypeInit, TypeNext, FilesInvInit, FilesInvNext, PTL DEF Spec
-----------------------------------------------------------------------------
(* Unique ports.  Reserving the next free port, or giving one up, keeps a   *)
(* registry free of shared ports, so every copy of it stays so.             *)

(* register_service: the next free port is no other service's port.         *)
LEMMA ReserveKeepsPortsApart ==
    ASSUME NEW reg \in Registry, NoSharedPort(reg), NEW n \in Names,
           NEW p \in Ports, IsNextPort(p, reg)
    PROVE  NoSharedPort([reg EXCEPT ![n] = p])
    BY ConstantsAssumption
       DEF NoSharedPort, Registry, IsNextPort, UsedPorts, NoPort

(* deregister_service: giving a port up shares none.                        *)
LEMMA ReleaseKeepsPortsApart ==
    ASSUME NEW reg \in Registry, NoSharedPort(reg), NEW n \in Names
    PROVE  NoSharedPort([reg EXCEPT ![n] = NoPort])
    BY DEF NoSharedPort, Registry, NoPort

(* An empty registry shares no port.                                        *)
LEMMA EmptyHasNoSharedPort == NoSharedPort(NoServices)
    BY DEF NoSharedPort, NoServices, NoPort

(* Neither does what _load_registry returns or leaves on disk.              *)
LEMMA LoadedHasNoSharedPort ==
    ASSUME PortsReservedOnce
    PROVE  /\ NoSharedPort(Loaded)
           /\ NoSharedPort(FileAfterLoad.reg)
    BY EmptyHasNoSharedPort
       DEF PortsReservedOnce, Loaded, FileAfterLoad, Ok, Missing

(* A fresh node has reserved nothing.                                       *)
LEMMA PortsInit == Init => PortsReservedOnce
    BY EmptyHasNoSharedPort DEF Init, PortsReservedOnce, Missing

(* Every step leaves both files free of shared ports.                       *)
LEMMA PortsInFiles ==
    ASSUME TypeInv, PortsReservedOnce, [Next]_vars
    PROVE  NoSharedPort(file'.reg) /\ NoSharedPort(backup'.reg)
<1>1. CASE UNCHANGED <<file, backup>>
    BY <1>1 DEF PortsReservedOnce
<1>2. CASE Load
    BY <1>2, LoadedHasNoSharedPort DEF Load, PortsReservedOnce
<1>3. ASSUME NEW f, NEW env, NEW reg,
             Save(f, reg) \/ TornSave(f, env, reg),
             NoSharedPort(f.reg), NoSharedPort(reg)
      PROVE  NoSharedPort(file'.reg) /\ NoSharedPort(backup'.reg)
  <2>1. file'.reg \in {f.reg, reg, NoServices}
      BY <1>3 DEF Save, TornSave, Ok, Corrupt
  <2>2. backup'.reg \in {f.reg, backup.reg, NoServices}
      BY <1>3 DEF Save, TornSave, BackupOf, Corrupt
  <2>3. QED
      BY <1>3, <2>1, <2>2, EmptyHasNoSharedPort DEF PortsReservedOnce
<1>4. ASSUME NEW n \in Names, NEW p \in Ports, Reserving(n, p),
             \/ Save(FileAfterLoad, Reserved(n, p))
             \/ TornSave(FileAfterLoad, EnvAfterLoad, Reserved(n, p))
      PROVE  NoSharedPort(file'.reg) /\ NoSharedPort(backup'.reg)
  <2>1. NoSharedPort(Reserved(n, p))
      BY <1>4, LoadTypes, LoadedHasNoSharedPort, ReserveKeepsPortsApart
         DEF Reserving, Reserved, TypeInv
  <2>2. QED
      BY <1>3, <1>4, <2>1, LoadedHasNoSharedPort
<1>5. ASSUME NEW r \in Reqs,
             Save(file, copy[r]) \/ TornSave(file, portsEnv, copy[r])
      PROVE  NoSharedPort(file'.reg) /\ NoSharedPort(backup'.reg)
    BY <1>3, <1>5 DEF PortsReservedOnce
<1>6. CASE \/ file' = Missing /\ UNCHANGED backup
           \/ TornSave(Missing, portsEnv, backup.reg)
    BY <1>3, <1>6, EmptyHasNoSharedPort DEF PortsReservedOnce, Missing
<1>7. QED
    BY <1>1, <1>2, <1>4, <1>5, <1>6, FilesChange DEF FilesStep

(* A request's copy is what it loaded, with the change it makes.            *)
LEMMA CopiesChange ==
    ASSUME TypeInv, [Next]_vars, NEW r \in Reqs
    PROVE  \/ copy'[r] \in {copy[r], NoServices, Loaded}
           \/ \E n \in Names, p \in Ports :
                 Reserving(n, p) /\ copy'[r] = Reserved(n, p)
           \/ \E n \in Names : copy'[r] = [copy[r] EXCEPT ![n] = NoPort]
<1> DEFINE Goal ==
        \/ copy'[r] \in {copy[r], NoServices, Loaded}
        \/ \E n \in Names, p \in Ports :
              Reserving(n, p) /\ copy'[r] = Reserved(n, p)
        \/ \E n \in Names : copy'[r] = [copy[r] EXCEPT ![n] = NoPort]
<1> USE DEF TypeInv, TypeOK
<1>1. CASE UNCHANGED copy
    BY <1>1
<1>2. CASE Die
    BY <1>2 DEF Die
<1>3. ASSUME NEW s \in Reqs, Return(s) PROVE Goal
    BY <1>3 DEF Return
<1>4. ASSUME NEW s \in Reqs, NEW n \in Names, NEW p \in Ports, Reserve(s, n, p)
      PROVE  Goal
  <2>1. CASE HostOf[n] = NoHost
      BY <1>4, <2>1, <1>1 DEF Reserve, local
  <2>2. CASE HostOf[n] # NoHost
      BY <1>4, <2>2 DEF Reserve, Reserving, Reserved
  <2>3. QED
      BY <2>1, <2>2
<1>5. ASSUME NEW s \in Reqs, NEW n \in Names, BeginDeregister(s, n) PROVE Goal
    BY <1>5 DEF BeginDeregister
<1>6. ASSUME NEW s \in Reqs, Unlink(s) PROVE Goal
    BY <1>6 DEF Unlink
<1>7. ASSUME NEW s \in Reqs, ReadRoutesToAdd(s) \/ CreateDnsRecord(s) PROVE Goal
    BY <1>7, <1>1, <1>3 DEF ReadRoutesToAdd, CreateDnsRecord, local
<1>8. ASSUME NEW s \in Reqs,
             \/ CreateAccessApp(s) \/ ExposureFails(s) \/ SaveDeregistered(s)
             \/ Control(s)
      PROVE  Goal
    BY <1>8, <1>3
       DEF CreateAccessApp, ExposureFails, SaveDeregistered, Control
<1>9. ASSUME NEW s \in Reqs,
             \/ PutRouteAdded(s) \/ Disable(s) \/ ReadRoutesToRemove(s)
             \/ PutRouteRemoved(s) \/ DeleteDnsRecord(s) \/ DeleteAccessApp(s)
             \/ CleanupFails(s)
             \/ \E n \in Names, verb \in {"start", "stop", "restart"} :
                   BeginControl(s, n, verb)
      PROVE  Goal
    BY <1>9, <1>1
       DEF PutRouteAdded, Disable, ReadRoutesToRemove, PutRouteRemoved,
           DeleteDnsRecord, DeleteAccessApp, CleanupFails, BeginControl, local
<1>10. CASE ReadRegistry \/ UNCHANGED vars
    BY <1>1, <1>10 DEF ReadRegistry, vars, local
<1>11. QED
    BY <1>2, <1>4, <1>5, <1>6, <1>7, <1>8, <1>9, <1>10
       DEF Next, Crash, CrashInReserve, CrashInSaveDeregistered, CrashInRecovery

(* Every step leaves the files and all copies free of shared ports.         *)
LEMMA PortsNext == TypeInv /\ PortsReservedOnce /\ [Next]_vars => PortsReservedOnce'
<1> SUFFICES ASSUME TypeInv, PortsReservedOnce, [Next]_vars, NEW r \in Reqs
             PROVE  NoSharedPort(copy'[r])
    BY PortsInFiles DEF PortsReservedOnce
<1>1. NoSharedPort(copy[r]) /\ copy[r] \in Registry
    BY DEF PortsReservedOnce, TypeInv, TypeOK
<1>2. CASE copy'[r] \in {copy[r], NoServices, Loaded}
    BY <1>1, <1>2, LoadedHasNoSharedPort, EmptyHasNoSharedPort
<1>3. ASSUME NEW n \in Names, NEW p \in Ports, Reserving(n, p),
             copy'[r] = Reserved(n, p)
      PROVE  NoSharedPort(copy'[r])
    BY <1>3, LoadTypes, LoadedHasNoSharedPort, ReserveKeepsPortsApart
       DEF Reserving, Reserved, TypeInv
<1>4. ASSUME NEW n \in Names, copy'[r] = [copy[r] EXCEPT ![n] = NoPort]
      PROVE  NoSharedPort(copy'[r])
    BY <1>1, <1>4, ReleaseKeepsPortsApart
<1>5. QED
    BY <1>2, <1>3, <1>4, CopiesChange

(* However requests and crashes interleave, no registry a node has, will    *)
(* recover or is about to save gives one port to two services.              *)
THEOREM PortsReservedOnceHolds == Spec => []PortsReservedOnce
    BY TypeInit, TypeNext, PortsInit, PortsNext, PTL DEF Spec

-----------------------------------------------------------------------------
(* A crash over a readable registry loses at most the change being saved.   *)
LEMMA CrashStepLosesOneChange ==
    ASSUME TypeInv, FilesInv, [Next]_vars,
           crashes' # crashes, file.status = "ok"
    PROVE  Loaded' = Loaded \/ ChangeBeingSaved(Loaded')
<1>1. file \in File /\ file.reg \in Registry /\ FileAfterLoad = file
    BY DEF TypeInv, TypeOK, File, FileAfterLoad
<1>2. Loaded = file.reg /\ ~Recovers
    BY DEF Loaded, Recovers
<1>3. ASSUME NEW env, NEW reg, Save(file, reg) \/ TornSave(file, env, reg)
      PROVE  Loaded' \in {Loaded, reg}
  <2>1. CASE file' = file
      BY <2>1, <1>2 DEF Loaded
  <2>2. CASE file' = Ok(reg)
      BY <2>2 DEF Loaded, Ok
  <2>3. CASE file' = Corrupt /\ backup' = file
      BY <2>3, <1>2 DEF Loaded, Recovers, Corrupt
  <2>4. QED
      BY <1>3, <2>1, <2>2, <2>3 DEF Save, TornSave, BackupOf
<1>4. CASE Crash
    BY <1>4, <1>2 DEF Crash, disk, Loaded
<1>5. ASSUME NEW r \in Reqs, NEW n \in Names, NEW p \in Ports,
             CrashInReserve(r, n, p)
      PROVE  Loaded' = Loaded \/ ChangeBeingSaved(Loaded')
  <2>1. Loaded' \in {Loaded, Reserved(n, p)}
      BY <1>1, <1>3, <1>5 DEF CrashInReserve, Reserved
  <2>2. ChangeBeingSaved(Reserved(n, p))
      BY <1>5 DEF CrashInReserve, ChangeBeingSaved, Reserved
  <2>3. QED
      BY <2>1, <2>2
<1>6. ASSUME NEW r \in Reqs, CrashInSaveDeregistered(r)
      PROVE  Loaded' = Loaded \/ ChangeBeingSaved(Loaded')
  <2>1. Loaded' \in {Loaded, copy[r]}
      BY <1>3, <1>6 DEF CrashInSaveDeregistered
  <2>2. ChangeBeingSaved(copy[r])
      BY <1>6 DEF CrashInSaveDeregistered, ChangeBeingSaved
  <2>3. QED
      BY <2>1, <2>2
<1>7. CASE UNCHANGED crashes
    BY <1>7
<1>8. QED
    BY <1>2, <1>4, <1>5, <1>6, <1>7
       DEF Next, vars, ReadRegistry, Reserve, ReadRoutesToAdd, PutRouteAdded,
           CreateDnsRecord, CreateAccessApp, ExposureFails, BeginDeregister,
           Disable, Unlink, ReadRoutesToRemove, PutRouteRemoved,
           DeleteDnsRecord, DeleteAccessApp, CleanupFails, SaveDeregistered,
           BeginControl, Control, CrashInRecovery

(* However saves and recoveries are interrupted, a crash that meets a       *)
(* readable registry loses at most the change being saved.                  *)
THEOREM CrashLosesOneChangeHolds == Spec => CrashLosesOneChange
<1>1. TypeInv /\ FilesInv /\ [Next]_vars
        => [crashes' # crashes /\ file.status = "ok"
              => Loaded' = Loaded \/ ChangeBeingSaved(Loaded')]_vars
    BY CrashStepLosesOneChange
<1>2. QED
    BY <1>1, TypeInit, TypeNext, FilesInvInit, FilesInvNext, PTL
       DEF Spec, CrashLosesOneChange

-----------------------------------------------------------------------------
(* One deregistration at a time and no crash.  The registry then has one    *)
(* history, and what is derived from it (ports.env, the unit files, the     *)
(* running services and the routes) follows it.                             *)

Orderly == SerialDeregister /\ MaxCrashes = 0

Unlinked == {"dereg_get", "dereg_put", "dereg_dns", "dereg_app", "dereg_save"}

(* The files can be read, and ports.env repeats them.                       *)
FilesAgree == file.status # "corrupt" /\ portsEnv = Loaded

(* A deregistration is the only request in flight.                          *)
DeregistersAlone ==
    \A r, s \in Reqs : Deregistering(r) /\ pc[s] # "idle" => s = r

(* The copy of a request is the registry, but for the service it removes.   *)
CopiesCurrent ==
    \A r \in Reqs :
        /\ pc[r] \in {"reg_get", "reg_put", "reg_dns", "reg_app"}
             => /\ copy[r][name[r]] = portsEnv[name[r]]
                /\ portsEnv[name[r]] # NoPort
        /\ Deregistering(r) => portsEnv[name[r]] # NoPort
        /\ pc[r] \in {"dereg_disable", "dereg_unlink"} => copy[r] = portsEnv
        /\ pc[r] \in Unlinked => copy[r] = [portsEnv EXCEPT ![name[r]] = NoPort]

RegistryInv == FilesAgree /\ DeregistersAlone /\ CopiesCurrent

(* Only an unlinked service is registered without a unit file.              *)
UnitsFollow ==
    \A n \in Names :
        units[n] = IF \E r \in Reqs : pc[r] \in Unlinked /\ name[r] = n
                   THEN NoPort ELSE portsEnv[n]

(* A service is stopped before its unit file goes.                          *)
ServicesFollow ==
    /\ \A n \in Names : active[n] # NoPort => active[n] = portsEnv[n]
    /\ \A r \in Reqs :
          pc[r] \in Unlinked \cup {"dereg_unlink"} => active[name[r]] = NoPort

(* Routes, those of Cloudflare and those a request is about to write back.  *)
LeadHome(routes) ==
    \A h \in Hosts \ abandoned : routes[h] # NoPort =>
        \E n \in Names : HostOf[n] = h /\ portsEnv[n] = routes[h]

RoutesFollow ==
    /\ LeadHome(ingress)
    /\ \A r \in Reqs : pc[r] \in {"reg_put", "dereg_put"} => LeadHome(seen[r])
    /\ \A r \in Reqs :
          /\ pc[r] \in {"dereg_dns", "dereg_app", "dereg_save"}
          /\ HostOf[name[r]] \in Hosts \ abandoned
          => ingress[HostOf[name[r]]] = NoPort

-----------------------------------------------------------------------------
(* Loading a readable registry changes nothing.                             *)
LEMMA ReadableLoad ==
    ASSUME TypeInv, FilesAgree
    PROVE  /\ FileAfterLoad = file /\ EnvAfterLoad = portsEnv
           /\ Load => UNCHANGED disk
           /\ ~Recovers
    BY DEF FilesAgree, FileAfterLoad, EnvAfterLoad, Recovers, Load, disk

(* What a load finds after a complete save is what was saved.               *)
LEMMA SavedIsLoaded ==
    ASSUME NEW f, NEW reg, Save(f, reg)
    PROVE  Loaded' = reg /\ portsEnv' = reg /\ file'.status = "ok"
    BY DEF Save, Loaded, Ok

(* Without crashes only two handlers change the registry.                   *)
LEMMA OrderlyRegistry ==
    ASSUME Orderly, TypeInv, RegistryInv, [Next]_vars
    PROVE  \/ UNCHANGED disk
           \/ \E r \in Reqs, n \in Names, p \in Ports :
                 /\ Reserve(r, n, p)
                 /\ portsEnv' = [portsEnv EXCEPT ![n] = p]
           \/ \E r \in Reqs :
                 /\ SaveDeregistered(r)
                 /\ portsEnv' = [portsEnv EXCEPT ![name[r]] = NoPort]
<1> DEFINE Goal == \/ UNCHANGED disk
                   \/ \E r \in Reqs, n \in Names, p \in Ports :
                         /\ Reserve(r, n, p)
                         /\ portsEnv' = [portsEnv EXCEPT ![n] = p]
                   \/ \E r \in Reqs :
                         /\ SaveDeregistered(r)
                         /\ portsEnv' = [portsEnv EXCEPT ![name[r]] = NoPort]
<1>1. ~Die
    BY DEF Die, Orderly, TypeInv, TypeOK
<1>2. ASSUME NEW r \in Reqs, NEW n \in Names, NEW p \in Ports, Reserve(r, n, p)
      PROVE  Goal
  <2>1. Save(FileAfterLoad, [Loaded EXCEPT ![n] = p])
      BY <1>2 DEF Reserve
  <2>2. portsEnv' = [portsEnv EXCEPT ![n] = p]
      BY <2>1, SavedIsLoaded DEF RegistryInv, FilesAgree
  <2>3. QED
      BY <1>2, <2>2
<1>3. ASSUME NEW r \in Reqs, SaveDeregistered(r) PROVE Goal
  <2>1. Save(file, copy[r]) /\ copy[r] = [portsEnv EXCEPT ![name[r]] = NoPort]
      BY <1>3 DEF SaveDeregistered, RegistryInv, CopiesCurrent, Unlinked
  <2>2. portsEnv' = [portsEnv EXCEPT ![name[r]] = NoPort]
      BY <2>1, SavedIsLoaded
  <2>3. QED
      BY <1>3, <2>2
<1>4. ASSUME NEW r \in Reqs,
             \/ ReadRoutesToAdd(r) \/ PutRouteAdded(r) \/ CreateDnsRecord(r)
             \/ CreateAccessApp(r) \/ ExposureFails(r) \/ Disable(r)
             \/ Unlink(r) \/ ReadRoutesToRemove(r) \/ PutRouteRemoved(r)
             \/ DeleteDnsRecord(r) \/ DeleteAccessApp(r) \/ CleanupFails(r)
             \/ Control(r)
      PROVE  Goal
    BY <1>4
       DEF ReadRoutesToAdd, PutRouteAdded, CreateDnsRecord, CreateAccessApp,
           ExposureFails, Disable, Unlink, ReadRoutesToRemove,
           PutRouteRemoved, DeleteDnsRecord, DeleteAccessApp, CleanupFails,
           Control
<1>5. ASSUME NEW r \in Reqs, NEW n \in Names,
             \/ BeginDeregister(r, n)
             \/ \E verb \in {"start", "stop", "restart"} : BeginControl(r, n, verb)
      PROVE  Goal
    BY <1>5, ReadableLoad DEF BeginDeregister, BeginControl, RegistryInv
<1>6. CASE ReadRegistry
    BY <1>6, ReadableLoad DEF ReadRegistry, RegistryInv
<1>7. CASE UNCHANGED vars
    BY <1>7 DEF vars
<1>8. QED
    BY <1>1, <1>2, <1>3, <1>4, <1>5, <1>6, <1>7
       DEF Next, Crash, CrashInReserve, CrashInSaveDeregistered, CrashInRecovery

(* A node starts with nothing registered, exposed or running.               *)
LEMMA OrderlyInit ==
    Init => RegistryInv /\ UnitsFollow /\ ServicesFollow /\ RoutesFollow
    BY DEF Init, RegistryInv, FilesAgree, Loaded, Recovers, Missing,
           DeregistersAlone, CopiesCurrent, Deregistering, Unlinked,
           UnitsFollow, ServicesFollow, RoutesFollow, LeadHome, NoServices,
           NoRoutes, NoPort

(* ports.env is written with the registry.                                  *)
LEMMA FilesAgreeNext ==
    ASSUME Orderly, TypeInv, RegistryInv, [Next]_vars
    PROVE  FilesAgree'
<1>1. CASE UNCHANGED disk
    BY <1>1 DEF disk, RegistryInv, FilesAgree, Loaded, Recovers
<1>2. QED
    BY <1>1, OrderlyRegistry, SavedIsLoaded DEF Reserve, SaveDeregistered, FilesAgree

(* MayBegin, and the guard of BeginDeregister, keep other requests out.     *)
LEMMA DeregistersAloneNext ==
    ASSUME Orderly, TypeInv, RegistryInv, [Next]_vars
    PROVE  DeregistersAlone'
<1> USE DEF RegistryInv, DeregistersAlone, Deregistering, TypeInv, TypeOK
<1>1. ~Die
    BY DEF Die, Orderly
<1>2. CASE UNCHANGED pc
    BY <1>2
<1>3. ASSUME NEW r \in Reqs, NEW step, Goto(r, step),
             \/ step = "idle"
             \/ \A s \in Reqs : ~Deregistering(s) /\ step \notin Unlinked \cup {"dereg_disable", "dereg_unlink"}
             \/ \A s \in Reqs : pc[s] = "idle"
             \/ Deregistering(r)
      PROVE  DeregistersAlone'
    BY <1>3 DEF Goto, Unlinked
<1>4. ASSUME NEW r \in Reqs, NEW n \in Names, NEW p \in Ports, Reserve(r, n, p)
      PROVE  DeregistersAlone'
    BY <1>2, <1>3, <1>4 DEF Reserve, MayBegin, Orderly, Unlinked
<1>5. ASSUME NEW r \in Reqs,
             \/ ReadRoutesToAdd(r) \/ PutRouteAdded(r) \/ CreateDnsRecord(r)
             \/ CreateAccessApp(r) \/ ExposureFails(r) \/ Control(r)
      PROVE  DeregistersAlone'
  <2>1. pc[r] # "idle" /\ ~Deregistering(r)
      BY <1>5 DEF ReadRoutesToAdd, PutRouteAdded, CreateDnsRecord,
                  CreateAccessApp, ExposureFails, Control
  <2>2. \A s \in Reqs : ~Deregistering(s)
      BY <2>1
  <2>3. QED
      BY <1>3, <1>5, <2>2
         DEF ReadRoutesToAdd, PutRouteAdded, CreateDnsRecord,
             CreateAccessApp, ExposureFails, Control, Return, Unlinked
<1>6. ASSUME NEW r \in Reqs,
             \/ Disable(r) \/ Unlink(r) \/ ReadRoutesToRemove(r)
             \/ PutRouteRemoved(r) \/ DeleteDnsRecord(r) \/ DeleteAccessApp(r)
             \/ CleanupFails(r) \/ SaveDeregistered(r)
      PROVE  DeregistersAlone'
    BY <1>3, <1>6
       DEF Disable, Unlink, ReadRoutesToRemove, PutRouteRemoved,
           DeleteDnsRecord, DeleteAccessApp, CleanupFails, SaveDeregistered, Return
<1>7. ASSUME NEW r \in Reqs, NEW n \in Names, BeginDeregister(r, n)
      PROVE  DeregistersAlone'
    BY <1>3, <1>7 DEF BeginDeregister, InFlight, Orderly
<1>8. ASSUME NEW r \in Reqs, NEW n \in Names,
             NEW verb \in {"start", "stop", "restart"}, BeginControl(r, n, verb)
      PROVE  DeregistersAlone'
    BY <1>3, <1>8 DEF BeginControl, MayBegin, Orderly, Unlinked
<1>9. CASE ReadRegistry \/ UNCHANGED vars
    BY <1>2, <1>9 DEF ReadRegistry, vars
<1>10. QED
    BY <1>1, <1>4, <1>5, <1>6, <1>7, <1>8, <1>9
       DEF Next, Crash, CrashInReserve, CrashInSaveDeregistered, CrashInRecovery

(* A change of the registry does not touch what requests in flight rely on: *)
(* a reservation takes a free name, a deregistration ends alone.            *)
LEMMA CopiesCurrentNext ==
    ASSUME Orderly, TypeInv, RegistryInv, [Next]_vars
    PROVE  CopiesCurrent'
<1> USE DEF TypeInv, TypeOK, Registry, Deregistering, Unlinked
<1>1. ~Die
    BY DEF Die, Orderly
<1>2. ASSUME NEW r \in Reqs, NEW n \in Names, NEW p \in Ports, Reserve(r, n, p)
      PROVE  CopiesCurrent'
  <2>1. p # NoPort
      BY ConstantsAssumption
  <2>2. Save(FileAfterLoad, [Loaded EXCEPT ![n] = p]) /\ portsEnv = Loaded
      BY <1>2 DEF Reserve, RegistryInv, FilesAgree
  <2>3. portsEnv' = [portsEnv EXCEPT ![n] = p] /\ portsEnv[n] = NoPort
      BY <1>2, <2>2, SavedIsLoaded DEF Reserve
  <2>4. \A s \in Reqs : ~Deregistering(s)
      BY <1>2 DEF Reserve, MayBegin, Orderly
  <2>5. CASE UNCHANGED <<pc, local>>
      BY <2>1, <2>3, <2>4, <2>5 DEF local, RegistryInv, CopiesCurrent
  <2>6. CASE /\ Goto(r, "reg_get") /\ name' = [name EXCEPT ![r] = n]
             /\ copy' = [copy EXCEPT ![r] = portsEnv']
      BY <2>1, <2>3, <2>4, <2>6 DEF Goto, RegistryInv, CopiesCurrent
  <2>7. QED
      BY <1>2, <2>2, <2>3, <2>5, <2>6 DEF Reserve
<1>3. ASSUME NEW r \in Reqs, SaveDeregistered(r) PROVE CopiesCurrent'
  <2>1. \A s \in Reqs : pc[s] # "idle" => s = r
      BY <1>3 DEF SaveDeregistered, RegistryInv, DeregistersAlone
  <2>2. QED
      BY <1>3, <2>1 DEF SaveDeregistered, Return, Goto, CopiesCurrent
<1>4. ASSUME NEW r \in Reqs, Return(r), UNCHANGED disk PROVE CopiesCurrent'
    BY <1>4 DEF Return, Goto, disk, RegistryInv, CopiesCurrent
<1>5. ASSUME NEW r \in Reqs, UNCHANGED <<disk, name, copy>>,
             NEW step \in Steps, Goto(r, step),
             step \in Unlinked => pc[r] \in Unlinked,
             step \in {"dereg_disable", "dereg_unlink"}
                => pc[r] \in {"dereg_disable", "dereg_unlink"},
             step \in {"reg_get", "reg_put", "reg_dns", "reg_app"}
                => pc[r] \in {"reg_get", "reg_put", "reg_dns", "reg_app"}
      PROVE  CopiesCurrent'
    BY <1>5 DEF Goto, disk, RegistryInv, CopiesCurrent
<1>6. ASSUME NEW r \in Reqs, ReadRoutesToAdd(r) \/ CreateDnsRecord(r)
      PROVE  CopiesCurrent'
  <2>1. CASE Return(r)
      BY <1>4, <1>6, <2>1 DEF ReadRoutesToAdd, CreateDnsRecord
  <2>2. CASE Goto(r, "reg_put") /\ UNCHANGED <<name, copy>>
      BY <1>5, <1>6, <2>2 DEF ReadRoutesToAdd, CreateDnsRecord, Steps
  <2>3. CASE Goto(r, "reg_app") /\ UNCHANGED local
      BY <1>5, <1>6, <2>3 DEF ReadRoutesToAdd, CreateDnsRecord, Steps, local
  <2>4. QED
      BY <1>6, <2>1, <2>2, <2>3 DEF ReadRoutesToAdd, CreateDnsRecord
<1>7. ASSUME NEW r \in Reqs, CreateAccessApp(r) \/ ExposureFails(r) \/ Control(r)
      PROVE  CopiesCurrent'
    BY <1>4, <1>7 DEF CreateAccessApp, ExposureFails, Control, disk
<1>8. ASSUME NEW r \in Reqs,
             \/ PutRouteAdded(r) \/ Disable(r) \/ ReadRoutesToRemove(r)
             \/ PutRouteRemoved(r) \/ DeleteDnsRecord(r) \/ DeleteAccessApp(r)
             \/ CleanupFails(r)
      PROVE  CopiesCurrent'
    BY <1>5, <1>8
       DEF PutRouteAdded, Disable, ReadRoutesToRemove, PutRouteRemoved,
           DeleteDnsRecord, DeleteAccessApp, CleanupFails, Steps, local
<1>9. ASSUME NEW r \in Reqs, Unlink(r) PROVE CopiesCurrent'
    BY <1>9 DEF Unlink, Goto, disk, RegistryInv, CopiesCurrent
<1>10. ASSUME NEW r \in Reqs, NEW n \in Names, BeginDeregister(r, n)
       PROVE  CopiesCurrent'
  <2>1. UNCHANGED portsEnv /\ portsEnv = Loaded
      BY <1>10, ReadableLoad DEF BeginDeregister, disk, RegistryInv, FilesAgree
  <2>2. QED
      BY <1>10, <2>1 DEF BeginDeregister, Goto, RegistryInv, CopiesCurrent
<1>11. ASSUME NEW r \in Reqs, NEW n \in Names,
              NEW verb \in {"start", "stop", "restart"}, BeginControl(r, n, verb)
       PROVE  CopiesCurrent'
  <2>1. UNCHANGED portsEnv
      BY <1>11, ReadableLoad DEF BeginControl, disk, RegistryInv
  <2>2. QED
      BY <1>11, <2>1 DEF BeginControl, Goto, RegistryInv, CopiesCurrent
<1>12. CASE ReadRegistry \/ UNCHANGED vars
    BY <1>12, ReadableLoad
       DEF ReadRegistry, vars, disk, local, RegistryInv, CopiesCurrent
<1>13. QED
    BY <1>1, <1>2, <1>3, <1>6, <1>7, <1>8, <1>9, <1>10, <1>11, <1>12
       DEF Next, Crash, CrashInReserve, CrashInSaveDeregistered, CrashInRecovery

(* What the requests rely on holds on, whatever the next step is.           *)
LEMMA RegistryInvNext ==
    ASSUME Orderly, TypeInv, RegistryInv, [Next]_vars
    PROVE  RegistryInv'
    BY FilesAgreeNext, DeregistersAloneNext, CopiesCurrentNext DEF RegistryInv

-----------------------------------------------------------------------------
(* Unit files, services and routes.                                         *)

(* Unit files are written with the reservation and go before the            *)
(* deregistration is saved, by a request that is alone then.                *)
LEMMA UnitsFollowNext ==
    ASSUME Orderly, TypeInv, RegistryInv, UnitsFollow, [Next]_vars
    PROVE  UnitsFollow'
<1> USE DEF TypeInv, TypeOK, Registry, Unlinked
<1>1. ~Die
    BY DEF Die, Orderly
<1>2. ASSUME NEW r \in Reqs, NEW n \in Names, NEW p \in Ports, Reserve(r, n, p)
      PROVE  UnitsFollow'
  <2>1. Save(FileAfterLoad, [Loaded EXCEPT ![n] = p]) /\ portsEnv = Loaded
      BY <1>2 DEF Reserve, RegistryInv, FilesAgree
  <2>2. portsEnv' = [portsEnv EXCEPT ![n] = p]
      BY <2>1, SavedIsLoaded
  <2>3. units' = [units EXCEPT ![n] = p] /\ \A s \in Reqs : pc[s] \notin Unlinked
      BY <1>2 DEF Reserve, MayBegin, Orderly, Deregistering
  <2>4. \A s \in Reqs : pc'[s] \notin Unlinked
      BY <1>2, <2>3 DEF Reserve, Goto
  <2>5. QED
      BY <2>2, <2>3, <2>4 DEF UnitsFollow
<1>3. ASSUME NEW r \in Reqs, SaveDeregistered(r) PROVE UnitsFollow'
  <2>1. portsEnv' = [portsEnv EXCEPT ![name[r]] = NoPort]
      BY <1>3, SavedIsLoaded DEF SaveDeregistered, RegistryInv, CopiesCurrent
  <2>2. \A s \in Reqs : pc[s] # "idle" => s = r
      BY <1>3 DEF SaveDeregistered, RegistryInv, DeregistersAlone, Deregistering
  <2>3. pc[r] \in Unlinked /\ \A s \in Reqs : pc'[s] \notin Unlinked
      BY <1>3, <2>2 DEF SaveDeregistered, Return, Goto
  <2>4. \A n \in Names : units[n] = IF n = name[r] THEN NoPort ELSE portsEnv[n]
      BY <2>2, <2>3 DEF UnitsFollow
  <2>5. UNCHANGED units
      BY <1>3 DEF SaveDeregistered
  <2>6. QED
      BY <2>1, <2>3, <2>4, <2>5 DEF UnitsFollow
<1>4. ASSUME NEW r \in Reqs, NEW step, Goto(r, step), UNCHANGED <<portsEnv, units>>,
             \/ name' = name /\ (step \in Unlinked <=> pc[r] \in Unlinked)
             \/ step \notin Unlinked /\ pc[r] \notin Unlinked
                  /\ \A s \in Reqs \ {r} : name'[s] = name[s]
      PROVE  UnitsFollow'
  <2>1. \A s \in Reqs, n \in Names :
          (pc'[s] \in Unlinked /\ name'[s] = n) <=> (pc[s] \in Unlinked /\ name[s] = n)
      BY <1>4 DEF Goto
  <2>2. QED
      BY <1>4, <2>1 DEF UnitsFollow
<1>5. ASSUME NEW r \in Reqs,
             \/ ReadRoutesToAdd(r) \/ PutRouteAdded(r) \/ CreateDnsRecord(r)
             \/ CreateAccessApp(r) \/ ExposureFails(r) \/ Control(r)
      PROVE  UnitsFollow'
  <2>1. UNCHANGED <<portsEnv, units>> /\ pc[r] \notin Unlinked
      BY <1>5 DEF ReadRoutesToAdd, PutRouteAdded, CreateDnsRecord,
                  CreateAccessApp, ExposureFails, Control, disk
  <2>2. \E step \in {"idle", "reg_put", "reg_dns", "reg_app"} : Goto(r, step)
      BY <1>5 DEF ReadRoutesToAdd, PutRouteAdded, CreateDnsRecord,
                  CreateAccessApp, ExposureFails, Control, Return
  <2>3. \A s \in Reqs \ {r} : name'[s] = name[s]
      BY <1>5 DEF ReadRoutesToAdd, PutRouteAdded, CreateDnsRecord,
                  CreateAccessApp, ExposureFails, Control, Return, local
  <2>4. QED
      BY <1>4, <2>1, <2>2, <2>3
<1>6. ASSUME NEW r \in Reqs,
             \/ Disable(r) \/ ReadRoutesToRemove(r) \/ PutRouteRemoved(r)
             \/ DeleteDnsRecord(r) \/ DeleteAccessApp(r) \/ CleanupFails(r)
      PROVE  UnitsFollow'
    BY <1>4, <1>6
       DEF Disable, ReadRoutesToRemove, PutRouteRemoved, DeleteDnsRecord,
           DeleteAccessApp, CleanupFails, disk, local
<1>7. ASSUME NEW r \in Reqs, Unlink(r) PROVE UnitsFollow'
  <2>1. \A s \in Reqs : pc[s] # "idle" => s = r
      BY <1>7 DEF Unlink, RegistryInv, DeregistersAlone, Deregistering
  <2>2. \A n \in Names : units[n] = portsEnv[n]
      BY <1>7, <2>1 DEF Unlink, UnitsFollow
  <2>3. \A s \in Reqs : pc'[s] \in Unlinked <=> s = r
      BY <1>7, <2>1 DEF Unlink, Goto
  <2>4. units' = [units EXCEPT ![name[r]] = NoPort] /\ UNCHANGED <<name, portsEnv>>
      BY <1>7 DEF Unlink, UnitsWithout, disk
  <2>5. QED
      BY <2>2, <2>3, <2>4 DEF UnitsFollow
<1>8. ASSUME NEW r \in Reqs, NEW n \in Names,
             \/ BeginDeregister(r, n)
             \/ \E verb \in {"start", "stop", "restart"} : BeginControl(r, n, verb)
      PROVE  UnitsFollow'
  <2>1. UNCHANGED <<portsEnv, units>>
      BY <1>8, ReadableLoad DEF BeginDeregister, BeginControl, disk, RegistryInv
  <2>2. QED
      BY <1>4, <1>8, <2>1 DEF BeginDeregister, BeginControl
<1>9. CASE ReadRegistry \/ UNCHANGED vars
    BY <1>9, ReadableLoad
       DEF ReadRegistry, vars, disk, local, RegistryInv, UnitsFollow
<1>10. QED
    BY <1>1, <1>2, <1>3, <1>5, <1>6, <1>7, <1>8, <1>9
       DEF Next, Crash, CrashInReserve, CrashInSaveDeregistered, CrashInRecovery

(* Services are started with the port of their unit file, and stopped       *)
(* before it goes; until the deregistration is saved nothing starts them.   *)
LEMMA ServicesFollowNext ==
    ASSUME Orderly, TypeInv, RegistryInv, UnitsFollow, ServicesFollow, [Next]_vars
    PROVE  ServicesFollow'
<1> DEFINE Late == Unlinked \cup {"dereg_unlink"}
<1> USE DEF TypeInv, TypeOK, Registry
<1>1. ~Die
    BY DEF Die, Orderly
<1>2. ASSUME NEW r \in Reqs, NEW n \in Names, NEW p \in Ports, Reserve(r, n, p)
      PROVE  ServicesFollow'
  <2>1. Save(FileAfterLoad, [Loaded EXCEPT ![n] = p]) /\ portsEnv = Loaded
      BY <1>2 DEF Reserve, RegistryInv, FilesAgree
  <2>2. portsEnv' = [portsEnv EXCEPT ![n] = p] /\ portsEnv[n] = NoPort
      BY <1>2, <2>1, SavedIsLoaded DEF Reserve
  <2>3. \A s \in Reqs : pc'[s] \notin Late
      BY <1>2 DEF Reserve, Goto, MayBegin, Orderly, Deregistering, Unlinked
  <2>4. UNCHANGED active
      BY <1>2 DEF Reserve
  <2>5. QED
      BY <2>2, <2>3, <2>4 DEF ServicesFollow
<1>3. ASSUME NEW r \in Reqs, SaveDeregistered(r) PROVE ServicesFollow'
  <2>1. portsEnv' = [portsEnv EXCEPT ![name[r]] = NoPort]
      BY <1>3, SavedIsLoaded
         DEF SaveDeregistered, RegistryInv, CopiesCurrent, Unlinked
  <2>2. \A s \in Reqs : pc[s] # "idle" => s = r
      BY <1>3 DEF SaveDeregistered, RegistryInv, DeregistersAlone, Deregistering
  <2>3. pc[r] \in Late /\ \A s \in Reqs : pc'[s] \notin Late
      BY <1>3, <2>2 DEF SaveDeregistered, Return, Goto, Unlinked
  <2>4. active[name[r]] = NoPort /\ UNCHANGED active
      BY <1>3, <2>3 DEF SaveDeregistered, ServicesFollow
  <2>5. QED
      BY <2>1, <2>3, <2>4 DEF ServicesFollow
<1>4. ASSUME NEW r \in Reqs, NEW step, Goto(r, step), UNCHANGED <<portsEnv, active>>,
             \/ name'[r] = name[r] /\ (step \in Late => pc[r] \in Late)
             \/ step \notin Late,
             \A s \in Reqs \ {r} : name'[s] = name[s]
      PROVE  ServicesFollow'
  <2>1. \A s \in Reqs : pc'[s] \in Late => pc[s] \in Late /\ name'[s] = name[s]
      BY <1>4 DEF Goto
  <2>2. QED
      BY <1>4, <2>1 DEF ServicesFollow
<1>5. ASSUME NEW r \in Reqs,
             \/ ReadRoutesToAdd(r) \/ PutRouteAdded(r) \/ CreateDnsRecord(r)
             \/ CreateAccessApp(r) \/ ExposureFails(r)
      PROVE  ServicesFollow'
  <2>1. UNCHANGED <<portsEnv, active>>
      BY <1>5 DEF ReadRoutesToAdd, PutRouteAdded, CreateDnsRecord,
                  CreateAccessApp, ExposureFails, disk
  <2>2. \E step \in {"idle", "reg_put", "reg_dns", "reg_app"} : Goto(r, step)
      BY <1>5 DEF ReadRoutesToAdd, PutRouteAdded, CreateDnsRecord,
                  CreateAccessApp, ExposureFails, Return
  <2>3. \A s \in Reqs \ {r} : name'[s] = name[s]
      BY <1>5 DEF ReadRoutesToAdd, PutRouteAdded, CreateDnsRecord,
                  CreateAccessApp, ExposureFails, Return, local
  <2>4. QED
      BY <1>4, <2>1, <2>2, <2>3 DEF Unlinked
<1>6. ASSUME NEW r \in Reqs,
             \/ Unlink(r) \/ ReadRoutesToRemove(r) \/ PutRouteRemoved(r)
             \/ DeleteDnsRecord(r) \/ DeleteAccessApp(r) \/ CleanupFails(r)
      PROVE  ServicesFollow'
    BY <1>4, <1>6
       DEF Unlink, ReadRoutesToRemove, PutRouteRemoved, DeleteDnsRecord,
           DeleteAccessApp, CleanupFails, disk, local, Unlinked
<1>7. ASSUME NEW r \in Reqs, Disable(r) PROVE ServicesFollow'
  <2>1. \A s \in Reqs : pc[s] # "idle" => s = r
      BY <1>7 DEF Disable, RegistryInv, DeregistersAlone, Deregistering
  <2>2. units[name[r]] = portsEnv[name[r]]
      BY <1>7, <2>1 DEF Disable, UnitsFollow, Unlinked
  <2>3. active'[name[r]] = NoPort /\ \A n \in Names \ {name[r]} : active'[n] = active[n]
      BY <1>7, <2>2 DEF Disable, Stopped, ServicesFollow
  <2>4. \A s \in Reqs : pc'[s] \in Late <=> s = r
      BY <1>7, <2>1 DEF Disable, Goto, Unlinked
  <2>5. UNCHANGED <<portsEnv, name>>
      BY <1>7 DEF Disable, disk, local
  <2>6. QED
      BY <2>3, <2>4, <2>5 DEF ServicesFollow
<1>8. ASSUME NEW r \in Reqs, NEW n \in Names,
             \/ BeginDeregister(r, n)
             \/ \E verb \in {"start", "stop", "restart"} : BeginControl(r, n, verb)
      PROVE  ServicesFollow'
  <2>1. UNCHANGED <<portsEnv, active>>
      BY <1>8, ReadableLoad DEF BeginDeregister, BeginControl, disk, RegistryInv
  <2>2. QED
      BY <1>4, <1>8, <2>1 DEF BeginDeregister, BeginControl, Unlinked
<1>9. ASSUME NEW r \in Reqs, Control(r) PROVE ServicesFollow'
  <2>1. \A s \in Reqs : ~Deregistering(s)
      BY <1>9 DEF Control, RegistryInv, DeregistersAlone, Deregistering
  <2>2. units = portsEnv
      BY <2>1 DEF UnitsFollow, Deregistering, Unlinked
  <2>3. \A n \in Names : active'[n] \in {active[n], NoPort, portsEnv[n]}
      BY <1>9, <2>2 DEF Control
  <2>4. \A s \in Reqs : pc'[s] \notin Late
      BY <1>9, <2>1 DEF Control, Return, Goto, Deregistering, Unlinked
  <2>5. UNCHANGED portsEnv
      BY <1>9 DEF Control, disk
  <2>6. QED
      BY <2>3, <2>4, <2>5 DEF ServicesFollow
<1>10. CASE ReadRegistry \/ UNCHANGED vars
    BY <1>10, ReadableLoad
       DEF ReadRegistry, vars, disk, local, RegistryInv, ServicesFollow
<1>11. QED
    BY <1>1, <1>2, <1>3, <1>5, <1>6, <1>7, <1>8, <1>9, <1>10
       DEF Next, Crash, CrashInReserve, CrashInSaveDeregistered, CrashInRecovery

(* A route that leads home goes on leading home when another service is     *)
(* registered, or when its own service is deregistered after its route.     *)
LEMMA RoutesFollowNext ==
    ASSUME Orderly, TypeInv, RegistryInv, RoutesFollow, [Next]_vars
    PROVE  RoutesFollow'
<1> DEFINE Removed == {"dereg_dns", "dereg_app", "dereg_save"}
           Put == {"reg_put", "dereg_put"}
<1> USE DEF TypeInv, TypeOK, Registry, Routes
<1>0. ~Die /\ NoHost \notin Hosts
    BY ConstantsAssumption DEF Die, Orderly
<1>1. ASSUME NEW r \in Reqs, NEW n \in Names, NEW p \in Ports, Reserve(r, n, p)
      PROVE  RoutesFollow'
  <2>1. Save(FileAfterLoad, [Loaded EXCEPT ![n] = p]) /\ portsEnv = Loaded
      BY <1>1 DEF Reserve, RegistryInv, FilesAgree
  <2>2. portsEnv' = [portsEnv EXCEPT ![n] = p] /\ portsEnv[n] = NoPort
      BY <1>1, <2>1, SavedIsLoaded DEF Reserve
  <2>3. UNCHANGED <<ingress, seen, abandoned>>
      BY <1>1 DEF Reserve, cloud, told, local
  <2>4. \A s \in Reqs : /\ pc'[s] \notin Removed
                        /\ pc'[s] \in Put => pc[s] \in Put
      BY <1>1 DEF Reserve, Goto, MayBegin, Orderly, Deregistering
  <2>5. ASSUME NEW routes, LeadHome(routes) PROVE LeadHome(routes)'
      BY <2>2, <2>3, <2>5 DEF LeadHome
  <2>6. QED
      BY <2>3, <2>4, <2>5 DEF RoutesFollow
<1>2. ASSUME NEW r \in Reqs, SaveDeregistered(r) PROVE RoutesFollow'
  <2>1. portsEnv' = [portsEnv EXCEPT ![name[r]] = NoPort]
      BY <1>2, SavedIsLoaded
         DEF SaveDeregistered, RegistryInv, CopiesCurrent, Unlinked
  <2>2. \A s \in Reqs : pc[s] # "idle" => s = r
      BY <1>2 DEF SaveDeregistered, RegistryInv, DeregistersAlone, Deregistering
  <2>3. \A s \in Reqs : pc'[s] \notin Removed /\ pc'[s] \notin Put
      BY <1>2, <2>2 DEF SaveDeregistered, Return, Goto
  <2>4. UNCHANGED <<ingress, abandoned>>
      BY <1>2 DEF SaveDeregistered, cloud
  <2>5. HostOf[name[r]] \in Hosts \ abandoned => ingress[HostOf[name[r]]] = NoPort
      BY <1>2 DEF SaveDeregistered, RoutesFollow
  <2>6. LeadHome(ingress)'
      BY <2>1, <2>4, <2>5 DEF LeadHome, RoutesFollow
  <2>7. QED
      BY <2>3, <2>6 DEF RoutesFollow
<1>3. ASSUME NEW r \in Reqs, NEW step, Goto(r, step),
             UNCHANGED <<portsEnv, ingress, abandoned>>,
             \A s \in Reqs \ {r} : name'[s] = name[s] /\ seen'[s] = seen[s],
             step \in Put => LeadHome(seen'[r]),
             step \in Removed =>
                \/ pc[r] \in Removed /\ name'[r] = name[r]
                \/ HostOf[name'[r]] \notin Hosts \ abandoned
                \/ ingress[HostOf[name'[r]]] = NoPort
      PROVE  RoutesFollow'
  <2>1. \A s \in Reqs \ {r} : pc'[s] = pc[s]
      BY <1>3 DEF Goto
  <2>2. pc'[r] = step
      BY <1>3 DEF Goto
  <2>3. ASSUME NEW routes, LeadHome(routes) PROVE LeadHome(routes)'
      BY <1>3, <2>3 DEF LeadHome
  <2>4. ASSUME NEW s \in Reqs, pc'[s] \in Put PROVE LeadHome(seen[s])'
    <3>1. LeadHome(seen'[s])
        BY <1>3, <2>1, <2>2, <2>4 DEF RoutesFollow
    <3>2. QED
        BY <1>3, <3>1 DEF LeadHome
  <2>5. ASSUME NEW s \in Reqs, pc'[s] \in Removed,
               HostOf[name'[s]] \in Hosts \ abandoned
        PROVE  ingress[HostOf[name'[s]]] = NoPort
      BY <1>3, <2>1, <2>2, <2>5 DEF RoutesFollow
  <2>6. LeadHome(ingress)'
      BY <1>3 DEF LeadHome, RoutesFollow
  <2>7. QED
      BY <1>3, <2>4, <2>5, <2>6 DEF RoutesFollow
<1>4. ASSUME NEW r \in Reqs,
             \/ ReadRoutesToAdd(r) \/ CreateDnsRecord(r) \/ CreateAccessApp(r)
             \/ Control(r)
      PROVE  RoutesFollow'
  <2>1. UNCHANGED <<portsEnv, ingress, abandoned>>
      BY <1>4 DEF ReadRoutesToAdd, CreateDnsRecord, CreateAccessApp, Control,
                  disk, cloud, told
  <2>2. \A s \in Reqs \ {r} : name'[s] = name[s] /\ seen'[s] = seen[s]
      BY <1>4 DEF ReadRoutesToAdd, CreateDnsRecord, CreateAccessApp, Control,
                  Return, local
  <2>3. \/ \E step \in {"idle", "reg_app"} : Goto(r, step)
        \/ Goto(r, "reg_put") /\ seen'[r] = ingress
      BY <1>4 DEF ReadRoutesToAdd, CreateDnsRecord, CreateAccessApp, Control,
                  Return
  <2>4. QED
      BY <1>3, <2>1, <2>2, <2>3 DEF RoutesFollow
<1>5. ASSUME NEW r \in Reqs, NEW n \in Names,
             \/ BeginDeregister(r, n)
             \/ \E verb \in {"start", "stop", "restart"} : BeginControl(r, n, verb)
      PROVE  RoutesFollow'
  <2>1. UNCHANGED <<portsEnv, ingress, abandoned>>
      BY <1>5, ReadableLoad
         DEF BeginDeregister, BeginControl, disk, cloud, told, RegistryInv
  <2>2. QED
      BY <1>3, <1>5, <2>1 DEF BeginDeregister, BeginControl
<1>6. ASSUME NEW r \in Reqs,
             \/ Disable(r) \/ Unlink(r) \/ ReadRoutesToRemove(r)
             \/ DeleteDnsRecord(r) \/ DeleteAccessApp(r)
      PROVE  RoutesFollow'
  <2>1. UNCHANGED <<portsEnv, ingress, abandoned, name>>
      BY <1>6 DEF Disable, Unlink, ReadRoutesToRemove, DeleteDnsRecord,
                  DeleteAccessApp, disk, cloud, told, local
  <2>2. \A s \in Reqs \ {r} : name'[s] = name[s] /\ seen'[s] = seen[s]
      BY <1>6 DEF Disable, Unlink, ReadRoutesToRemove, DeleteDnsRecord,
                  DeleteAccessApp, local
  <2>3. \/ \E step \in {"dereg_unlink", "dereg_get"} : Goto(r, step)
        \/ Goto(r, "dereg_save") /\ HostOf[name[r]] = NoHost
        \/ Goto(r, "dereg_save") /\ ingress[HostOf[name[r]]] = NoPort
        \/ Goto(r, "dereg_put") /\ seen'[r] = ingress
        \/ pc[r] \in Removed /\ \E step \in Removed : Goto(r, step)
      BY <1>6 DEF Disable, Unlink, ReadRoutesToRemove, DeleteDnsRecord,
                  DeleteAccessApp
  <2>4. QED
      BY <1>0, <1>3, <2>1, <2>2, <2>3, ZenonT(120) DEF RoutesFollow
<1>7. ASSUME NEW r \in Reqs, PutRouteAdded(r) \/ ExposureFails(r)
      PROVE  RoutesFollow'
  <2>1. UNCHANGED <<portsEnv, abandoned>>
      BY <1>7 DEF PutRouteAdded, ExposureFails, disk, told
  <2>2. \A s \in Reqs : ~Deregistering(s)
      BY <1>7 DEF PutRouteAdded, ExposureFails, RegistryInv,
                  DeregistersAlone, Deregistering
  <2>3. \A s \in Reqs : /\ pc'[s] \notin Removed
                        /\ pc'[s] \in Put => pc[s] \in Put /\ seen'[s] = seen[s]
      BY <1>7, <2>2 DEF PutRouteAdded, ExposureFails, Return, Goto,
                        Deregistering, local
  <2>4. CASE UNCHANGED ingress
      BY <2>1, <2>3, <2>4 DEF RoutesFollow, LeadHome
  <2>5. CASE pc[r] = "reg_put" /\ ingress' = RoutesWith(r)
    <3>1. HostOf[name[r]] \in Hosts /\ name[r] \in Names
        BY <2>5 DEF HostKnown, CloudSteps
    <3>2. copy[r][name[r]] = portsEnv[name[r]]
        BY <2>5 DEF RegistryInv, CopiesCurrent
    <3>3. LeadHome(seen[r])
        BY <2>5 DEF RoutesFollow
    <3>4. LeadHome(ingress)'
        BY <2>1, <2>5, <3>1, <3>2, <3>3 DEF LeadHome, RoutesWith
    <3>5. \A s \in Reqs : pc'[s] \in Put => LeadHome(seen[s])'
        BY <2>1, <2>3 DEF LeadHome, RoutesFollow
    <3>6. QED
        BY <2>3, <3>4, <3>5 DEF RoutesFollow
  <2>6. QED
      BY <1>7, <2>4, <2>5 DEF PutRouteAdded, ExposureFails
<1>8. ASSUME NEW r \in Reqs, PutRouteRemoved(r) \/ CleanupFails(r)
      PROVE  RoutesFollow'
  <2>1. UNCHANGED <<portsEnv, name>> /\ abandoned \subseteq abandoned'
      BY <1>8 DEF PutRouteRemoved, CleanupFails, disk, told, local
  <2>2. \A s \in Reqs \ {r} : pc[s] = "idle"
      BY <1>8 DEF PutRouteRemoved, CleanupFails, RegistryInv,
                  DeregistersAlone, Deregistering
  <2>3. \A s \in Reqs : pc'[s] \notin Put
      BY <1>8, <2>2 DEF PutRouteRemoved, CleanupFails, Goto
  <2>4. \A s \in Reqs : pc'[s] \in Removed => s = r
      BY <1>8, <2>2 DEF PutRouteRemoved, CleanupFails, Goto
  <2>5. CASE CleanupFails(r) /\ UNCHANGED ingress
    <3>1. HostOf[name'[r]] \in abandoned'
        BY <2>1, <2>5 DEF CleanupFails
    <3>2. LeadHome(ingress)'
        BY <2>1, <2>5 DEF LeadHome, RoutesFollow
    <3>3. QED
        BY <2>3, <2>4, <3>1, <3>2 DEF RoutesFollow
  <2>6. CASE pc[r] = "dereg_put" /\ ingress' = RoutesWithout(r)
    <3>1. HostOf[name[r]] \in Hosts
        BY <2>6 DEF HostKnown, CloudSteps
    <3>2. ingress'[HostOf[name[r]]] = NoPort
          /\ \A h \in Hosts \ {HostOf[name[r]]} : ingress'[h] = seen[r][h]
        BY <2>6, <3>1 DEF RoutesWithout
    <3>3. LeadHome(seen[r])
        BY <2>6 DEF RoutesFollow
    <3>4. LeadHome(ingress)'
        BY <2>1, <3>2, <3>3 DEF LeadHome
    <3>5. QED
        BY <2>1, <2>3, <2>4, <3>2, <3>4 DEF RoutesFollow
  <2>7. QED
      BY <1>8, <2>5, <2>6 DEF PutRouteRemoved, CleanupFails
<1>9. CASE ReadRegistry \/ UNCHANGED vars
    BY <1>9, ReadableLoad
       DEF ReadRegistry, vars, disk, cloud, told, local, RegistryInv,
           RoutesFollow, LeadHome
<1>10. QED
    BY <1>0, <1>1, <1>2, <1>4, <1>5, <1>6, <1>7, <1>8, <1>9
       DEF Next, Crash, CrashInReserve, CrashInSaveDeregistered, CrashInRecovery

(* The inductive invariant of an orderly node.                              *)
OrderlyInv ==
    TypeInv /\ RegistryInv /\ UnitsFollow /\ ServicesFollow /\ RoutesFollow

(* It holds from the start and after every step.                            *)
LEMMA OrderlyAlways ==
    ASSUME Orderly
    PROVE  Spec => []OrderlyInv
<1>1. Init => OrderlyInv
    BY TypeInit, OrderlyInit DEF OrderlyInv
<1>2. OrderlyInv /\ [Next]_vars => OrderlyInv'
    BY TypeNext, RegistryInvNext, UnitsFollowNext, ServicesFollowNext,
       RoutesFollowNext
       DEF OrderlyInv
<1>3. QED
    BY <1>1, <1>2, PTL DEF Spec

(* Without crashes, ports.env is the registry that the next load finds.     *)
THEOREM PortsEnvCurrentHolds ==
    ASSUME SerialDeregister, MaxCrashes = 0
    PROVE  Spec => []PortsEnvCurrent
<1>1. OrderlyInv => PortsEnvCurrent
    BY DEF OrderlyInv, RegistryInv, FilesAgree, PortsEnvCurrent
<1>2. QED
    BY <1>1, OrderlyAlways, PTL DEF Orderly

(* Without crashes and overlapping deregistrations, the unit files are      *)
(* those of the registered services, with their ports.                      *)
THEOREM UnitsMatchRegistryHolds ==
    ASSUME SerialDeregister, MaxCrashes = 0
    PROVE  Spec => []UnitsMatchRegistry
<1>1. OrderlyInv => UnitsMatchRegistry
    BY DEF OrderlyInv, RegistryInv, FilesAgree, UnitsFollow,
           UnitsMatchRegistry, Unlinked, Deregistering
<1>2. QED
    BY <1>1, OrderlyAlways, PTL DEF Orderly

(* In the same circumstances a running service is registered and listens    *)
(* on its reserved port.                                                    *)
THEOREM RunningIsRegisteredHolds ==
    ASSUME SerialDeregister, MaxCrashes = 0
    PROVE  Spec => []RunningIsRegistered
<1>1. OrderlyInv => RunningIsRegistered
    BY DEF OrderlyInv, RegistryInv, FilesAgree, ServicesFollow,
           RunningIsRegistered
<1>2. QED
    BY <1>1, OrderlyAlways, PTL DEF Orderly

(* In the same circumstances, whatever Cloudflare calls fail, a route leads *)
(* to the port of a service registered with its hostname, unless a cleanup  *)
(* of the hostname has failed.                                              *)
THEOREM RoutesLeadHomeHolds ==
    ASSUME SerialDeregister, MaxCrashes = 0
    PROVE  Spec => []RoutesLeadHome
<1>1. OrderlyInv => RoutesLeadHome
    BY DEF OrderlyInv, RegistryInv, FilesAgree, RoutesFollow, LeadHome,
           RoutesLeadHome
<1>2. QED
    BY <1>1, OrderlyAlways, PTL DEF Orderly

-----------------------------------------------------------------------------
(* The refinement of the port allocator.  On a fresh node every port is     *)
(* free.                                                                    *)
LEMMA AllocatorInit == Init => Allocator!Init
    BY DEF Init, Allocator!Init, Allocator!Unallocated, Loaded, Recovers,
           Missing, NoServices, NoPort

(* Every step of an orderly node gives a service the lowest free port,      *)
(* takes a port back, or leaves the registry as it is.                      *)
LEMMA AllocatorStep ==
    ASSUME Orderly, OrderlyInv, OrderlyInv', [Next]_vars
    PROVE  [Allocator!Next]_Loaded
<1>1. Loaded = portsEnv /\ Loaded' = portsEnv'
    BY DEF OrderlyInv, RegistryInv, FilesAgree
<1>2. CASE UNCHANGED disk
    BY <1>1, <1>2 DEF disk
<1>3. ASSUME NEW r \in Reqs, NEW n \in Names, NEW p \in Ports,
             Reserve(r, n, p), portsEnv' = [portsEnv EXCEPT ![n] = p]
      PROVE  Allocator!Next
  <2>1. Loaded[n] = NoPort /\ IsNextPort(p, Loaded)
      BY <1>3 DEF Reserve
  <2>2. Allocator!Free = Ports \ UsedPorts(Loaded)
      BY ConstantsAssumption DEF Allocator!Free, UsedPorts, NoPort
  <2>3. Allocator!Allocate(n)
      BY <1>1, <1>3, <2>1, <2>2
         DEF Allocator!Allocate, Allocator!Unallocated, IsNextPort, NoPort
  <2>4. QED
      BY <2>3 DEF Allocator!Next
<1>4. ASSUME NEW r \in Reqs, SaveDeregistered(r),
             portsEnv' = [portsEnv EXCEPT ![name[r]] = NoPort]
      PROVE  Allocator!Next
  <2>1. name[r] \in Names /\ portsEnv[name[r]] # NoPort
      BY <1>4 DEF SaveDeregistered, OrderlyInv, TypeInv, TypeOK, RegistryInv,
                  CopiesCurrent, Deregistering
  <2>2. Allocator!Release(name[r])
      BY <1>1, <1>4, <2>1
         DEF Allocator!Release, Allocator!Unallocated, NoPort
  <2>3. QED
      BY <2>1, <2>2 DEF Allocator!Next
<1>5. QED
    BY <1>2, <1>3, <1>4, OrderlyRegistry DEF OrderlyInv

(* One request at a time around a deregistration, and no crash: the         *)
(* registry that the next load finds is a port allocator, for any number of *)
(* services and ports.                                                      *)
THEOREM ImplementsAllocatorHolds ==
    ASSUME SerialDeregister, MaxCrashes = 0
    PROVE  Spec => ImplementsAllocator
<1>1. OrderlyInv /\ OrderlyInv' /\ [Next]_vars => [Allocator!Next]_Loaded
    BY AllocatorStep DEF Orderly
<1>2. QED
    BY <1>1, AllocatorInit, OrderlyAlways, PTL
       DEF Orderly, Spec, ImplementsAllocator, Allocator!Spec
=============================================================================
