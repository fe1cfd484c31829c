--------------------------- MODULE MsmInstall_proofs ---------------------------
(***************************************************************************)
(* Proofs about the installer: for any adapters, hardware ids and driver   *)
(* packages.                                                               *)
(***************************************************************************)
EXTENDS MsmInstall, TLAPS

\* The frames, and what every action says of the place of the session.
USE DEF machine, session, progress, vars, HwID, Values, Labels, Installing, Uninstalling

-----------------------------------------------------------------------------
(* Types                                                                   *)

\* The two halves of TypeOK.
Bits == loaded \in BOOLEAN /\ Ret \in BOOLEAN /\ flawless \in BOOLEAN /\ astray \in BOOLEAN

Sets ==
  /\ present \subseteq Devices /\ enabled \subseteq present
  /\ driver \in [Ours -> Packages \cup {NoPackage}]
  /\ store \subseteq Packages
  /\ registry \in [Values -> Packages \cup {NoPackage}]
  /\ pc \in Labels
  /\ request \in {"install", "uninstall", "skip", "nothing"}
  /\ package \in Packages \cup {NoPackage} /\ (pc # "idle" => package # NoPackage)
  /\ pc \in Installing => request = "install"
  /\ pc \in Uninstalling => request = "uninstall"
  /\ pc \in {"removeDriver", "packages"} => request \in {"install", "uninstall"}
  /\ DeviceInfoSet \subseteq Devices /\ (request = "install" => DeviceInfoSet \subseteq present)
  /\ pc \in {"idle", "install", "uninstall"} => DeviceInfoSet = {}
  /\ before \subseteq DeviceInfoSet
  /\ ExistingAdapters \subseteq before \cap Ours
  /\ enableFailed \subseteq ExistingAdapters
  /\ pc \in {"loaded", "disable", "removeAdapters"} => todo \subseteq DeviceInfoSet
  /\ pc = "packages" => todo \subseteq Packages
  /\ pc = "update" => todo \subseteq HwID
  /\ pc = "enable" => todo \subseteq ExistingAdapters

\* While the driver is enabled for an adapter it is in the kernel.
InKernel == enabled \cap Ours # {} => loaded

LEMMA Halves == TypeOK <=> Bits /\ Sets /\ InKernel
  BY DEF TypeOK, Bits, Sets, InKernel

LEMMA BitsStep == ASSUME Bits, [Next]_vars PROVE Bits'
<1> USE DEF Bits, Fails, Works, Abandon
<1>1. CASE UNCHANGED vars BY <1>1
<1>2. CASE AddAdapter \/ ToggleAdapter \/ KernelUnloads \/ Killed \/ MsiEvaluate \/ End
  BY <1>2, Zenon DEF AddAdapter, ToggleAdapter, KernelUnloads, Killed, MsiEvaluate, End, Forget
<1>3. CASE OpenDevices \/ IsDriverLoaded \/ DisableOurAdapters \/ AdaptersDisabled
  BY <1>3, Zenon DEF OpenDevices, IsDriverLoaded, DisableOurAdapters, AdaptersDisabled, Recognised, NotRecognised
<1>4. CASE RemoveOurAdapters \/ AdaptersRemoved \/ EnableOurAdapters \/ AdaptersEnabled
  BY <1>4, Zenon DEF RemoveOurAdapters, AdaptersRemoved, EnableOurAdapters, AdaptersEnabled, Recognised, NotRecognised
<1>5. CASE DriverInfoList \/ RemoveDriver \/ DriverRemoved \/ InstallDriver
  BY <1>5, Zenon DEF DriverInfoList, RemoveDriver, DriverRemoved, InstallDriver
<1>6. CASE SetupCopyOEMInf \/ UpdateDriverForPlugAndPlayDevices \/ DriverUpdated
  BY <1>6, Zenon DEF SetupCopyOEMInf, UpdateDriverForPlugAndPlayDevices, DriverUpdated
<1>7. CASE WriteRegKeys \/ DeleteKey
  BY <1>7, Zenon DEF WriteRegKeys, DeleteKey
<1>8. QED BY <1>1, <1>2, <1>3, <1>4, <1>5, <1>6, <1>7 DEF Next

LEMMA InKernelStep == ASSUME InKernel, [Next]_vars PROVE InKernel'
<1> USE DEF InKernel
<1>1. CASE UNCHANGED <<enabled, loaded>> BY <1>1, Zenon
<1>2. CASE loaded' = TRUE BY <1>2, Zenon
<1>3. CASE enabled' \subseteq enabled /\ UNCHANGED loaded BY <1>3
<1>4. CASE KernelUnloads BY <1>4 DEF KernelUnloads
<1>5. CASE \E d \in present : d \notin Ours /\ enabled' = enabled \cup {d} /\ UNCHANGED loaded
  BY <1>5
<1>6. CASE AddAdapter BY <1>6, <1>2, Zenon DEF AddAdapter
<1>7. CASE ToggleAdapter BY <1>7, <1>2, <1>3, <1>5 DEF ToggleAdapter
<1>8. CASE EnableOurAdapters BY <1>8, <1>1, <1>2, Zenon DEF EnableOurAdapters
<1>9. CASE DisableOurAdapters \/ RemoveOurAdapters
  BY <1>9, <1>3 DEF DisableOurAdapters, RemoveOurAdapters
<1>10. CASE Killed \/ MsiEvaluate \/ End \/ OpenDevices \/ IsDriverLoaded \/ AdaptersDisabled
            \/ AdaptersRemoved \/ AdaptersEnabled
  BY <1>10, <1>1, Zenon DEF Killed, MsiEvaluate, End, OpenDevices, IsDriverLoaded,
     AdaptersDisabled, AdaptersRemoved, AdaptersEnabled
<1>11. CASE DriverInfoList \/ RemoveDriver \/ DriverRemoved \/ InstallDriver \/ SetupCopyOEMInf
            \/ UpdateDriverForPlugAndPlayDevices \/ DriverUpdated \/ WriteRegKeys \/ DeleteKey
  BY <1>11, <1>1, Zenon DEF DriverInfoList, RemoveDriver, DriverRemoved, InstallDriver,
     SetupCopyOEMInf, UpdateDriverForPlugAndPlayDevices, DriverUpdated, WriteRegKeys, DeleteKey
<1>12. CASE UNCHANGED vars BY <1>12, <1>1
<1>13. QED BY <1>4, <1>6, <1>7, <1>8, <1>9, <1>10, <1>11, <1>12, Zenon DEF Next

LEMMA SetsStep == ASSUME Sets, [Next]_vars PROVE Sets'
<1> USE DevicesAssumption, PackagesAssumption DEF Sets, Step, Goto, Visited
<1>1. CASE AddAdapter BY <1>1 DEF AddAdapter
<1>2. CASE ToggleAdapter BY <1>2 DEF ToggleAdapter
<1>3. CASE KernelUnloads BY <1>3 DEF KernelUnloads
<1>4. CASE Killed BY <1>4 DEF Killed, Forget
<1>5. CASE MsiEvaluate
  <2>1. \A p, i, a : Request(p, i, a) \in {"install", "uninstall", "skip", "nothing"}
    BY Zenon DEF Request
  <2>2. request' \in {"install", "uninstall", "skip", "nothing"}
    BY <1>5, <2>1 DEF MsiEvaluate
  <2>3. /\ pc = "idle" /\ package' \in Packages
        /\ pc' = IF request' \in {"install", "uninstall"} THEN request' ELSE "ended"
        /\ UNCHANGED <<machine, registry, DeviceInfoSet, before, progress>>
    BY <1>5, Zenon DEF MsiEvaluate
  <2>4. QED BY <2>2, <2>3
<1>6. CASE End BY <1>6 DEF End, Forget
<1>7. CASE OpenDevices BY <1>7 DEF OpenDevices, Abandon
<1>8. CASE IsDriverLoaded
  <2>1. pc = "loaded" /\ pc' \in {"disable", "removeDriver"} /\ UNCHANGED <<present, enabled, driver, store>>
    BY <1>8, Zenon DEF IsDriverLoaded
  <2>2. UNCHANGED <<registry, session, progress>>
    BY <1>8, Zenon DEF IsDriverLoaded
  <2>3. todo' \subseteq DeviceInfoSet'
    BY <2>1, <2>2
  <2>4. QED BY <2>1, <2>2, <2>3
<1>9. CASE DisableOurAdapters BY <1>9 DEF DisableOurAdapters, Recognised, NotRecognised
<1>10. CASE AdaptersDisabled BY <1>10 DEF AdaptersDisabled
<1>11. CASE RemoveOurAdapters BY <1>11 DEF RemoveOurAdapters, Recognised, NotRecognised
<1>12. CASE AdaptersRemoved BY <1>12 DEF AdaptersRemoved
<1>13. CASE EnableOurAdapters
  <2>1. PICK d \in todo : /\ enabled' \in {enabled, enabled \cup {d}}
                          /\ enableFailed' \in {enableFailed, enableFailed \cup {d}}
                          /\ todo' = todo \ {d}
    BY <1>13, Zenon DEF EnableOurAdapters
  <2>2. pc = "enable" /\ UNCHANGED <<present, driver, store, registry, pc, session, ExistingAdapters>>
    BY <1>13, Zenon DEF EnableOurAdapters
  <2>3. d \in ExistingAdapters
    BY <2>1, <2>2
  <2>4. QED BY <2>1, <2>2, <2>3
<1>14. CASE AdaptersEnabled BY <1>14 DEF AdaptersEnabled, Abandon
<1>15. CASE DriverInfoList BY <1>15 DEF DriverInfoList
<1>16. CASE RemoveDriver BY <1>16 DEF RemoveDriver
<1>17. CASE DriverRemoved BY <1>17 DEF DriverRemoved
<1>18. CASE InstallDriver BY <1>18 DEF InstallDriver, EnterEnable
<1>19. CASE SetupCopyOEMInf BY <1>19 DEF SetupCopyOEMInf
<1>20. CASE UpdateDriverForPlugAndPlayDevices
  BY <1>20 DEF UpdateDriverForPlugAndPlayDevices, SetUp
<1>21. CASE DriverUpdated BY <1>21 DEF DriverUpdated, EnterEnable
<1>22. CASE WriteRegKeys BY <1>22 DEF WriteRegKeys, Abandon, AfterValue
<1>23. CASE DeleteKey BY <1>23 DEF DeleteKey, Abandon, NoValues
<1>24. CASE UNCHANGED vars BY <1>24
<1>25. QED
  BY <1>1, <1>2, <1>3, <1>4, <1>5, <1>6, <1>7, <1>8, <1>9, <1>10, <1>11, <1>12, <1>13,
     <1>14, <1>15, <1>16, <1>17, <1>18, <1>19, <1>20, <1>21, <1>22, <1>23, <1>24 DEF Next

\* Types; the list holds adapters of ours that were enabled (TypeOK), for any machine.
THEOREM TypeCorrect == Spec => []TypeOK
<1>1. Init => TypeOK
  BY DevicesAssumption DEF Init, TypeOK, NoValues
<1>2. TypeOK /\ [Next]_vars => TypeOK'
  BY Halves, BitsStep, SetsStep, InKernelStep, Zenon DEF TypeOK, Bits, Sets, InKernel
<1>3. QED BY <1>1, <1>2, PTL DEF Spec

-----------------------------------------------------------------------------
(* The adapters                                                            *)

\* The adapters that the session keeps disabled.
Kept ==
  IF pc = "enable" THEN todo \cup enableFailed
  ELSE IF pc \in Values \cup {"ended"} THEN enableFailed
  ELSE ExistingAdapters

\* Until it enables them, the session keeps exactly the adapters on its list disabled.
AdaptersKept ==
  /\ request = "install" /\ pc # "idle" =>
       \A d \in DeviceInfoSet : d \in enabled <=> d \in before \ Kept
  /\ pc \notin Values \cup {"enable", "ended"} => enableFailed = {}
  /\ pc = "enable" => todo \cap enableFailed = {}
  /\ pc \in {"idle", "install", "loaded"} => ExistingAdapters = {}

LEMMA AdaptersKeptStep == ASSUME Sets, AdaptersKept, [Next]_vars PROVE AdaptersKept'
<1> USE DevicesAssumption DEF Sets, AdaptersKept, Kept, Step, Goto, Visited
<1>1. CASE AddAdapter BY <1>1 DEF AddAdapter
<1>2. CASE ToggleAdapter BY <1>2 DEF ToggleAdapter
<1>3. CASE KernelUnloads BY <1>3 DEF KernelUnloads
<1>4. CASE Killed BY <1>4 DEF Killed, Forget
<1>5. CASE MsiEvaluate
  <2>1. /\ pc = "idle" /\ pc' \in {"install", "uninstall", "ended"}
        /\ UNCHANGED <<machine, registry, DeviceInfoSet, before, progress>>
    BY <1>5 DEF MsiEvaluate
  <2>2. QED BY <2>1
<1>6. CASE End BY <1>6 DEF End, Forget
<1>7. CASE OpenDevices BY <1>7 DEF OpenDevices, Abandon
<1>8. CASE IsDriverLoaded
  <2>1. pc = "loaded" /\ pc' \in {"disable", "removeDriver"} /\ UNCHANGED <<present, enabled, driver, store>>
    BY <1>8, Zenon DEF IsDriverLoaded
  <2>2. UNCHANGED <<registry, session, progress>>
    BY <1>8, Zenon DEF IsDriverLoaded
  <2>3. QED BY <2>1, <2>2
<1>9. CASE DisableOurAdapters BY <1>9 DEF DisableOurAdapters, Recognised, NotRecognised
<1>10. CASE AdaptersDisabled BY <1>10 DEF AdaptersDisabled
<1>11. CASE RemoveOurAdapters BY <1>11 DEF RemoveOurAdapters, Recognised, NotRecognised
<1>12. CASE AdaptersRemoved BY <1>12 DEF AdaptersRemoved
<1>13. CASE EnableOurAdapters
  <2>1. PICK d \in todo :
          /\ \/ enabled' = enabled \cup {d} /\ enableFailed' = enableFailed
             \/ enabled' = enabled /\ enableFailed' = enableFailed \cup {d}
          /\ todo' = todo \ {d}
    BY <1>13, Zenon DEF EnableOurAdapters
  <2>2. pc = "enable" /\ UNCHANGED <<present, driver, store, registry, pc, session, ExistingAdapters>>
    BY <1>13, Zenon DEF EnableOurAdapters
  <2>3. d \in before
    BY <2>1, <2>2
  <2>4. QED BY <2>1, <2>2, <2>3
<1>14. CASE AdaptersEnabled BY <1>14 DEF AdaptersEnabled, Abandon
<1>15. CASE DriverInfoList BY <1>15 DEF DriverInfoList
<1>16. CASE RemoveDriver BY <1>16 DEF RemoveDriver
<1>17. CASE DriverRemoved BY <1>17 DEF DriverRemoved
<1>18. CASE InstallDriver BY <1>18 DEF InstallDriver, EnterEnable
<1>19. CASE SetupCopyOEMInf BY <1>19 DEF SetupCopyOEMInf
<1>20. CASE UpdateDriverForPlugAndPlayDevices BY <1>20 DEF UpdateDriverForPlugAndPlayDevices
<1>21. CASE DriverUpdated BY <1>21 DEF DriverUpdated, EnterEnable
<1>22. CASE WriteRegKeys BY <1>22 DEF WriteRegKeys, Abandon, AfterValue
<1>23. CASE DeleteKey BY <1>23 DEF DeleteKey, Abandon
<1>24. CASE UNCHANGED vars BY <1>24
<1>25. QED
  BY <1>1, <1>2, <1>3, <1>4, <1>5, <1>6, <1>7, <1>8, <1>9, <1>10, <1>11, <1>12, <1>13,
     <1>14, <1>15, <1>16, <1>17, <1>18, <1>19, <1>20, <1>21, <1>22, <1>23, <1>24 DEF Next

\* InstallOrUpdate leaves the adapters as it found them, except those that could not be
\* enabled again (AdaptersAsBefore), wherever it fails.
THEOREM AdaptersRestored == Spec => []AdaptersAsBefore
<1>1. Init => AdaptersKept
  BY DEF Init, AdaptersKept
<1>2. TypeOK /\ AdaptersKept /\ [Next]_vars => AdaptersKept'
  BY Halves, AdaptersKeptStep, Zenon
<1>3. AdaptersKept => AdaptersAsBefore
  BY DEF AdaptersKept, Kept, AdaptersAsBefore
<1>4. QED BY <1>1, <1>2, <1>3, TypeCorrect, PTL DEF Spec

-----------------------------------------------------------------------------
(* The registry and the driver store                                       *)

\* The places of a session at which it has removed no package yet, or is over.
Settled == {"idle", "ended", "install", "uninstall", "loaded", "disable", "removeAdapters", "removeDriver"}

\* The registry is empty or is all of one package, which is in the driver store.
Recorded ==
  \/ registry = NoValues
  \/ \E p \in store : registry = [v \in Values |-> p]

RegistryInv ==
  /\ pc \in Settled => astray \/ Recorded
  /\ pc \in {"update", "enable"} => astray \/ ~Ret \/ package \in store
  /\ pc \in Values => astray \/ package \in store
  /\ pc \in {"InstallerBuildtime", "Version"} => registry.InstallerHash = package
  /\ pc = "Version" => registry.InstallerBuildtime = package
  /\ SkipOnlyIfThere

LEMMA NewerFalse ==
  ASSUME NEW p \in Packages, NEW skip, Sets, Recorded, ~Newer(p, skip)
  PROVE  \E q \in store : q = p \/ Version[q] > Version[p] \/ Time[q] > Time[p]
<1>1. PICK q \in store : registry = [v \in Values |-> q]
  BY DEF Recorded, Newer, NoValues
<1>2. q \in Packages /\ registry.Version = q /\ registry.InstallerBuildtime = q /\ registry.InstallerHash = q
  BY <1>1 DEF Sets
<1>3. \A v \in Values : registry[v] # NoPackage
  BY <1>1, <1>2, PackagesAssumption
<1>4. \/ ~(Version[p] >= Version[q]) \/ ~(Time[p] >= Time[q]) \/ p = q
  BY <1>2, <1>3 DEF Newer
<1>5. QED BY <1>2, <1>4, PackagesAssumption

LEMMA RegistryInvStep == ASSUME Sets, Bits, RegistryInv, [Next]_vars PROVE RegistryInv'
<1> USE DEF Settled, Recorded, RegistryInv, SkipOnlyIfThere, Sets, Step, Goto, Visited, Fails, Works
<1>1. CASE AddAdapter BY <1>1 DEF AddAdapter
<1>2. CASE ToggleAdapter BY <1>2 DEF ToggleAdapter
<1>3. CASE KernelUnloads BY <1>3 DEF KernelUnloads
<1>4. CASE Killed BY <1>4 DEF Killed, Forget
<1>5. CASE MsiEvaluate
  <2>1. PICK p \in Packages :
          /\ pc = "idle" /\ package' = p
          /\ \/ \E i, a : request' = Request(p, i, a)
             \/ flawless' = FALSE
          /\ pc' = IF request' \in {"install", "uninstall"} THEN request' ELSE "ended"
          /\ UNCHANGED <<machine, registry, DeviceInfoSet, before, progress, astray>>
    BY <1>5, Zenon DEF MsiEvaluate
  <2>2. ASSUME NEW i, NEW a, request' = "skip", request' = Request(p, i, a) PROVE ~Newer(p, IsReInstalling(i, a))
    BY <2>2, Zenon DEF Request
  <2>3. pc' \in {"install", "uninstall", "ended"}
    BY <2>1
  <2>4. astray' \/ Recorded'
    BY <2>1
  <2>5. SkipOnlyIfThere'
    <3> SUFFICES ASSUME request' = "skip", flawless', ~astray'
                 PROVE  \E q \in store : q = p \/ Version[q] > Version[p] \/ Time[q] > Time[p]
      BY <2>1
    <3>1. Recorded
      BY <2>1
    <3>2. PICK i, a : request' = Request(p, i, a)
      BY <2>1, Zenon
    <3>3. QED BY <3>1, <3>2, <2>2, NewerFalse, Zenon
  <2>6. QED BY <2>1, <2>3, <2>4, <2>5
<1>6. CASE End BY <1>6 DEF End, Forget
<1>7. CASE OpenDevices BY <1>7 DEF OpenDevices, Abandon
<1>8. CASE IsDriverLoaded BY <1>8 DEF IsDriverLoaded
<1>9. CASE DisableOurAdapters BY <1>9 DEF DisableOurAdapters
<1>10. CASE AdaptersDisabled BY <1>10 DEF AdaptersDisabled
<1>11. CASE RemoveOurAdapters BY <1>11 DEF RemoveOurAdapters
<1>12. CASE AdaptersRemoved BY <1>12 DEF AdaptersRemoved
<1>13. CASE EnableOurAdapters BY <1>13 DEF EnableOurAdapters
<1>14. CASE AdaptersEnabled BY <1>14 DEF AdaptersEnabled, Abandon
<1>15. CASE DriverInfoList BY <1>15 DEF DriverInfoList
<1>16. CASE RemoveDriver BY <1>16 DEF RemoveDriver
<1>17. CASE DriverRemoved BY <1>17 DEF DriverRemoved
<1>18. CASE InstallDriver BY <1>18 DEF InstallDriver, EnterEnable
<1>19. CASE SetupCopyOEMInf BY <1>19 DEF SetupCopyOEMInf
<1>20. CASE UpdateDriverForPlugAndPlayDevices BY <1>20 DEF UpdateDriverForPlugAndPlayDevices
<1>21. CASE DriverUpdated BY <1>21 DEF DriverUpdated, EnterEnable
<1>22. CASE WriteRegKeys BY <1>22 DEF WriteRegKeys, Abandon, AfterValue
<1>23. CASE DeleteKey BY <1>23 DEF DeleteKey, Abandon, NoValues
<1>24. CASE UNCHANGED vars BY <1>24
<1>25. QED
  BY <1>1, <1>2, <1>3, <1>4, <1>5, <1>6, <1>7, <1>8, <1>9, <1>10, <1>11, <1>12, <1>13,
     <1>14, <1>15, <1>16, <1>17, <1>18, <1>19, <1>20, <1>21, <1>22, <1>23, <1>24 DEF Next

\* While registry and driver store have not parted, MsiEvaluate only skips a package that
\* is there or older than one that is (SkipOnlyIfThere).
THEOREM SkipCorrect == Spec => []SkipOnlyIfThere
<1>1. Init => RegistryInv
  BY DEF Init, RegistryInv, SkipOnlyIfThere, Settled, Recorded
<1>2. TypeOK /\ RegistryInv /\ [Next]_vars => RegistryInv'
  BY Halves, RegistryInvStep, Zenon
<1>3. RegistryInv => SkipOnlyIfThere
  BY DEF RegistryInv
<1>4. QED BY <1>1, <1>2, <1>3, TypeCorrect, PTL DEF Spec

-----------------------------------------------------------------------------
(* The package                                                             *)

WasEnabled == before \cap Ours

\* Without a failure every adapter of ours that was enabled is on the list when it is
\* needed, and has the package once its hardware id has been visited.
Updated ==
  request = "install" /\ flawless =>
    /\ pc = "loaded" => WasEnabled \subseteq enabled /\ DeviceInfoSet \subseteq todo
    /\ pc = "disable" => WasEnabled \subseteq ExistingAdapters \cup todo
    /\ pc \in {"removeDriver", "packages", "driver", "copyOEMInf"} => WasEnabled \subseteq ExistingAdapters
    /\ pc \in {"update", "enable", "ended"} \cup Values => package \in store
    /\ pc = "update" => \A d \in WasEnabled : driver[d] = package \/ HardwareId[d] \in todo
    /\ pc \in {"enable", "ended"} \cup Values => \A d \in WasEnabled : driver[d] = package

LEMMA UpdatedStep == ASSUME TypeOK, AdaptersKept, Updated, [Next]_vars PROVE Updated'
<1> USE DevicesAssumption, Halves DEF Sets, AdaptersKept, Kept, Updated, WasEnabled, Step, Goto, Visited, Fails, Works
<1>1. CASE AddAdapter BY <1>1 DEF AddAdapter
<1>2. CASE ToggleAdapter BY <1>2 DEF ToggleAdapter
<1>3. CASE KernelUnloads BY <1>3 DEF KernelUnloads
<1>4. CASE Killed BY <1>4 DEF Killed, Forget
<1>5. CASE MsiEvaluate BY <1>5 DEF MsiEvaluate
<1>6. CASE End BY <1>6 DEF End, Forget
<1>7. CASE OpenDevices BY <1>7 DEF OpenDevices, Abandon
<1>8. CASE IsDriverLoaded BY <1>8 DEF IsDriverLoaded, InKernel
<1>9. CASE DisableOurAdapters
  <2>1. PICK d \in todo :
          /\ \/ flawless' = FALSE
             \/ d \notin Ours \/ d \notin enabled \/ d \in ExistingAdapters'
          /\ ExistingAdapters \subseteq ExistingAdapters'
          /\ todo' = todo \ {d}
    BY <1>9 DEF DisableOurAdapters, Recognised, NotRecognised
  <2>2. pc = "disable" /\ request = "install" /\ pc' = pc /\ UNCHANGED session
    BY <1>9 DEF DisableOurAdapters
  <2>3. flawless' => flawless
    BY <1>9, Zenon DEF DisableOurAdapters, Recognised, NotRecognised
  <2>4. d \in WasEnabled => d \in enabled \/ d \in ExistingAdapters
    BY <2>1, <2>2
  <2>5. flawless' => WasEnabled' \subseteq ExistingAdapters' \cup todo'
    BY <2>1, <2>2, <2>3, <2>4
  <2>6. QED BY <2>2, <2>5
<1>10. CASE AdaptersDisabled BY <1>10 DEF AdaptersDisabled
<1>11. CASE RemoveOurAdapters BY <1>11 DEF RemoveOurAdapters
<1>12. CASE AdaptersRemoved BY <1>12 DEF AdaptersRemoved
<1>13. CASE EnableOurAdapters BY <1>13 DEF EnableOurAdapters
<1>14. CASE AdaptersEnabled BY <1>14 DEF AdaptersEnabled, Abandon
<1>15. CASE DriverInfoList BY <1>15 DEF DriverInfoList
<1>16. CASE RemoveDriver BY <1>16 DEF RemoveDriver
<1>17. CASE DriverRemoved BY <1>17 DEF DriverRemoved
<1>18. CASE InstallDriver BY <1>18 DEF InstallDriver, EnterEnable
<1>19. CASE SetupCopyOEMInf BY <1>19 DEF SetupCopyOEMInf
<1>20. CASE UpdateDriverForPlugAndPlayDevices
  BY <1>20 DEF UpdateDriverForPlugAndPlayDevices, SetUp, Matching
<1>21. CASE DriverUpdated BY <1>21 DEF DriverUpdated, EnterEnable
<1>22. CASE WriteRegKeys
  <2>1. /\ pc \in Values /\ request = "install"
        /\ pc' \in Values \cup {"ended"}
        /\ UNCHANGED <<machine, session, progress>>
    BY <1>22 DEF WriteRegKeys, Abandon, AfterValue
  <2>2. flawless' => flawless
    BY <1>22, Zenon DEF WriteRegKeys
  <2>3. QED BY <2>1, <2>2
<1>23. CASE DeleteKey BY <1>23 DEF DeleteKey, Abandon, NoValues
<1>24. CASE UNCHANGED vars BY <1>24
<1>25. QED
  BY <1>1, <1>2, <1>3, <1>4, <1>5, <1>6, <1>7, <1>8, <1>9, <1>10, <1>11, <1>12, <1>13,
     <1>14, <1>15, <1>16, <1>17, <1>18, <1>19, <1>20, <1>21, <1>22, <1>23, <1>24 DEF Next

\* When no call fails, every adapter that was enabled is brought up to date (UpToDate),
\* although the adapters are only updated if one was disabled.
THEOREM UpdateReaches == Spec => []UpToDate
<1>1. Init => AdaptersKept /\ Updated
  BY DEF Init, AdaptersKept, Updated
<1>2. TypeOK /\ AdaptersKept /\ Updated /\ [Next]_vars => AdaptersKept' /\ Updated'
  BY Halves, AdaptersKeptStep, UpdatedStep, Zenon
<1>3. Updated => UpToDate
  BY DEF Updated, UpToDate, WasEnabled
<1>4. QED BY <1>1, <1>2, <1>3, TypeCorrect, PTL DEF Spec

=============================================================================
