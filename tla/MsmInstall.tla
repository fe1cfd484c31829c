------------------------------ MODULE MsmInstall ------------------------------
(***************************************************************************)
(* The installer library (msm/installation.c) and its calls by Windows     *)
(* Installer (msm/msi.c): MsiEvaluate decides by the registry whether the  *)
(* driver package is to be installed or uninstalled, and MsiProcess does   *)
(* it, with every call to Windows one step that may fail.                  *)
(*                                                                         *)
(* Sessions come one after the other (Windows Installer runs one at a      *)
(* time), but applications may add adapters during them, and a session may *)
(* be killed at any step.  Left out: the temporary copies of the package,  *)
(* the code signing certificate, the request to reboot, and the log.       *)
(***************************************************************************)
EXTENDS Naturals

CONSTANTS
  Devices,     \* network adapters,
  Ours,        \* those with one of the hardware ids of the driver,
  HardwareId,  \* and which
  Packages,    \* driver packages, each known by its InstallerHash,
  Time,        \* the InstallerBuildtime of each,
  Version,     \* and its version
  NoPackage

HwID == {"root_tap0901", "tap0901"}
Values == {"InstallerHash", "InstallerBuildtime", "Version"}

ASSUME DevicesAssumption == Ours \subseteq Devices /\ HardwareId \in [Ours -> HwID]

ASSUME PackagesAssumption ==
  /\ Time \in [Packages -> Nat] /\ Version \in [Packages -> Nat]
  /\ NoPackage \notin Packages

VARIABLES
  present,           \* the adapters of the machine,
  enabled,           \* those that are enabled,
  driver,            \* and the package each adapter of ours was set up with
  loaded,            \* whether the driver is in the kernel
  store,             \* the packages of ours in the driver store
  registry,          \* the package each value of the registry key is of
  pc,                \* where the session is,
  request,           \* what it is for,
  package,           \* the package it brings,
  DeviceInfoSet,     \* the adapters it found present,
  ExistingAdapters,  \* the list of those it disabled,
  todo,              \* what its loop has still to visit,
  Ret,               \* and what it returns
  before,            \* history: the adapters enabled when it began,
  enableFailed,      \* those it could not enable again,
  flawless,          \* whether no call of it has failed,
  astray             \* and whether registry and driver store may have parted: a session
                     \* was killed, failed, or did not notice a call that failed, since
                     \* the last one that set both

machine == <<present, enabled, driver, loaded, store>>
session == <<request, package, DeviceInfoSet, before>>
progress == <<ExistingAdapters, todo, Ret, enableFailed>>
vars == <<machine, registry, pc, session, progress, flawless, astray>>

NoValues == [v \in Values |-> NoPackage]

Goto(label) == pc' = label
Step(from, to) == pc = from /\ Goto(to)

Fails == flawless' = FALSE
Works == UNCHANGED flawless

-----------------------------------------------------------------------------
(* Windows and its other users                                             *)

AddAdapter == \E d \in Ours \ present, p \in store :
  /\ present' = present \cup {d}
  /\ enabled' = enabled \cup {d}
  /\ driver' = [driver EXCEPT ![d] = p]
  /\ loaded' = TRUE
  /\ UNCHANGED <<store, registry, pc, session, progress, flawless, astray>>

\* The user may enable and disable adapters between sessions.
ToggleAdapter == \E d \in present :
  /\ pc = "idle"
  /\ \/ d \in enabled /\ enabled' = enabled \ {d} /\ UNCHANGED loaded
     \/ /\ d \notin enabled /\ enabled' = enabled \cup {d}
        /\ IF d \in Ours THEN loaded' = TRUE ELSE UNCHANGED loaded
  /\ UNCHANGED <<present, driver, store, registry, pc, session, progress, flawless, astray>>

KernelUnloads ==
  /\ enabled \cap Ours = {}
  /\ loaded' = FALSE
  /\ UNCHANGED <<present, enabled, driver, store, registry, pc, session, progress, flawless, astray>>

\* What a session knows is gone with its process.
Forget ==
  /\ request' = "nothing" /\ package' = NoPackage
  /\ DeviceInfoSet' = {} /\ before' = {} /\ ExistingAdapters' = {} /\ todo' = {}
  /\ Ret' = FALSE /\ enableFailed' = {} /\ flawless' = TRUE

\* A session is killed, or the machine loses power.
Killed ==
  /\ pc \notin {"idle", "ended"}
  /\ Goto("idle")
  /\ Forget
  /\ astray' = TRUE
  /\ UNCHANGED <<machine, registry>>

-----------------------------------------------------------------------------
(* MsiEvaluate                                                             *)

Installed == {"local", "source"}

IsInstalling(installState, actionState) ==
  actionState \in Installed \/ (actionState = "default" /\ installState \in Installed)

IsReInstalling(installState, actionState) ==
  actionState \in Installed \cup {"default"} /\ installState \in Installed

IsUninstalling(installState, actionState) ==
  actionState \in {"absent", "removed"} /\ installState \in Installed

\* Mutant: a package of the same version is not newer.
NewerVersionOnly(p, skipHashComparison) ==
  \/ \E v \in Values : registry[v] = NoPackage
  \/ /\ Version[p] > Version[registry.Version]
     /\ Time[p] >= Time[registry.InstallerBuildtime]
     /\ skipHashComparison \/ p # registry.InstallerHash

\* A missing value counts as older.
Newer(p, skipHashComparison) ==
  \/ \E v \in Values : registry[v] = NoPackage
  \/ /\ Version[p] >= Version[registry.Version]
     /\ Time[p] >= Time[registry.InstallerBuildtime]
     /\ skipHashComparison \/ p # registry.InstallerHash

Request(p, installState, actionState) ==
  IF IsReInstalling(installState, actionState) \/ IsInstalling(installState, actionState)
    THEN IF Newer(p, IsReInstalling(installState, actionState)) THEN "install" ELSE "skip"
  ELSE IF IsUninstalling(installState, actionState) THEN "uninstall" ELSE "nothing"

\* The states of the component are those of Windows Installer.  A property of the
\* package that cannot be read makes Newer FALSE.
MsiEvaluate == \E p \in Packages :
  /\ pc = "idle"
  /\ package' = p
  /\ \/ /\ \E installState \in Installed \cup {"absent"},
             actionState \in Installed \cup {"default", "absent", "removed", "unknown"} :
             request' = Request(p, installState, actionState)
        /\ Works
     \/ request' = "skip" /\ Fails
  /\ Goto(IF request' \in {"install", "uninstall"} THEN request' ELSE "ended")
  /\ UNCHANGED <<machine, registry, DeviceInfoSet, before, progress, astray>>

\* The session ends, whether MsiProcess had anything to do or not.
End ==
  /\ Step("ended", "idle")
  /\ Forget
  /\ UNCHANGED <<machine, registry, astray>>

\* MsiProcess fails.
Abandon == Goto("ended") /\ astray' = TRUE

-----------------------------------------------------------------------------
(* InstallOrUpdate and Uninstall: the adapters                             *)

\* SetupDiGetClassDevsEx
OpenDevices ==
  /\ pc \in {"install", "uninstall"}
  /\ \/ /\ Fails /\ Abandon
        /\ UNCHANGED <<session, progress>>
     \/ /\ Works
        /\ Goto(IF pc = "install" THEN "loaded" ELSE "removeAdapters")
        /\ DeviceInfoSet' = present
        /\ before' = enabled
        /\ todo' = present
        /\ UNCHANGED <<request, package, ExistingAdapters, Ret, enableFailed, astray>>
  /\ UNCHANGED <<machine, registry>>

\* The drivers of the kernel cannot always be listed: then ours is not found.
IsDriverLoaded ==
  /\ \/ Step("loaded", IF loaded THEN "disable" ELSE "removeDriver") /\ Works
     \/ Step("loaded", "removeDriver") /\ Fails
  /\ UNCHANGED <<machine, registry, session, progress, astray>>

Visited(d) == todo' = todo \ {d}

\* IsOurAdapter, whose calls may fail too.
Recognised(d) == d \in Ours /\ Works
NotRecognised(d) == IF d \in Ours THEN Fails ELSE Works

\* Mutant: adapters that are disabled already are listed as well.
DisableEvenDisabled == \E d \in todo :
  /\ pc = "disable"
  /\ \/ /\ NotRecognised(d)
        /\ UNCHANGED <<enabled, ExistingAdapters>>
     \/ /\ Recognised(d)
        /\ enabled' = enabled \ {d}
        /\ ExistingAdapters' = ExistingAdapters \cup {d}
     \/ /\ d \in enabled /\ d \in Ours /\ Fails
        /\ UNCHANGED <<enabled, ExistingAdapters>>
  /\ Visited(d)
  /\ UNCHANGED <<present, driver, loaded, store, registry, pc, session, Ret, enableFailed, astray>>

\* One turn of the loop of DisableOurAdapters; its value is not used.
DisableOurAdapters == \E d \in todo :
  /\ pc = "disable"
  /\ \/ /\ NotRecognised(d)
        /\ UNCHANGED <<enabled, ExistingAdapters>>
     \/ /\ Recognised(d) /\ d \notin enabled
        /\ UNCHANGED <<enabled, ExistingAdapters>>
     \/ /\ Recognised(d) /\ d \in enabled
        /\ enabled' = enabled \ {d}
        /\ ExistingAdapters' = ExistingAdapters \cup {d}
     \/ /\ d \in enabled /\ d \in Ours /\ Fails
        /\ UNCHANGED <<enabled, ExistingAdapters>>
  /\ Visited(d)
  /\ UNCHANGED <<present, driver, loaded, store, registry, pc, session, Ret, enableFailed, astray>>

\* The loop ends, early when there is no memory for a node.  EnsureDriverUnloaded waits
\* for KernelUnloads, but not for ever.
AdaptersDisabled ==
  /\ Step("disable", "removeDriver")
  /\ todo' = {}
  /\ IF todo = {} THEN Works ELSE Fails
  /\ UNCHANGED <<machine, registry, session, ExistingAdapters, Ret, enableFailed, astray>>

RemoveOurAdapters == \E d \in todo :
  /\ pc = "removeAdapters"
  /\ \/ NotRecognised(d) /\ UNCHANGED <<present, enabled>>
     \/ /\ Recognised(d)
        /\ present' = present \ {d}
        /\ enabled' = enabled \ {d}
     \/ d \in Ours /\ Fails /\ UNCHANGED <<present, enabled>>
  /\ Visited(d)
  /\ UNCHANGED <<driver, loaded, store, registry, pc, session, ExistingAdapters, Ret, enableFailed, astray>>

AdaptersRemoved ==
  /\ Step("removeAdapters", "removeDriver")
  /\ todo = {}
  /\ UNCHANGED <<machine, registry, session, progress, flawless, astray>>

EnableOurAdapters == \E d \in todo :
  /\ pc = "enable"
  /\ \/ /\ Works
        /\ enabled' = enabled \cup {d}
        /\ loaded' = TRUE
        /\ UNCHANGED enableFailed
     \/ /\ Fails
        /\ enableFailed' = enableFailed \cup {d}
        /\ UNCHANGED <<enabled, loaded>>
  /\ Visited(d)
  /\ UNCHANGED <<present, driver, store, registry, pc, session, ExistingAdapters, Ret, astray>>

AdaptersEnabled ==
  /\ pc = "enable" /\ todo = {}
  /\ IF Ret THEN Goto("InstallerHash") /\ UNCHANGED astray ELSE Abandon
  /\ UNCHANGED <<machine, registry, session, progress, flawless>>

-----------------------------------------------------------------------------
(* RemoveDriver and InstallDriver: the driver store                        *)

\* Windows keeps a package that a present adapter was set up with.
InUse(p) == \E d \in present \cap Ours : driver[d] = p

DriverInfoList ==
  /\ pc = "removeDriver"
  /\ \/ Works /\ Goto("packages") /\ todo' = store /\ Ret' = TRUE
     \/ /\ Fails /\ Ret' = FALSE /\ todo' = {}
        /\ Goto(IF request = "install" THEN "driver" ELSE "deleteKey")
  /\ UNCHANGED <<machine, registry, session, ExistingAdapters, enableFailed, astray>>

RemoveDriver == \E p \in todo :
  /\ pc = "packages"
  /\ \/ ~InUse(p) /\ Works /\ store' = store \ {p} /\ UNCHANGED Ret
     \/ (IF InUse(p) THEN Works ELSE Fails) /\ Ret' = FALSE /\ UNCHANGED store
  /\ Visited(p)
  /\ UNCHANGED <<present, enabled, driver, loaded, registry, pc, session,
                 ExistingAdapters, enableFailed, astray>>

\* The enumeration ends, early when one of its calls fails; Ret is as it is.
DriverRemoved ==
  /\ Step("packages", IF request = "install" THEN "driver" ELSE "deleteKey")
  /\ todo' = {}
  /\ IF todo = {} THEN Works ELSE Fails
  /\ UNCHANGED <<machine, registry, session, ExistingAdapters, Ret, enableFailed, astray>>

EnterEnable == Goto("enable") /\ todo' = ExistingAdapters

\* Up to SetupCopyOEMInf: the directory cannot be made or a file cannot be copied, or
\* a path cannot be put together once the directory is there, which is not noticed: the
\* session goes on and succeeds with the old packages removed and none installed.
InstallDriver ==
  /\ pc = "driver"
  /\ \/ Fails /\ EnterEnable /\ Ret' = FALSE /\ UNCHANGED astray
     \/ Fails /\ EnterEnable /\ Ret' = TRUE /\ astray' = TRUE
     \/ Works /\ Goto("copyOEMInf") /\ UNCHANGED <<todo, Ret, astray>>
  /\ UNCHANGED <<machine, registry, session, ExistingAdapters, enableFailed>>

\* The update is tried even if this fails.
SetupCopyOEMInf ==
  /\ Step("copyOEMInf", "update")
  /\ \/ Works /\ Ret' = TRUE /\ store' = store \cup {package} /\ astray' = FALSE
     \/ Fails /\ Ret' = FALSE /\ UNCHANGED <<store, astray>>
  /\ todo' = IF ExistingAdapters # {} THEN HwID ELSE {}
  /\ UNCHANGED <<present, enabled, driver, loaded, registry, session, ExistingAdapters, enableFailed>>

Matching(id) == {d \in present \cap Ours : HardwareId[d] = id}

SetUp(adapters) == driver' = [d \in Ours |-> IF d \in adapters THEN package ELSE driver[d]]

\* Mutant: the adapters with a "root\" hardware id are forgotten.
UpdatePlainOnly == \E id \in todo :
  /\ pc = "update"
  /\ \/ Matching(id) = {} /\ Works /\ UNCHANGED <<driver, store>>
     \/ /\ Matching(id) # {} /\ Works
        /\ SetUp(Matching("tap0901"))
        /\ store' = store \cup {package}
     \/ Matching(id) # {} /\ Fails /\ UNCHANGED <<driver, store>>
  /\ Visited(id)
  /\ UNCHANGED <<present, enabled, loaded, registry, pc, session, ExistingAdapters, Ret, enableFailed, astray>>

\* The package goes to the driver store with the update of an adapter.
UpdateDriverForPlugAndPlayDevices == \E id \in todo :
  /\ pc = "update"
  /\ \/ Matching(id) = {} /\ Works /\ UNCHANGED <<driver, store>>
     \/ /\ Matching(id) # {} /\ Works
        /\ SetUp(Matching(id))
        /\ store' = store \cup {package}
     \/ Matching(id) # {} /\ Fails /\ UNCHANGED <<driver, store>>
  /\ Visited(id)
  /\ UNCHANGED <<present, enabled, loaded, registry, pc, session, ExistingAdapters, Ret, enableFailed, astray>>

DriverUpdated ==
  /\ pc = "update" /\ todo = {}
  /\ EnterEnable
  /\ UNCHANGED <<machine, registry, session, ExistingAdapters, Ret, enableFailed, flawless, astray>>

-----------------------------------------------------------------------------
(* MsiProcess: the registry                                                *)

AfterValue == [InstallerHash |-> "InstallerBuildtime", InstallerBuildtime |-> "Version",
               Version |-> "ended"]

\* One value of WriteRegKeys; the key may not be there to be written to either.
WriteRegKeys ==
  /\ pc \in Values
  /\ \/ /\ Works
        /\ registry' = [registry EXCEPT ![pc] = package]
        /\ Goto(AfterValue[pc]) /\ UNCHANGED astray
     \/ Fails /\ Abandon /\ UNCHANGED registry
  /\ UNCHANGED <<machine, session, progress>>

\* Whether the key could be deleted is not looked at: MsiProcess succeeds then too.
DeleteKey ==
  /\ pc = "deleteKey"
  /\ \/ ~Ret /\ Works /\ Abandon /\ UNCHANGED registry
     \/ Ret /\ Works /\ Goto("ended") /\ registry' = NoValues /\ astray' = FALSE
     \/ Ret /\ Fails /\ Goto("ended") /\ UNCHANGED registry /\ astray' = TRUE
  /\ UNCHANGED <<machine, session, progress>>

-----------------------------------------------------------------------------
Init ==
  /\ present = Devices \ Ours
  /\ enabled \in SUBSET (Devices \ Ours)
  /\ driver = [d \in Ours |-> NoPackage]
  /\ loaded = FALSE
  /\ store = {}
  /\ registry = NoValues
  /\ pc = "idle" /\ request = "nothing" /\ package = NoPackage
  /\ DeviceInfoSet = {} /\ before = {} /\ ExistingAdapters = {} /\ todo = {}
  /\ Ret = FALSE /\ enableFailed = {}
  /\ flawless = TRUE /\ astray = FALSE

Next ==
  \/ AddAdapter \/ ToggleAdapter \/ KernelUnloads \/ Killed
  \/ MsiEvaluate \/ End
  \/ OpenDevices \/ IsDriverLoaded
  \/ DisableOurAdapters \/ AdaptersDisabled
  \/ RemoveOurAdapters \/ AdaptersRemoved
  \/ EnableOurAdapters \/ AdaptersEnabled
  \/ DriverInfoList \/ RemoveDriver \/ DriverRemoved
  \/ InstallDriver \/ SetupCopyOEMInf
  \/ UpdateDriverForPlugAndPlayDevices \/ DriverUpdated
  \/ WriteRegKeys \/ DeleteKey

Spec == Init /\ [][Next]_vars

-----------------------------------------------------------------------------
(* Correctness                                                             *)

Installing == {"install", "loaded", "disable", "driver", "copyOEMInf", "update", "enable"} \cup Values
Uninstalling == {"uninstall", "removeAdapters", "deleteKey"}
Labels == {"idle", "ended", "removeDriver", "packages"} \cup Installing \cup Uninstalling

\* Types; only an adapter of ours is on the list of those that were disabled
\* (DisableOurAdapters), it is there and was enabled, and while the driver is enabled for
\* an adapter it is in the kernel.
TypeOK ==
  /\ present \subseteq Devices /\ enabled \subseteq present
  /\ driver \in [Ours -> Packages \cup {NoPackage}]
  /\ loaded \in BOOLEAN /\ (enabled \cap Ours # {} => loaded)
  /\ store \subseteq Packages
  /\ registry \in [Values -> Packages \cup {NoPackage}]
  /\ pc \in Labels
  /\ request \in {"install", "uninstall", "skip", "nothing"}
  /\ package \in Packages \cup {NoPackage} /\ (pc # "idle" => package # NoPackage)
  /\ pc \in Installing => request = "install"
  /\ pc \in Uninstalling => request = "uninstall"
  /\ pc \in {"removeDriver", "packages"} => request \in {"install", "uninstall"}
  /\ DeviceInfoSet \subseteq Devices /\ (request = "install" => DeviceInfoSet \subseteq present)
  /\ pc \in {"idle", "install", "uninstall"} => DeviceInfoSet = {}
  /\ before \subseteq DeviceInfoSet
  /\ ExistingAdapters \subseteq before \cap Ours
  /\ enableFailed \subseteq ExistingAdapters
  /\ Ret \in BOOLEAN /\ flawless \in BOOLEAN /\ astray \in BOOLEAN
  /\ pc \in {"loaded", "disable", "removeAdapters"} => todo \subseteq DeviceInfoSet
  /\ pc = "packages" => todo \subseteq Packages
  /\ pc = "update" => todo \subseteq HwID
  /\ pc = "enable" => todo \subseteq ExistingAdapters

\* InstallOrUpdate, whether it succeeds or fails and wherever it fails, leaves every
\* adapter it found enabled or disabled as it found it; only an adapter that it disabled
\* and that Windows refuses to enable again stays disabled.
AdaptersAsBefore ==
  pc = "ended" /\ request = "install" =>
    \A d \in DeviceInfoSet : d \in enabled <=> d \in before \ enableFailed

\* When no call fails, an installation brings the package to the driver store and to
\* every adapter that was enabled, of either hardware id, although it updates the
\* adapters only if it disabled one (InstallDriver).  Adapters that are added meanwhile
\* may have been set up with the old package.
UpToDate ==
  pc = "ended" /\ request = "install" /\ flawless =>
    package \in store /\ \A d \in before \cap Ours : driver[d] = package

\* As long as registry and driver store have not parted, MsiEvaluate only skips a package
\* that is in the driver store or older than one that is, by its version or by its build
\* time.  They may have parted if a session was killed, failed, or succeeded without
\* noticing a failure, of PathCombine in InstallDriver or of RegDeleteKeyEx in MsiProcess,
\* since the last one that set both.
SkipOnlyIfThere ==
  pc = "ended" /\ request = "skip" /\ flawless /\ ~astray =>
    \E p \in store : p = package \/ Version[p] > Version[package] \/ Time[p] > Time[package]
=============================================================================
