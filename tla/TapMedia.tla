------------------------------- MODULE TapMedia -------------------------------
(***************************************************************************)
(* The logical media state of the adapter and what the host is told of it. *)
(* tapSetMediaConnectStatus is called by the application that has the TAP  *)
(* device open, by applications that have the diagnostic device open, and  *)
(* by TapDeviceCleanup, without a lock over the state and the indication.  *)
(*                                                                         *)
(* Every access to LogicalMediaState and every indication is a step.       *)
(***************************************************************************)
EXTENDS Naturals

CONSTANTS
  Callers,  \* threads that call tapSetMediaConnectStatus
  Parms     \* the ULONGs they are given

ASSUME ParmsAssumption == Parms \subseteq Nat

\* A BOOLEAN is a byte that holds FALSE or TRUE, or what a cast makes of a ULONG.
False == 0
True == 1
Byte == 0 .. 255
ToBoolean(u) == u % 256

VARIABLES
  mediaStateAlwaysConnected, \* the adapter's advanced property, read once
  logicalMediaState,  \* Adapter->LogicalMediaState
  halted,             \* AdapterState is MiniportHaltedState
  told,               \* the link state last indicated to the host
  pc,                 \* where each caller is
  parm,               \* the state it asks for
  linkState,          \* the MediaConnectState of its indication
  plain               \* history: calls have not overlapped, nor passed a byte but 0 and 1

callVars == <<pc, parm, linkState>>
vars == <<mediaStateAlwaysConnected, logicalMediaState, halted, told, callVars, plain>>

Step(c, from, to) == pc[c] = from /\ pc' = [pc EXCEPT ![c] = to]

\* The driver takes frames for any state but 0 (tapAdapterReadAndWriteReady,
\* tapAdapterSendAndReceiveReady).
Connected == logicalMediaState # False

-----------------------------------------------------------------------------
\* SET_MEDIA_STATUS of either device, or the cleanup of the TAP device.
Overlaps(c) == \E d \in Callers \ {c} : pc[d] # "idle"

Call(c, u) ==
  /\ Step(c, "idle", "default")
  /\ parm' = [parm EXCEPT ![c] = ToBoolean(u)]
  /\ plain' = (plain /\ ToBoolean(u) \in {False, True} /\ ~Overlaps(c))
  /\ UNCHANGED <<mediaStateAlwaysConnected, logicalMediaState, halted, told, linkState>>

\* The indication is zeroed, which is "unknown", and filled in if connected.
DefaultLinkState(c) ==
  /\ Step(c, "default", "compare")
  /\ linkState' =
       [linkState EXCEPT ![c] = IF logicalMediaState = True THEN "connected" ELSE "unknown"]
  /\ UNCHANGED <<mediaStateAlwaysConnected, logicalMediaState, halted, told, parm, plain>>

\* Mutant: an always connected adapter can be disconnected.
CompareAlways(c) ==
  /\ pc[c] = "compare"
  /\ pc' = [pc EXCEPT ![c] =
              IF logicalMediaState # parm[c] THEN "assign" ELSE "checkHalted"]
  /\ UNCHANGED <<mediaStateAlwaysConnected, logicalMediaState, halted, told, parm, linkState,
                 plain>>

Compare(c) ==
  /\ pc[c] = "compare"
  /\ pc' = [pc EXCEPT ![c] =
              IF logicalMediaState # parm[c] /\ ~mediaStateAlwaysConnected
              THEN "assign" ELSE "checkHalted"]
  /\ UNCHANGED <<mediaStateAlwaysConnected, logicalMediaState, halted, told, parm, linkState,
                 plain>>

\* Mutant: the indication is filled in for connecting only.
AssignConnected(c) ==
  /\ Step(c, "assign", "checkHalted")
  /\ logicalMediaState' = parm[c]
  /\ linkState' = IF parm[c] = True THEN [linkState EXCEPT ![c] = "connected"] ELSE linkState
  /\ UNCHANGED <<mediaStateAlwaysConnected, halted, told, parm, plain>>

Assign(c) ==
  /\ Step(c, "assign", "checkHalted")
  /\ logicalMediaState' = parm[c]
  /\ linkState' =
       [linkState EXCEPT ![c] = IF parm[c] = True THEN "connected" ELSE "disconnected"]
  /\ UNCHANGED <<mediaStateAlwaysConnected, halted, told, parm, plain>>

\* No indication is made for an adapter that is halted by now.
CheckHalted(c) ==
  /\ pc[c] = "checkHalted"
  /\ pc' = [pc EXCEPT ![c] = IF halted THEN "idle" ELSE "indicate"]
  /\ UNCHANGED <<mediaStateAlwaysConnected, logicalMediaState, halted, told, parm, linkState,
                 plain>>

\* NdisMIndicateStatusEx
Indicate(c) ==
  /\ Step(c, "indicate", "idle")
  /\ told' = linkState[c]
  /\ UNCHANGED <<mediaStateAlwaysConnected, logicalMediaState, halted, parm, linkState, plain>>

\* AdapterHalt
Halt ==
  /\ ~halted
  /\ halted' = TRUE
  /\ UNCHANGED <<mediaStateAlwaysConnected, logicalMediaState, told, callVars, plain>>

-----------------------------------------------------------------------------
\* tapReadConfiguration, and the general attributes set by AdapterCreate.
Init ==
  /\ mediaStateAlwaysConnected \in BOOLEAN
  /\ logicalMediaState = IF mediaStateAlwaysConnected THEN True ELSE False
  /\ told = IF mediaStateAlwaysConnected THEN "connected" ELSE "disconnected"
  /\ halted = FALSE
  /\ pc = [c \in Callers |-> "idle"]
  /\ parm = [c \in Callers |-> False]
  /\ linkState = [c \in Callers |-> "unknown"]
  /\ plain = TRUE

Next ==
  \/ Halt
  \/ \E c \in Callers :
       \/ \E u \in Parms : Call(c, u)
       \/ DefaultLinkState(c) \/ Compare(c) \/ Assign(c) \/ CheckHalted(c) \/ Indicate(c)

Spec == Init /\ [][Next]_vars

-----------------------------------------------------------------------------
(* Correctness                                                             *)

Labels == {"idle", "default", "compare", "assign", "checkHalted", "indicate"}
LinkStates == {"unknown", "connected", "disconnected"}

\* The type of every variable.
TypeOK ==
  /\ mediaStateAlwaysConnected \in BOOLEAN
  /\ logicalMediaState \in Byte
  /\ halted \in BOOLEAN
  /\ told \in LinkStates
  /\ pc \in [Callers -> Labels]
  /\ parm \in [Callers -> Byte]
  /\ linkState \in [Callers -> LinkStates]
  /\ plain \in BOOLEAN

Quiet == \A c \in Callers : pc[c] = "idle"

\* As long as calls do not overlap, pass only 0 and 1 and find the adapter not
\* halted, the host believes the link is up exactly when the driver takes frames,
\* after any sequence of calls.
AgreesWhenPlain ==
  plain /\ ~halted /\ Quiet => (told = "connected" <=> Connected)

\* An adapter whose media is always connected stays so and never tells the host
\* otherwise, whatever the applications ask for and however their calls race.
AlwaysConnected == mediaStateAlwaysConnected => Connected /\ told = "connected"

\* "Tell Windows whether the TAP device should be considered "connected" or
\* "disconnected"" (tapSetMediaConnectStatus) asks for more: that with no call running
\* what Windows was told is what the driver goes by.  Calls that race and values other
\* than FALSE and TRUE both break it, which is why AgreesWhenPlain excludes them.
MediaAgrees == ~halted /\ Quiet => (told = "connected" <=> Connected)
=============================================================================
