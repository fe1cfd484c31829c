--------------------------- MODULE TapMedia_proofs ---------------------------
(***************************************************************************)
(* Proofs about TapMedia, for any callers and any values they pass.        *)
(***************************************************************************)
EXTENDS TapMedia, TLAPS

-----------------------------------------------------------------------------
(* Types                                                                   *)

\* Every variable has its type: the state asked for is a byte whatever ULONG the ioctl
\* was given.
THEOREM TypeCorrect == Spec => []TypeOK
<1>1. Init => TypeOK
  <2>1. False \in Byte /\ True \in Byte
    BY DEF Byte, False, True
  <2> QED BY <2>1, Zenon DEF Init, TypeOK, Labels, LinkStates
<1>2. TypeOK /\ [Next]_vars => TypeOK'
  <2> SUFFICES ASSUME TypeOK, [Next]_vars PROVE TypeOK'
    OBVIOUS
  <2> USE DEF TypeOK, Labels, LinkStates, Step
  <2>1. ASSUME NEW c \in Callers, NEW u \in Parms, Call(c, u) PROVE TypeOK'
    <3>1. ToBoolean(u) \in Byte
      BY ParmsAssumption DEF ToBoolean, Byte
    <3>2. plain' = (plain /\ ToBoolean(u) \in {False, True} /\ ~Overlaps(c))
      BY <2>1 DEF Call
    <3>3. plain' \in BOOLEAN
      BY <3>2, Zenon
    <3> QED BY <2>1, <3>1, <3>3 DEF Call
  <2>2. ASSUME NEW c \in Callers, DefaultLinkState(c) PROVE TypeOK'
    BY <2>2 DEF DefaultLinkState
  <2>3. ASSUME NEW c \in Callers, Compare(c) PROVE TypeOK'
    BY <2>3 DEF Compare
  <2>4. ASSUME NEW c \in Callers, Assign(c) PROVE TypeOK'
    BY <2>4 DEF Assign
  <2>5. ASSUME NEW c \in Callers, CheckHalted(c) PROVE TypeOK'
    BY <2>5 DEF CheckHalted
  <2>6. ASSUME NEW c \in Callers, Indicate(c) PROVE TypeOK'
    BY <2>6 DEF Indicate
  <2>7. CASE Halt
    BY <2>7 DEF Halt, callVars
  <2>8. CASE UNCHANGED vars
    BY <2>8 DEF vars, callVars
  <2> QED BY <2>1, <2>2, <2>3, <2>4, <2>5, <2>6, <2>7, <2>8 DEF Next
<1> QED BY <1>1, <1>2, PTL DEF Spec

-----------------------------------------------------------------------------
(* Adapters whose media is always connected                                *)

\* No call gets as far as the assignment, so that every indication is of the state
\* that the adapter had from the start.
AlwaysInv ==
  mediaStateAlwaysConnected =>
    /\ logicalMediaState = True
    /\ told = "connected"
    /\ \A c \in Callers :
         /\ pc[c] # "assign"
         /\ pc[c] \in {"compare", "checkHalted", "indicate"} => linkState[c] = "connected"

\* An adapter whose media is always connected stays connected, and the host is never
\* told otherwise: no request of an application changes the state.
THEOREM AlwaysConnectedCorrect == Spec => []AlwaysConnected
<1>1. Init => AlwaysInv
  BY DEF Init, AlwaysInv
<1>2. TypeOK /\ AlwaysInv /\ [Next]_vars => AlwaysInv'
  <2> SUFFICES ASSUME TypeOK, AlwaysInv, [Next]_vars, mediaStateAlwaysConnected'
               PROVE  AlwaysInv'
    BY DEF AlwaysInv
  <2> USE DEF TypeOK, AlwaysInv, Step
  <2>1. ASSUME NEW c \in Callers, NEW u \in Parms, Call(c, u) PROVE AlwaysInv'
    BY <2>1 DEF Call
  <2>2. ASSUME NEW c \in Callers, DefaultLinkState(c) PROVE AlwaysInv'
    BY <2>2 DEF DefaultLinkState
  <2>3. ASSUME NEW c \in Callers, Compare(c) PROVE AlwaysInv'
    BY <2>3 DEF Compare
  <2>4. ASSUME NEW c \in Callers, Assign(c) PROVE AlwaysInv'
    BY <2>4 DEF Assign
  <2>5. ASSUME NEW c \in Callers, CheckHalted(c) PROVE AlwaysInv'
    BY <2>5 DEF CheckHalted
  <2>6. ASSUME NEW c \in Callers, Indicate(c) PROVE AlwaysInv'
    BY <2>6 DEF Indicate
  <2>7. CASE Halt
    BY <2>7 DEF Halt, callVars
  <2>8. CASE UNCHANGED vars
    BY <2>8 DEF vars, callVars
  <2> QED BY <2>1, <2>2, <2>3, <2>4, <2>5, <2>6, <2>7, <2>8 DEF Next
<1>3. AlwaysInv => AlwaysConnected
  BY DEF AlwaysInv, AlwaysConnected, Connected, True, False
<1> QED BY <1>1, <1>2, <1>3, TypeCorrect, PTL DEF Spec

-----------------------------------------------------------------------------
(* Calls that do not overlap                                               *)

\* While calls do not overlap and pass only FALSE and TRUE, one thread at most is in
\* the function, the host has been told of the state up to the assignment, and the
\* indication under way is of the state from the comparison on, save for the moment
\* before the assignment.
PlainInv ==
  plain =>
    /\ logicalMediaState \in {False, True}
    /\ \A c, d \in Callers : pc[c] # "idle" /\ pc[d] # "idle" => c = d
    /\ \A c \in Callers : pc[c] # "idle" => parm[c] \in {False, True}
    /\ \A c \in Callers : pc[c] \in {"compare", "checkHalted", "indicate"} =>
         (linkState[c] = "connected" <=> logicalMediaState = True)
    /\ ~halted /\ (\A c \in Callers : pc[c] \notin {"checkHalted", "indicate"}) =>
         (told = "connected" <=> logicalMediaState = True)

\* With calls that do not overlap and pass FALSE or TRUE, the host believes the link
\* is up exactly when the driver takes frames.
THEOREM AgreesWhenPlainCorrect == Spec => []AgreesWhenPlain
<1>1. Init => PlainInv
  BY DEF Init, PlainInv, False, True
<1>2. TypeOK /\ PlainInv /\ [Next]_vars => PlainInv'
  <2> SUFFICES ASSUME TypeOK, PlainInv, [Next]_vars, plain' PROVE PlainInv'
    BY DEF PlainInv
  <2> USE DEF TypeOK, Labels, LinkStates, PlainInv, Step, False, True
  <2>1. ASSUME NEW c \in Callers, NEW u \in Parms, Call(c, u) PROVE PlainInv'
    <3>1. plain /\ ToBoolean(u) \in {False, True} /\ \A d \in Callers : pc[d] = "idle"
      BY <2>1 DEF Call, Overlaps
    <3> QED BY <2>1, <3>1 DEF Call
  <2>2. ASSUME NEW c \in Callers, DefaultLinkState(c) PROVE PlainInv'
    BY <2>2 DEF DefaultLinkState
  <2>3. ASSUME NEW c \in Callers, Compare(c) PROVE PlainInv'
    BY <2>3 DEF Compare
  <2>4. ASSUME NEW c \in Callers, Assign(c) PROVE PlainInv'
    BY <2>4 DEF Assign
  <2>5. ASSUME NEW c \in Callers, CheckHalted(c) PROVE PlainInv'
    BY <2>5 DEF CheckHalted
  <2>6. ASSUME NEW c \in Callers, Indicate(c) PROVE PlainInv'
    BY <2>6 DEF Indicate
  <2>7. CASE Halt
    BY <2>7 DEF Halt, callVars
  <2>8. CASE UNCHANGED vars
    BY <2>8 DEF vars, callVars
  <2> QED BY <2>1, <2>2, <2>3, <2>4, <2>5, <2>6, <2>7, <2>8 DEF Next
<1>3. PlainInv => AgreesWhenPlain
  BY DEF PlainInv, AgreesWhenPlain, Quiet, Connected, True, False
<1> QED BY <1>1, <1>2, <1>3, TypeCorrect, PTL DEF Spec
=============================================================================
