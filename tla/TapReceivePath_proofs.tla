----------------------- MODULE TapReceivePath_proofs -----------------------
(***************************************************************************)
(* Proofs about TapReceivePath, for any number of writes, threads and      *)
(* NBLs.                                                                   *)
(***************************************************************************)
EXTENDS TapReceivePath, FiniteSetTheorems, TLAPS

\* The steps of AdapterPause, AdapterRestart and the device file leave the NBLs
\* and the threads that work on them alone.
OtherStep ==
  \/ PauseBegin \/ PauseStep \/ RestartBegin \/ RestartEnd
  \/ Open \/ Cleanup \/ Close \/ SetLink \/ UNCHANGED vars

\* Every variable keeps its type.
THEOREM TypesCorrect == Spec => []Types
<1> USE ThreadsAssumption, NblsAssumption
        DEF Threads, Sources, SourceLabels, ReturnerLabels, PauserLabels, NblStates
<1>1. Init => Types
  <2> SUFFICES ASSUME Init PROVE Types
    OBVIOUS
  <2>1. EnvTypes
    BY DEF Init, EnvTypes
  <2>2. NblTypes
    BY DEF Init, NblTypes
  <2>3. PcTypes
    BY DEF Init, PcTypes
  <2>4. receiveNblInFlightCount \in Int
    BY DEF Init
  <2> QED
    BY <2>1, <2>2, <2>3, <2>4 DEF Types
<1>2. Types /\ [Next]_vars => Types'
  <2> SUFFICES ASSUME Types, [Next]_vars PROVE Types'
    OBVIOUS
  <2> USE DEF Goto, Step, Move, envVars, countVars, nblVars
  <2>1. EnvTypes'
    <3>1. /\ adapterState' \in {adapterState, "running", "pausing", "paused", "restarting"}
          /\ fileState' \in {fileState, "closed", "open", "cleaned"}
      BY DEF WriteReady, InjectBegin, Refuse, Accept, CountNbl, Indicate, HostReturn,
         CompleteIrp, Decrement, SetEvent, FreeNbl, PauseBegin, Bias, ResetEvent, Unbias, WaitDone,
         EnterPaused, RestartBegin, RestartEnd, Open, Cleanup, Close, SetLink, vars,
         Next, SourceStep, ReturnStep, PauseStep
    <3>2. linkReady' = linkReady \/ linkReady' = ~linkReady
      BY DEF WriteReady, InjectBegin, Refuse, Accept, CountNbl, Indicate, HostReturn,
         CompleteIrp, Decrement, SetEvent, FreeNbl, PauseBegin, Bias, ResetEvent, Unbias, WaitDone,
         EnterPaused, RestartBegin, RestartEnd, Open, Cleanup, Close, SetLink, vars,
         Next, SourceStep, ReturnStep, PauseStep
    <3>3. zeroEvent' = zeroEvent \/ zeroEvent' = TRUE \/ zeroEvent' = FALSE
      BY DEF WriteReady, InjectBegin, Refuse, Accept, CountNbl, Indicate, HostReturn,
         CompleteIrp, Decrement, SetEvent, FreeNbl, PauseBegin, Bias, ResetEvent, Unbias, WaitDone,
         EnterPaused, RestartBegin, RestartEnd, Open, Cleanup, Close, SetLink, vars,
         Next, SourceStep, ReturnStep, PauseStep
    <3>4. linkReady' \in BOOLEAN
      BY <3>2 DEF Types, EnvTypes
    <3>5. zeroEvent' \in BOOLEAN
      BY <3>3 DEF Types, EnvTypes
    <3> QED
      BY <3>1, <3>4, <3>5 DEF Types, EnvTypes
  <2>2. NblTypes'
    BY DEF Types, NblTypes, WriteReady, InjectBegin, Refuse, Accept, CountNbl, Indicate, HostReturn,
       CompleteIrp, Decrement, SetEvent, FreeNbl, PauseBegin, Bias, ResetEvent, Unbias, WaitDone,
       EnterPaused, RestartBegin, RestartEnd, Open, Cleanup, Close, SetLink, vars,
       Next, SourceStep, ReturnStep, PauseStep
  <2>3. PcTypes'
    BY DEF Types, PcTypes, WriteReady, InjectBegin, Refuse, Accept, CountNbl, Indicate, HostReturn,
       CompleteIrp, Decrement, SetEvent, FreeNbl, PauseBegin, Bias, ResetEvent, Unbias, WaitDone,
       EnterPaused, RestartBegin, RestartEnd, Open, Cleanup, Close, SetLink, vars,
       Next, SourceStep, ReturnStep, PauseStep
  <2>4. (receiveNblInFlightCount \in Int)'
    BY DEF Types, WriteReady, InjectBegin, Refuse, Accept, CountNbl, Indicate, HostReturn,
       CompleteIrp, Decrement, SetEvent, FreeNbl, PauseBegin, Bias, ResetEvent, Unbias, WaitDone,
       EnterPaused, RestartBegin, RestartEnd, Open, Cleanup, Close, SetLink, vars,
       Next, SourceStep, ReturnStep, PauseStep
  <2> QED
    BY <2>1, <2>2, <2>3, <2>4 DEF Types
<1> QED
  BY <1>1, <1>2, PTL DEF Spec

-----------------------------------------------------------------------------

\* Every NBL a thread works on is in the state that goes with the thread's
\* program point, and no two threads work on the same one.
THEOREM HoldersCorrect == Spec => []HoldersInv
<1> USE ThreadsAssumption, NblsAssumption DEF Threads, Sources
<1>1. Init => HoldersInv
  BY DEF Init, HoldersInv
<1>2. Types /\ HoldersInv /\ [Next]_vars => HoldersInv'
  <2> SUFFICES ASSUME Types, HoldersInv, [Next]_vars PROVE HoldersInv'
    OBVIOUS
  <2> USE DEF Types, NblTypes, PcTypes, SourceLabels, ReturnerLabels, HoldersInv, Goto, Step, Move, envVars,
              countVars, nblVars
  <2>1. ASSUME NEW w \in Writers, WriteReady(w) PROVE HoldersInv'
    BY <2>1 DEF WriteReady
  <2>2. ASSUME NEW i \in Injectors, InjectBegin(i) PROVE HoldersInv'
    BY <2>2 DEF InjectBegin
  <2>3. ASSUME NEW s \in Sources, Refuse(s) PROVE HoldersInv'
    BY <2>3 DEF Refuse
  <2>4. ASSUME NEW s \in Sources, NEW n \in Nbls, Accept(s, n) PROVE HoldersInv'
    BY <2>4 DEF Accept
  <2>5. ASSUME NEW s \in Sources, CountNbl(s) PROVE HoldersInv'
    BY <2>5 DEF CountNbl
  <2>6. ASSUME NEW s \in Sources, Indicate(s) PROVE HoldersInv'
    BY <2>6 DEF Indicate
  <2>7. ASSUME NEW t \in Returners, NEW list \in SUBSET Nbls, HostReturn(t, list)
        PROVE  HoldersInv'
    BY <2>7 DEF HostReturn
  <2>8. ASSUME NEW t \in Returners, CompleteIrp(t) PROVE HoldersInv'
    BY <2>8 DEF CompleteIrp
  <2>9. ASSUME NEW t \in Returners, Decrement(t) PROVE HoldersInv'
    BY <2>9 DEF Decrement
  <2>10. ASSUME NEW t \in Returners, SetEvent(t) PROVE HoldersInv'
    BY <2>10 DEF SetEvent
  <2>11. ASSUME NEW t \in Returners, FreeNbl(t) PROVE HoldersInv'
    BY <2>11 DEF FreeNbl
  <2>12. CASE OtherStep
    <3>1. /\ UNCHANGED nblVars
          /\ \A t \in Sources \cup Returners : pc'[t] = pc[t]
      BY <2>12 DEF OtherStep, PauseBegin, PauseStep, Bias, ResetEvent, Unbias, WaitDone,
                   EnterPaused, RestartBegin, RestartEnd, Open, Cleanup, Close, SetLink, vars
    <3> QED
      BY <3>1
  <2> QED
    BY <2>1, <2>2, <2>3, <2>4, <2>5, <2>6, <2>7, <2>8, <2>9, <2>10, <2>11, <2>12
    DEF Next, SourceStep, ReturnStep, OtherStep
<1> QED
  BY <1>1, <1>2, TypesCorrect, PTL DEF Spec

-----------------------------------------------------------------------------

\* ReceiveNblInFlightCount is the number of NBLs in flight, plus the bias of a
\* pause that is resetting the event: an increment or decrement adds or takes out
\* the one NBL its thread works on.
THEOREM CountCorrect == Spec => []InFlightCount
<1> USE ThreadsAssumption, NblsAssumption DEF Threads, Sources
<1>0. IsFiniteSet(InFlight) /\ Cardinality(InFlight) \in Nat
  <2>1. InFlight \in SUBSET Nbls
    BY DEF InFlight
  <2> QED
    BY <2>1, FS_Subset, FS_CardinalityType
<1>1. Init => InFlightCount
  <2> SUFFICES ASSUME Init PROVE InFlightCount
    OBVIOUS
  <2>1. InFlight = {}
    BY DEF Init, InFlight
  <2>2. Cardinality(InFlight) = 0
    BY <2>1, FS_EmptySet
  <2> QED
    BY <2>2 DEF Init, InFlightCount, BiasAdded
<1>2. Types /\ HoldersInv /\ InFlightCount /\ [Next]_vars => InFlightCount'
  <2> SUFFICES ASSUME Types, HoldersInv, InFlightCount, [Next]_vars PROVE InFlightCount'
    OBVIOUS
  <2> USE DEF Goto, Step, Move, envVars, countVars, nblVars
  <2>1. ASSUME NEW s \in Sources, CountNbl(s) PROVE InFlightCount'
    <3>1. nbl[s] \in Nbls /\ nblState[nbl[s]] = "built"
      BY <2>1 DEF CountNbl, HoldersInv
    <3>2. InFlight' = InFlight \cup {nbl[s]} /\ nbl[s] \notin InFlight
      BY <2>1, <3>1 DEF CountNbl, InFlight, Types, NblTypes
    <3>3. Cardinality(InFlight') = Cardinality(InFlight) + 1
      BY <1>0, <3>2, FS_AddElement
    <3>4. BiasAdded' = BiasAdded
      BY <2>1 DEF CountNbl, BiasAdded, Types, PcTypes
    <3>5. receiveNblInFlightCount' = receiveNblInFlightCount + 1 /\ BiasAdded \in Int
      BY <2>1 DEF CountNbl, BiasAdded
    <3> QED
      BY <1>0, <3>3, <3>4, <3>5 DEF InFlightCount
  <2>2. ASSUME NEW t \in Returners, Decrement(t) PROVE InFlightCount'
    <3>1. nbl[t] \in Nbls /\ nblState[nbl[t]] = "completed"
      BY <2>2 DEF Decrement, HoldersInv
    <3>2. InFlight' = InFlight \ {nbl[t]} /\ nbl[t] \in InFlight
      BY <2>2, <3>1 DEF Decrement, InFlight, Types, NblTypes
    <3>3. Cardinality(InFlight') = Cardinality(InFlight) - 1
      BY <1>0, <3>2, FS_RemoveElement
    <3>4. BiasAdded' = BiasAdded
      BY <2>2 DEF Decrement, BiasAdded, Types, PcTypes
    <3>5. receiveNblInFlightCount' = receiveNblInFlightCount - 1 /\ BiasAdded \in Int
      BY <2>2 DEF Decrement, BiasAdded
    <3> QED
      BY <1>0, <3>3, <3>4, <3>5 DEF InFlightCount
  <2>3. CASE Bias \/ Unbias
    <3>1. InFlight' = InFlight
      BY <2>3 DEF Bias, Unbias, InFlight
    <3>2. \/ BiasAdded = 0 /\ BiasAdded' = 1
             /\ receiveNblInFlightCount' = receiveNblInFlightCount + 1
          \/ BiasAdded = 1 /\ BiasAdded' = 0
             /\ receiveNblInFlightCount' = receiveNblInFlightCount - 1
      BY <2>3 DEF Bias, Unbias, BiasAdded, Types, PcTypes
    <3> QED
      BY <1>0, <3>1, <3>2 DEF InFlightCount
  <2>4. ASSUME UNCHANGED receiveNblInFlightCount, BiasAdded' = BiasAdded, InFlight' = InFlight
        PROVE  InFlightCount'
    BY <2>4 DEF InFlightCount
  <2>5. ASSUME NEW w \in Writers, WriteReady(w) PROVE InFlightCount'
    BY <2>4, <2>5 DEF WriteReady, InFlight, BiasAdded, Types, PcTypes
  <2>6. ASSUME NEW i \in Injectors, InjectBegin(i) PROVE InFlightCount'
    BY <2>4, <2>6 DEF InjectBegin, InFlight, BiasAdded, Types, PcTypes
  <2>7. ASSUME NEW s \in Sources, Refuse(s) PROVE InFlightCount'
    BY <2>4, <2>7 DEF Refuse, InFlight, BiasAdded, Types, PcTypes
  <2>8. ASSUME NEW s \in Sources, NEW n \in Nbls, Accept(s, n) PROVE InFlightCount'
    BY <2>4, <2>8 DEF Accept, InFlight, BiasAdded, Types, PcTypes, NblTypes
  <2>9. ASSUME NEW s \in Sources, Indicate(s) PROVE InFlightCount'
    BY <2>4, <2>9 DEF Indicate, InFlight, BiasAdded, HoldersInv, Types, PcTypes, NblTypes
  <2>10. ASSUME NEW t \in Returners, NEW list \in SUBSET Nbls, HostReturn(t, list)
         PROVE  InFlightCount'
    BY <2>4, <2>10 DEF HostReturn, InFlight, BiasAdded, Types, PcTypes, NblTypes
  <2>11. ASSUME NEW t \in Returners, CompleteIrp(t) PROVE InFlightCount'
    BY <2>4, <2>11 DEF CompleteIrp, InFlight, BiasAdded, HoldersInv, Types, PcTypes, NblTypes
  <2>12. ASSUME NEW t \in Returners, SetEvent(t) PROVE InFlightCount'
    BY <2>4, <2>12 DEF SetEvent, InFlight, BiasAdded, Types, PcTypes
  <2>13. ASSUME NEW t \in Returners, FreeNbl(t) PROVE InFlightCount'
    BY <2>4, <2>13 DEF FreeNbl, InFlight, BiasAdded, HoldersInv, Types, PcTypes, NblTypes
  <2>14. CASE PauseBegin \/ ResetEvent \/ WaitDone \/ EnterPaused \/ RestartBegin \/ RestartEnd
    BY <2>4, <2>14 DEF PauseBegin, ResetEvent, WaitDone, EnterPaused, RestartBegin, RestartEnd,
                       InFlight, BiasAdded, Types, PcTypes
  <2>15. CASE Open \/ Cleanup \/ Close \/ SetLink \/ UNCHANGED vars
    BY <2>4, <2>15 DEF Open, Cleanup, Close, SetLink, vars, InFlight, BiasAdded
  <2> QED
    BY <2>1, <2>2, <2>3, <2>5, <2>6, <2>7, <2>8, <2>9, <2>10, <2>11, <2>12, <2>13, <2>14, <2>15
    DEF Next, SourceStep, ReturnStep, PauseStep
<1> QED
  BY <1>1, <1>2, TypesCorrect, HoldersCorrect, PTL DEF Spec

\* The count never goes below zero, which with the types of the variables is the
\* type invariant.
THEOREM TypeCorrect == Spec => []TypeOK
<1>1. Types /\ InFlightCount => TypeOK
  <2> SUFFICES ASSUME Types, InFlightCount PROVE receiveNblInFlightCount >= 0
    BY DEF TypeOK
  <2>1. InFlight \in SUBSET Nbls
    BY DEF InFlight
  <2>2. Cardinality(InFlight) \in Nat
    BY <2>1, NblsAssumption, FS_Subset, FS_CardinalityType
  <2>3. BiasAdded \in {0, 1}
    BY DEF BiasAdded
  <2> QED
    BY <2>2, <2>3 DEF InFlightCount
<1> QED
  BY <1>1, TypesCorrect, CountCorrect, PTL

-----------------------------------------------------------------------------

\* A pause that waits for the event is woken.
THEOREM PauseIsWoken == Spec => []PauseWoken
<1> USE ThreadsAssumption DEF Threads, Sources
<1>1. Init => PauseWoken
  BY DEF Init, PauseWoken
<1>2. TypeOK /\ TypeOK' /\ PauseWoken /\ [Next]_vars => PauseWoken'
  <2> SUFFICES ASSUME TypeOK, TypeOK', PauseWoken, [Next]_vars, pc'[Pauser] = "wait"
               PROVE  \/ zeroEvent'
                      \/ receiveNblInFlightCount' > 0
                      \/ \E t \in Returners : pc'[t] = "setEvent"
    BY DEF PauseWoken
  <2> USE DEF Goto, Step, Move, envVars, countVars, nblVars, Types, PcTypes
  <2>1. ASSUME NEW s \in Sources, CountNbl(s) PROVE receiveNblInFlightCount' > 0
    BY <2>1 DEF CountNbl, TypeOK
  <2>2. ASSUME NEW t \in Returners, Decrement(t)
        PROVE  receiveNblInFlightCount' > 0 \/ pc'[t] = "setEvent"
    BY <2>2 DEF Decrement, TypeOK
  <2>3. ASSUME NEW t \in Returners, SetEvent(t) PROVE zeroEvent'
    BY <2>3 DEF SetEvent
  <2>4. CASE Unbias
    BY <2>4 DEF Unbias, TypeOK
  <2>5. CASE PauseBegin \/ Bias \/ ResetEvent \/ WaitDone \/ EnterPaused \/ RestartBegin
             \/ RestartEnd
    BY <2>5 DEF PauseBegin, Bias, ResetEvent, WaitDone, EnterPaused, RestartBegin, RestartEnd,
                TypeOK
  <2>6. ASSUME UNCHANGED countVars, pc'[Pauser] = pc[Pauser],
               \A t \in Returners : pc[t] = "setEvent" => pc'[t] = "setEvent"
        PROVE  \/ zeroEvent'
               \/ receiveNblInFlightCount' > 0
               \/ \E t \in Returners : pc'[t] = "setEvent"
    <3>1. zeroEvent \/ receiveNblInFlightCount > 0 \/ \E t \in Returners : pc[t] = "setEvent"
      BY <2>6 DEF PauseWoken
    <3>2. zeroEvent' = zeroEvent /\ receiveNblInFlightCount' = receiveNblInFlightCount
      BY <2>6
    <3> QED
      BY <2>6, <3>1, <3>2
  <2>7. ASSUME \/ \E w \in Writers : WriteReady(w)
               \/ \E i \in Injectors : InjectBegin(i)
               \/ \E s \in Sources : Refuse(s) \/ Indicate(s) \/ \E n \in Nbls : Accept(s, n)
        PROVE  /\ UNCHANGED countVars /\ pc'[Pauser] = pc[Pauser]
               /\ \A t \in Returners : pc'[t] = pc[t]
    BY <2>7 DEF WriteReady, InjectBegin, Refuse, Indicate, Accept, TypeOK
  <2>8. ASSUME NEW t \in Returners,
               \/ \E list \in SUBSET Nbls : HostReturn(t, list)
               \/ CompleteIrp(t) \/ FreeNbl(t)
        PROVE  /\ UNCHANGED countVars /\ pc'[Pauser] = pc[Pauser]
               /\ \A u \in Returners : pc[u] = "setEvent" => pc'[u] = "setEvent"
    BY <2>8 DEF HostReturn, CompleteIrp, FreeNbl, TypeOK
  <2>9. ASSUME Open \/ Cleanup \/ Close \/ SetLink \/ UNCHANGED vars
        PROVE  UNCHANGED countVars /\ pc' = pc
    BY <2>9 DEF Open, Cleanup, Close, SetLink, vars
  <2> QED
    BY <2>1, <2>2, <2>3, <2>4, <2>5, <2>6, <2>7, <2>8, <2>9
    DEF Next, SourceStep, ReturnStep, PauseStep
<1> QED
  BY <1>1, <1>2, TypeCorrect, PTL DEF Spec

-----------------------------------------------------------------------------

\* Every outstanding write is in the hands of its own call or of exactly one NBL,
\* and a completed one in nobody's.
THEOREM WritesInCustody == Spec => []WriteCustody
<1> USE ThreadsAssumption DEF Threads, Sources
<1>1. Init => WriteCustody
  BY DEF Init, WriteCustody, Carries
<1>2. Types /\ HoldersInv /\ WriteCustody /\ [Next]_vars => WriteCustody'
  <2> SUFFICES ASSUME Types, HoldersInv, WriteCustody, [Next]_vars PROVE WriteCustody'
    OBVIOUS
  <2> USE DEF Goto, Step, Move, envVars, countVars, nblVars, Types, NblTypes, PcTypes,
              HoldersInv, WriteCustody, Carries
  <2>1. ASSUME NEW w \in Writers, WriteReady(w) PROVE WriteCustody'
    BY <2>1 DEF WriteReady
  <2>2. ASSUME NEW i \in Injectors, InjectBegin(i) PROVE WriteCustody'
    BY <2>2 DEF InjectBegin
  <2>3. ASSUME NEW s \in Sources, Refuse(s) PROVE WriteCustody'
    BY <2>3 DEF Refuse
  <2>4. ASSUME NEW s \in Sources, NEW n \in Nbls, Accept(s, n) PROVE WriteCustody'
    BY <2>4 DEF Accept
  <2>5. ASSUME NEW s \in Sources, CountNbl(s) PROVE WriteCustody'
    BY <2>5 DEF CountNbl
  <2>6. ASSUME NEW s \in Sources, Indicate(s) PROVE WriteCustody'
    BY <2>6 DEF Indicate
  <2>7. ASSUME NEW t \in Returners, NEW list \in SUBSET Nbls, HostReturn(t, list)
        PROVE  WriteCustody'
    BY <2>7 DEF HostReturn
  <2>8. ASSUME NEW t \in Returners, CompleteIrp(t) PROVE WriteCustody'
    BY <2>8 DEF CompleteIrp
  <2>9. ASSUME NEW t \in Returners, Decrement(t) PROVE WriteCustody'
    BY <2>9 DEF Decrement
  <2>10. ASSUME NEW t \in Returners, SetEvent(t) PROVE WriteCustody'
    BY <2>10 DEF SetEvent
  <2>11. ASSUME NEW t \in Returners, FreeNbl(t) PROVE WriteCustody'
    BY <2>11 DEF FreeNbl
  <2>12. CASE OtherStep
    <3>1. /\ UNCHANGED <<nblVars, pending>>
          /\ \A w \in Writers : pc'[w] = pc[w]
      BY <2>12 DEF OtherStep, PauseBegin, PauseStep, Bias, ResetEvent, Unbias, WaitDone,
                   EnterPaused, RestartBegin, RestartEnd, Open, Cleanup, Close, SetLink, vars
    <3> QED
      BY <3>1
  <2> QED
    BY <2>1, <2>2, <2>3, <2>4, <2>5, <2>6, <2>7, <2>8, <2>9, <2>10, <2>11, <2>12
    DEF Next, SourceStep, ReturnStep, OtherStep
<1> QED
  BY <1>1, <1>2, TypesCorrect, HoldersCorrect, PTL DEF Spec

-----------------------------------------------------------------------------

\* What a pause that overtakes nobody knows: nothing sets the event it has reset
\* before the count is zero, and from then on the count stays zero.
DrainInv ==
  /\ adapterState = "paused" <=> pc[Pauser] = "paused"
  /\ pc[Pauser] = "unbias" => ~zeroEvent
  /\ pc[Pauser] = "wait" /\ (zeroEvent \/ \E t \in Returners : pc[t] = "setEvent") =>
       receiveNblInFlightCount = 0
  /\ pc[Pauser] \in {"drained", "paused"} => receiveNblInFlightCount = 0

Raced == LateCount \/ StaleSignal

LEMMA DrainStep ==
  ASSUME TypeOK, TypeOK', DrainInv, ~Raced, [Next]_vars
  PROVE  DrainInv'
<1> USE ThreadsAssumption DEF Threads, Sources, Goto, Step, Move, envVars, countVars, nblVars
<1>0. /\ receiveNblInFlightCount \in Nat /\ receiveNblInFlightCount' \in Nat
      /\ pc \in [Threads -> SourceLabels \cup ReturnerLabels \cup PauserLabels]
      /\ Pauser \in Threads /\ \A t \in Sources \cup Returners : t \in Threads /\ t # Pauser
  BY DEF TypeOK, Types, PcTypes
<1>1. ASSUME NEW s \in Sources, CountNbl(s) PROVE DrainInv'
  <2>1. pc[Pauser] \notin {"wait", "drained", "paused"}
    BY <1>1 DEF CountNbl, Raced, LateCount
  <2>2. pc'[Pauser] = pc[Pauser] /\ UNCHANGED <<adapterState, zeroEvent>>
    BY <1>0, <1>1 DEF CountNbl
  <2> QED
    BY <2>1, <2>2 DEF DrainInv
<1>2. ASSUME NEW t \in Returners, Decrement(t) PROVE DrainInv'
  <2>1. receiveNblInFlightCount # 0 /\ receiveNblInFlightCount' = receiveNblInFlightCount - 1
    BY <1>0, <1>2 DEF Decrement
  <2>2. /\ pc'[Pauser] = pc[Pauser] /\ UNCHANGED <<adapterState, zeroEvent>>
        /\ \A u \in Returners : pc'[u] = "setEvent" => pc[u] = "setEvent" \/ receiveNblInFlightCount' = 0
    BY <1>0, <1>2 DEF Decrement
  <2> QED
    BY <2>1, <2>2 DEF DrainInv
<1>3. ASSUME NEW t \in Returners, SetEvent(t) PROVE DrainInv'
  <2>1. pc[t] = "setEvent" /\ pc[Pauser] # "unbias"
    BY <1>3 DEF SetEvent, Raced, StaleSignal
  <2>2. /\ pc'[Pauser] = pc[Pauser] /\ UNCHANGED <<adapterState, receiveNblInFlightCount>>
    BY <1>0, <1>3 DEF SetEvent
  <2> QED
    BY <2>1, <2>2 DEF DrainInv
<1>4. CASE Unbias
  <2>1. ~zeroEvent /\ \A t \in Returners : pc[t] # "setEvent"
    BY <1>4 DEF Unbias, Raced, StaleSignal, DrainInv
  <2>2. /\ UNCHANGED <<adapterState, zeroEvent>>
        /\ \A t \in Returners : pc'[t] = pc[t]
        /\ pc[Pauser] = "unbias"
        /\ pc'[Pauser] = "wait" \/ (pc'[Pauser] = "drained" /\ receiveNblInFlightCount' = 0)
    BY <1>0, <1>4 DEF Unbias
  <2> QED
    BY <2>1, <2>2 DEF DrainInv
<1>5. CASE PauseBegin \/ Bias \/ ResetEvent \/ WaitDone \/ EnterPaused \/ RestartBegin \/ RestartEnd
  BY <1>0, <1>5 DEF PauseBegin, Bias, ResetEvent, WaitDone, EnterPaused, RestartBegin, RestartEnd,
                    DrainInv
<1>6. ASSUME UNCHANGED <<adapterState, countVars>>, pc'[Pauser] = pc[Pauser],
             \A t \in Returners : pc'[t] = "setEvent" => pc[t] = "setEvent"
      PROVE  DrainInv'
  BY <1>6 DEF DrainInv
<1>7. ASSUME \/ \E w \in Writers : WriteReady(w)
             \/ \E i \in Injectors : InjectBegin(i)
             \/ \E s \in Sources : Refuse(s) \/ Indicate(s) \/ \E n \in Nbls : Accept(s, n)
      PROVE  /\ UNCHANGED <<adapterState, countVars>> /\ pc'[Pauser] = pc[Pauser]
             /\ \A t \in Returners : pc'[t] = pc[t]
  BY <1>0, <1>7 DEF WriteReady, InjectBegin, Refuse, Indicate, Accept
<1>8. ASSUME NEW t \in Returners,
             \/ \E list \in SUBSET Nbls : HostReturn(t, list)
             \/ CompleteIrp(t) \/ FreeNbl(t)
      PROVE  /\ UNCHANGED <<adapterState, countVars>> /\ pc'[Pauser] = pc[Pauser]
             /\ \A u \in Returners : pc'[u] = "setEvent" => pc[u] = "setEvent"
  BY <1>0, <1>8 DEF HostReturn, CompleteIrp, FreeNbl
<1>9. ASSUME Open \/ Cleanup \/ Close \/ SetLink \/ UNCHANGED vars
      PROVE  UNCHANGED <<adapterState, countVars>> /\ pc' = pc
  BY <1>9 DEF Open, Cleanup, Close, SetLink, vars
<1> QED
  BY <1>1, <1>2, <1>3, <1>4, <1>5, <1>6, <1>7, <1>8, <1>9
  DEF Next, SourceStep, ReturnStep, PauseStep

\* A pause that overtakes neither a call that is about to count an NBL nor one that is
\* about to set the event leaves no NBL out.
THEOREM DrainsUnlessRaced == Spec => PauseDrainsUnlessRaced
<1>1. Init => DrainInv
  BY ThreadsAssumption DEF Init, DrainInv, Threads, Sources
<1>2. TypeOK /\ TypeOK' /\ ~Raced /\ DrainInv /\ [Next]_vars => DrainInv'
  BY DrainStep
<1>3. TypeOK /\ InFlightCount /\ DrainInv => PausedHasNoneOut
  <2> SUFFICES ASSUME TypeOK, InFlightCount, DrainInv, adapterState = "paused"
               PROVE  InFlight = {}
    BY DEF PausedHasNoneOut
  <2>1. receiveNblInFlightCount = 0 /\ BiasAdded = 0
    BY DEF DrainInv, BiasAdded
  <2>2. InFlight \in SUBSET Nbls
    BY DEF InFlight
  <2>3. IsFiniteSet(InFlight) /\ Cardinality(InFlight) \in Nat
    BY <2>2, NblsAssumption, FS_Subset, FS_CardinalityType
  <2>4. Cardinality(InFlight) = 0
    BY <2>1, <2>3 DEF InFlightCount
  <2> QED
    BY <2>3, <2>4, FS_EmptySet
<1> QED
  BY <1>1, <1>2, <1>3, TypeCorrect, CountCorrect, PTL DEF Spec, PauseDrainsUnlessRaced, Raced

-----------------------------------------------------------------------------

\* A file with a write outstanding is not closed.
PendingHoldsFile == pending # {} => fileState # "closed"

LEMMA PendingHoldsFileCorrect == Spec => []PendingHoldsFile
<1>1. Init => PendingHoldsFile
  BY DEF Init, PendingHoldsFile
<1>2. PendingHoldsFile /\ [Next]_vars => PendingHoldsFile'
  <2> SUFFICES ASSUME PendingHoldsFile, [Next]_vars PROVE PendingHoldsFile'
    OBVIOUS
  <2>1. CASE Open \/ Cleanup \/ Close
    BY <2>1 DEF Open, Cleanup, Close, PendingHoldsFile
  <2>2. ASSUME NEW w \in Writers, WriteReady(w) PROVE PendingHoldsFile'
    BY <2>2 DEF WriteReady, envVars, PendingHoldsFile
  <2>3. ASSUME UNCHANGED fileState, pending' \subseteq pending PROVE PendingHoldsFile'
    BY <2>3 DEF PendingHoldsFile
  <2>4. ASSUME NEW s \in Sources,
               InjectBegin(s) \/ SourceStep(s)
        PROVE  UNCHANGED fileState /\ pending' \subseteq pending
    BY <2>4 DEF InjectBegin, SourceStep, Refuse, CountNbl, Indicate, Accept, envVars
  <2>5. ASSUME NEW t \in Returners,
               ReturnStep(t) \/ \E list \in SUBSET Nbls : HostReturn(t, list)
        PROVE  UNCHANGED fileState /\ pending' \subseteq pending
    BY <2>5 DEF ReturnStep, CompleteIrp, Decrement, SetEvent, FreeNbl, HostReturn, envVars
  <2>6. CASE PauseBegin \/ PauseStep \/ RestartBegin \/ RestartEnd \/ SetLink \/ UNCHANGED vars
    BY <2>3, <2>6 DEF PauseBegin, PauseStep, Bias, ResetEvent, Unbias, WaitDone, EnterPaused,
                      RestartBegin, RestartEnd, SetLink, vars, envVars
  <2> QED
    BY <2>1, <2>2, <2>3, <2>4, <2>5, <2>6 DEF Next, Sources
<1> QED
  BY <1>1, <1>2, PTL DEF Spec

\* The host reads the frame of a write in its buffer only while the write is pending and
\* its file not closed.
THEOREM LentBuffersAreHeld == Spec => []LentBuffersHeld
<1>1. Types /\ WriteCustody /\ PendingHoldsFile => LentBuffersHeld
  BY DEF Types, NblTypes, WriteCustody, Carries, PendingHoldsFile, LentBuffersHeld, LentTo
<1> QED
  BY <1>1, TypesCorrect, WritesInCustody, PendingHoldsFileCorrect, PTL
-----------------------------------------------------------------------------
(* The loans that the abstract specification sees                          *)

Loans == {<<n, irpOf[n]>> : n \in {m \in Nbls : LentTo(m)}}

\* What TapLoan asks of a buffer and of a write, in terms of the NBLs.
LEMMA LoanOf ==
  ASSUME Types
  PROVE  /\ \A n \in Nbls : Loan!InUse(n) <=> LentTo(n)
         /\ \A w : Loan!IsLent(w) <=> \E n \in Nbls : LentTo(n) /\ irpOf[n] = w
<1>1. \A n, w : <<n, w>> \in Loans <=> n \in Nbls /\ LentTo(n) /\ w = irpOf[n]
  BY DEF Loans
<1>2. \A n \in Nbls : irpOf[n] \in Writers \cup {NoIrp}
  BY DEF Types, NblTypes
<1> QED
  BY <1>1, <1>2 DEF Loan!InUse, Loan!IsLent, Loans

\* A step that changes neither the file nor the writes, nor what is lent for whom, is none
\* of the abstract specification.
LEMMA LoansKept ==
  ASSUME UNCHANGED <<fileState, pending>>,
         \A n \in Nbls : LentTo(n)' <=> LentTo(n),
         \A n \in Nbls : LentTo(n) => irpOf'[n] = irpOf[n]
  PROVE  UNCHANGED Loan!loanVars
<1>1. Loans' = Loans
  BY DEF Loans
<1> QED
  BY <1>1 DEF Loans, Loan!loanVars, Loan!handleVars

\* A buffer changes hands for one write or none.
LEMMA LoanStep ==
  ASSUME NEW n \in Nbls, NEW w \in Writers \cup {NoIrp}, Loan!Lend(n, w) \/ Loan!GiveBack(n, w)
  PROVE  Loan!LoanNext
<1>1. \E m \in Nbls, v \in Writers \cup {NoIrp} : Loan!Lend(m, v) \/ Loan!GiveBack(m, v)
  BY Zenon
<1> QED
  BY <1>1 DEF Loan!LoanNext

\* The steps of writes and injected frames.
LEMMA SourceLoans ==
  ASSUME Types, HoldersInv, WriteCustody, NEW s \in Sources, SourceStep(s)
  PROVE  [Loan!LoanNext]_Loan!loanVars
<1> USE ThreadsAssumption DEF Goto, Step, Move, envVars, countVars, nblVars, Types, NblTypes, LentTo
<1>1. CASE Refuse(s)
  <2>1. UNCHANGED <<fileState, nblState, irpOf>> /\ pending' = pending \ {s} /\ pc[s] = "readyCheck"
    BY <1>1 DEF Refuse
  <2>2. Loans' = Loans
    BY <2>1 DEF Loans
  <2>3. CASE s \in Writers
    <3>1. ~Loan!IsLent(s)
      BY <2>1, <2>3, LoanOf DEF WriteCustody, Carries
    <3>2. Loan!Refuse(s)
      BY <2>1, <2>2, <3>1 DEF Loan!Refuse, Loan!Finish, Loans
    <3> QED
      BY <2>3, <3>2 DEF Loan!LoanNext
  <2>4. CASE s \notin Writers
    BY <2>1, <2>4, LoansKept
  <2> QED
    BY <2>3, <2>4
<1>2. ASSUME NEW n \in Nbls, Accept(s, n) PROVE UNCHANGED Loan!loanVars
  BY <1>2, LoansKept DEF Accept
<1>3. CASE CountNbl(s)
  BY <1>3, LoansKept DEF CountNbl, HoldersInv
<1>4. CASE Indicate(s)
  <2>0. nbl[s] \in Nbls /\ nblState[nbl[s]] = "counted" /\ irpOf[nbl[s]] \in Writers \cup {NoIrp}
    BY <1>4 DEF Indicate, HoldersInv
  <2>1. PICK n \in Nbls, w \in Writers \cup {NoIrp} :
          n = nbl[s] /\ w = irpOf[n] /\ nblState[n] = "counted"
    BY <2>0
  <2>2. /\ nblState' = [nblState EXCEPT ![n] = "host"]
        /\ UNCHANGED <<fileState, pending, irpOf>>
    BY <1>4, <2>1 DEF Indicate
  <2>3. ~Loan!InUse(n)
    BY <2>1, LoanOf
  <2>4. w # NoIrp => w \in pending /\ ~Loan!IsLent(w)
    BY <2>1, LoanOf DEF WriteCustody, Carries
  <2>5. Loans' = Loans \cup {<<n, w>>}
    BY <2>1, <2>2 DEF Loans
  <2>6. Loan!Lend(n, w)
    BY <2>2, <2>3, <2>4, <2>5 DEF Loan!Lend, Loan!handleVars, Loans
  <2> QED
    BY <2>6, LoanStep
<1> QED
  BY <1>1, <1>2, <1>3, <1>4 DEF SourceStep

\* The steps of a thread that returns NBLs.
LEMMA ReturnLoans ==
  ASSUME Types, HoldersInv, NEW t \in Returners,
         ReturnStep(t) \/ \E list \in SUBSET Nbls : HostReturn(t, list)
  PROVE  [Loan!LoanNext]_Loan!loanVars
<1> USE ThreadsAssumption DEF Goto, Step, Move, envVars, countVars, nblVars, Types, NblTypes, LentTo
<1>1. CASE CompleteIrp(t)
  <2>1. PICK n \in returning[t] :
          /\ nblState' = [nblState EXCEPT ![n] = "completed"]
          /\ pending' = pending \ {irpOf[n]}
          /\ UNCHANGED <<fileState, irpOf>>
    BY <1>1 DEF CompleteIrp
  <2>2. n \in Nbls /\ nblState[n] = "returned"
    BY DEF HoldersInv
  <2>3. PICK w \in Writers \cup {NoIrp} : w = irpOf[n]
    BY <2>2
  <2>4. Loans' = Loans \ {<<n, w>>} /\ <<n, w>> \in Loans
    BY <2>1, <2>2, <2>3 DEF Loans
  <2>5. Loan!GiveBack(n, w)
    BY <2>1, <2>3, <2>4 DEF Loan!GiveBack, Loan!Finish, Loans
  <2> QED
    BY <2>2, <2>5, LoanStep
<1>2. CASE Decrement(t)
  BY <1>2, LoansKept DEF Decrement, HoldersInv
<1>3. CASE SetEvent(t)
  BY <1>3, LoansKept DEF SetEvent
<1>4. CASE FreeNbl(t)
  BY <1>4, LoansKept DEF FreeNbl, HoldersInv
<1>5. ASSUME NEW list \in SUBSET Nbls, HostReturn(t, list) PROVE UNCHANGED Loan!loanVars
  BY <1>5, LoansKept DEF HostReturn
<1> QED
  BY <1>1, <1>2, <1>3, <1>4, <1>5 DEF ReturnStep

\* The steps of the file, and of calls that do not touch NBLs.
LEMMA OtherLoans ==
  ASSUME Types,
         \/ \E w \in Writers : WriteReady(w)
         \/ \E i \in Injectors : InjectBegin(i)
         \/ OtherStep
  PROVE  [Loan!LoanNext]_Loan!loanVars
<1> USE DEF Goto, Step, envVars, countVars, nblVars, LentTo
<1>1. ASSUME NEW w \in Writers, WriteReady(w) PROVE Loan!LoanNext
  <2>1. Loan!Issue(w) /\ Loans' = Loans
    BY <1>1 DEF WriteReady, Loan!Issue, Loans
  <2> QED
    BY <2>1 DEF Loan!LoanNext, Loans
<1>2. ASSUME Open \/ Close \/ Cleanup PROVE Loan!LoanNext
  <2>1. Loans' = Loans
    BY <1>2 DEF Open, Close, Cleanup, Loans
  <2>2. Loan!Open \/ Loan!Close \/ Loan!Cleanup({})
    BY <1>2 DEF Open, Close, Cleanup, Loan!Open, Loan!Close, Loan!Cleanup
  <2> QED
    BY <2>1, <2>2 DEF Loan!LoanNext, Loans
<1>3. ASSUME \/ \E i \in Injectors : InjectBegin(i)
             \/ PauseBegin \/ PauseStep \/ RestartBegin \/ RestartEnd \/ SetLink \/ UNCHANGED vars
      PROVE  UNCHANGED Loan!loanVars
  BY <1>3, LoansKept DEF InjectBegin, PauseBegin, PauseStep, Bias, ResetEvent, Unbias, WaitDone,
                         EnterPaused, RestartBegin, RestartEnd, SetLink, vars
<1> QED
  BY <1>1, <1>2, <1>3 DEF OtherStep

\* The receive path implements the loan of buffers: an indication lends, the step that
\* completes the IRP gives back, and everything else leaves the loans alone.
THEOREM LoanImplemented == Spec => LoanRefinement
<1>1. Init => Loan!LoanInit
  BY DEF Init, Loan!LoanInit, Loan!HandleInit, LentTo
<1>2. Types /\ HoldersInv /\ WriteCustody /\ [Next]_vars => [Loan!LoanNext]_Loan!loanVars
  BY SourceLoans, ReturnLoans, OtherLoans DEF Next, OtherStep
<1> QED
  BY <1>1, <1>2, TypesCorrect, HoldersCorrect, WritesInCustody, PTL
  DEF Spec, LoanRefinement, Loan!LoanSpec
=============================================================================
