----------------------- MODULE TapLifecycle_proofs -----------------------
(***************************************************************************)
(* Proofs about TapLifecycle, for any number of adapters, files and reads. *)
(***************************************************************************)
EXTENDS TapLifecycle, FiniteSetTheorems, TLAPS

\* Every variable keeps its type, and a file that is not closed has an adapter.
THEOREM TypeCorrect == Spec => []TypeOK
<1> USE FilesAssumption DEF Files, NdisLabels, FileLabels
<1>1. Init => TypeOK
  BY DEF Init, TypeOK
<1>2. TypeOK /\ [Next]_vars => TypeOK'
  <2> SUFFICES ASSUME TypeOK, [Next]_vars PROVE TypeOK'
    OBVIOUS
  <2> USE DEF TypeOK, NdisStep, FileStep, Reference, Dereference, ndisVars, refVars, fileVars,
              readVars
  <2>1. ASSUME NEW a \in Adapters, CreateBegin(a) PROVE TypeOK'
    BY <2>1 DEF CreateBegin
  <2>2. ASSUME NEW a \in Adapters, CreateFails(a) PROVE TypeOK'
    BY <2>2 DEF CreateFails
  <2>3. ASSUME NEW a \in Adapters, RegisterDevice(a) PROVE TypeOK'
    BY <2>3 DEF RegisterDevice
  <2>4. ASSUME NEW a \in Adapters, RegisterDiagDevice(a) PROVE TypeOK'
    BY <2>4 DEF RegisterDiagDevice
  <2>5. ASSUME NEW a \in Adapters, AddToGlobalList(a) PROVE TypeOK'
    BY <2>5 DEF AddToGlobalList
  <2>6. ASSUME NEW a \in Adapters, RemoveFromGlobalList(a) PROVE TypeOK'
    BY <2>6 DEF RemoveFromGlobalList
  <2>7. ASSUME NEW a \in Adapters, DestroyTapDevice(a) PROVE TypeOK'
    BY <2>7 DEF DestroyTapDevice
  <2>8. ASSUME NEW a \in Adapters, Release(a) PROVE TypeOK'
    BY <2>8 DEF Release
  <2>9. ASSUME NEW f \in Files, Lookup(f) PROVE TypeOK'
    BY <2>9 DEF Lookup
  <2>10. ASSUME NEW f \in Files, LookupFails(f) PROVE TypeOK'
    BY <2>10 DEF LookupFails
  <2>11. ASSUME NEW f \in Files, OpenNotFound(f) PROVE TypeOK'
    BY <2>11 DEF OpenNotFound
  <2>12. ASSUME NEW f \in Files, TakeExclusive(f) PROVE TypeOK'
    BY <2>12 DEF TakeExclusive
  <2>13. ASSUME NEW f \in Files, OpenRefused(f) PROVE TypeOK'
    BY <2>13 DEF OpenRefused
  <2>14. ASSUME NEW f \in Files, OpenFinish(f) PROVE TypeOK'
    BY <2>14 DEF OpenFinish
  <2>15. ASSUME NEW f \in Files, DiagOpen(f) PROVE TypeOK'
    BY <2>15 DEF DiagOpen
  <2>16. ASSUME NEW f \in Files, Cleanup(f) PROVE TypeOK'
    BY <2>16 DEF Cleanup
  <2>17. ASSUME NEW f \in Files, Close(f) PROVE TypeOK'
    BY <2>17 DEF Close
  <2>18. ASSUME NEW f \in Files, DiagClose(f) PROVE TypeOK'
    BY <2>18 DEF DiagClose
  <2>19. ASSUME NEW f \in Files, ReleaseFile(f) PROVE TypeOK'
    BY <2>19 DEF ReleaseFile
  <2>20. ASSUME NEW f \in Files, NEW a \in Adapters, OpenRequest(f, a) PROVE TypeOK'
    BY <2>20 DEF OpenRequest
  <2>21. ASSUME NEW r \in Readers, ReadRefused(r) PROVE TypeOK'
    BY <2>21 DEF ReadRefused
  <2>22. ASSUME NEW r \in Readers, ReadQueued(r) PROVE TypeOK'
    BY <2>22 DEF ReadQueued
  <2>23. ASSUME NEW r \in Readers, ReadEnd(r) PROVE TypeOK'
    BY <2>23 DEF ReadEnd
  <2>24. ASSUME NEW r \in Readers, ReadCompleted(r) PROVE TypeOK'
    BY <2>24 DEF ReadCompleted
  <2>25. ASSUME NEW r \in Readers, NEW f \in TapFiles, ReadBegin(r, f) PROVE TypeOK'
    BY <2>25 DEF ReadBegin
  <2>26. CASE UNCHANGED vars
    BY <2>26 DEF vars
  <2> QED
    BY <2>1, <2>2, <2>3, <2>4, <2>5, <2>6, <2>7, <2>8, <2>9, <2>10, <2>11, <2>12, <2>13,
       <2>14, <2>15, <2>16, <2>17, <2>18, <2>19, <2>20, <2>21, <2>22, <2>23, <2>24, <2>25,
       <2>26
    DEF Next, NdisCall, FileCall, ReadCall
<1> QED
  BY <1>1, <1>2, PTL DEF Spec

-----------------------------------------------------------------------------
(* Ownership.  Every step leaves the owners of all contexts as they are,   *)
(* or allocates one context, or adds or takes away one owner of one.       *)

Own == [a \in Adapters |-> OwnersOf(a)]
AllOwners == Files \cup {NdisRef, ListRef}

\* What the program points of AdapterCreate and AdapterHalt tell.
PcInv ==
  \A a \in Adapters :
    /\ a \in globalList <=> ndisPc[a] = "created"
    /\ ndisPc[a] \in {"tapDevice", "registered", "created"} => a \in deviceHandle

CountInv == TypeOK /\ PcInv /\ RefCountExact

SameBirths == \A a \in Adapters : ndisPc'[a] = "none" <=> ndisPc[a] = "none"

Keeps == UNCHANGED refVars /\ Own' = Own /\ SameBirths

Allocates(a) ==
  /\ context[a] = "none" /\ Own[a] = {}
  /\ context' = [context EXCEPT ![a] = "live"]
  /\ refCount' = [refCount EXCEPT ![a] = 1]
  /\ Own' = [Own EXCEPT ![a] = {NdisRef}]
  /\ ndisPc' = [ndisPc EXCEPT ![a] = "configured"]

Shares(a, o) ==
  /\ Own[a] # {} /\ o \notin Own[a]
  /\ Reference(a)
  /\ Own' = [Own EXCEPT ![a] = @ \cup {o}]
  /\ SameBirths

Drops(a, o) ==
  /\ o \in Own[a]
  /\ Dereference(a)
  /\ Own' = [Own EXCEPT ![a] = @ \ {o}]
  /\ SameBirths

OwnershipStep ==
  \/ Keeps
  \/ \E a \in Adapters : Allocates(a)
  \/ \E a \in Adapters, o \in AllOwners : Shares(a, o) \/ Drops(a, o)

\* An adapter has finitely many owners: two and its files.
LEMMA OwnersFinite ==
  \A a \in Adapters : IsFiniteSet(OwnersOf(a)) /\ Cardinality(OwnersOf(a)) \in Nat
<1> SUFFICES ASSUME NEW a \in Adapters
             PROVE  IsFiniteSet(OwnersOf(a)) /\ Cardinality(OwnersOf(a)) \in Nat
  OBVIOUS
<1>1. IsFiniteSet(Files)
  BY FilesAssumption, FS_Union DEF Files
<1>2. IsFiniteSet((Files \cup {NdisRef}) \cup {ListRef})
  BY <1>1, FS_AddElement
<1>3. OwnersOf(a) \in SUBSET ((Files \cup {NdisRef}) \cup {ListRef})
  BY DEF OwnersOf
<1> QED
  BY <1>2, <1>3, FS_Subset, FS_CardinalityType

\* Each action is such a step.
LEMMA StepsOfOwnership == CountInv /\ [Next]_vars => OwnershipStep
<1> SUFFICES ASSUME CountInv, [Next]_vars PROVE OwnershipStep
  OBVIOUS
<1> USE FilesAssumption
    DEF CountInv, TypeOK, PcInv, Files, NdisStep, FileStep, ndisVars, refVars, fileVars,
        readVars, HoldsRef
<1>0. /\ \A a \in Adapters : Own[a] = OwnersOf(a) /\ Own'[a] = OwnersOf(a)'
      /\ (\A a \in Adapters : OwnersOf(a)' = OwnersOf(a)) => Own' = Own
      /\ \A S : \A a \in Adapters :
           /\ OwnersOf(a)' = S
           /\ \A b \in Adapters \ {a} : OwnersOf(b)' = OwnersOf(b)
           => Own' = [Own EXCEPT ![a] = S]
  <2> HIDE DEF CountInv, TypeOK, PcInv
  <2>1. Own = [a \in Adapters |-> OwnersOf(a)] /\ Own' = [a \in Adapters |-> OwnersOf(a)']
    BY DEF Own
  <2>2. \A a \in Adapters : Own[a] = OwnersOf(a) /\ Own'[a] = OwnersOf(a)'
    BY <2>1
  <2>3. DOMAIN Own = Adapters /\ DOMAIN Own' = Adapters
    BY <2>1
  <2>4. Own = [a \in Adapters |-> Own[a]] /\ Own' = [a \in Adapters |-> Own'[a]]
    BY <2>1, <2>2, Zenon
  <2>5. (\A a \in Adapters : Own'[a] = Own[a]) => Own' = Own
    BY <2>4, Zenon
  <2>6. ASSUME NEW a \in Adapters, NEW S, Own'[a] = S, \A b \in Adapters \ {a} : Own'[b] = Own[b]
        PROVE  Own' = [Own EXCEPT ![a] = S]
    BY <2>3, <2>4, <2>6
  <2> QED
    BY <2>2, <2>5, <2>6
<1>1. ASSUME NEW a \in Adapters, CreateBegin(a) PROVE Allocates(a)
  <2>1. context[a] = "none" /\ OwnersOf(a) = {}
    BY <1>1 DEF CreateBegin, RefCountExact
  <2>2. a \notin globalList /\ \A f \in Files : ~(fileState[f] \in HoldsRef /\ device[f] = a)
    BY <1>1, <2>1 DEF CreateBegin, OwnersOf
  <2>3. OwnersOf(a)' = {NdisRef} /\ \A b \in Adapters \ {a} : OwnersOf(b)' = OwnersOf(b)
    BY <1>1, <2>2 DEF CreateBegin, OwnersOf
  <2> QED
    BY <1>0, <1>1, <2>1, <2>3 DEF CreateBegin, Allocates
<1>2. ASSUME NEW a \in Adapters,
             CreateFails(a) \/ RegisterDevice(a) \/ RegisterDiagDevice(a) \/ DestroyTapDevice(a)
      PROVE  Keeps
  <2>1. \A b \in Adapters : OwnersOf(b)' = OwnersOf(b)
    BY <1>2 DEF CreateFails, RegisterDevice, RegisterDiagDevice, DestroyTapDevice, OwnersOf
  <2> QED
    BY <1>0, <1>2, <2>1
    DEF CreateFails, RegisterDevice, RegisterDiagDevice, DestroyTapDevice, Keeps, SameBirths
<1>3. ASSUME NEW a \in Adapters, AddToGlobalList(a) PROVE Shares(a, ListRef)
  <2>1. NdisRef \in OwnersOf(a) /\ ListRef \notin OwnersOf(a)
    BY <1>3 DEF AddToGlobalList, OwnersOf
  <2>2. /\ OwnersOf(a)' = OwnersOf(a) \cup {ListRef}
        /\ \A b \in Adapters \ {a} : OwnersOf(b)' = OwnersOf(b)
    BY <1>3 DEF AddToGlobalList, OwnersOf
  <2> QED
    BY <1>0, <1>3, <2>1, <2>2 DEF AddToGlobalList, Shares, SameBirths
<1>4. ASSUME NEW a \in Adapters, RemoveFromGlobalList(a) PROVE Drops(a, ListRef)
  <2>1. ListRef \in OwnersOf(a)
    BY <1>4 DEF RemoveFromGlobalList, OwnersOf
  <2>2. /\ OwnersOf(a)' = OwnersOf(a) \ {ListRef}
        /\ \A b \in Adapters \ {a} : OwnersOf(b)' = OwnersOf(b)
    BY <1>4 DEF RemoveFromGlobalList, OwnersOf
  <2> QED
    BY <1>0, <1>4, <2>1, <2>2 DEF RemoveFromGlobalList, Drops, SameBirths
<1>5. ASSUME NEW a \in Adapters, Release(a) PROVE Drops(a, NdisRef)
  <2>1. NdisRef \in OwnersOf(a)
    BY <1>5 DEF Release, OwnersOf
  <2>2. /\ OwnersOf(a)' = OwnersOf(a) \ {NdisRef}
        /\ \A b \in Adapters \ {a} : OwnersOf(b)' = OwnersOf(b)
    BY <1>5 DEF Release, OwnersOf
  <2> QED
    BY <1>0, <1>5, <2>1, <2>2 DEF Release, Drops, SameBirths
<1>6. ASSUME NEW f \in Files, Lookup(f) PROVE Shares(device[f], f)
  <2>0. device[f] \in Adapters
    BY <1>6 DEF Lookup
  <2>1. ListRef \in OwnersOf(device[f]) /\ f \notin OwnersOf(device[f])
    BY <1>6 DEF Lookup, OwnersOf
  <2>2. /\ OwnersOf(device[f])' = OwnersOf(device[f]) \cup {f}
        /\ \A b \in Adapters \ {device[f]} : OwnersOf(b)' = OwnersOf(b)
    BY <1>6, <2>0 DEF Lookup, OwnersOf
  <2> QED
    BY <1>0, <1>6, <2>0, <2>1, <2>2 DEF Lookup, Shares, SameBirths
<1>7. ASSUME NEW f \in Files, ReleaseFile(f) PROVE Drops(device[f], f)
  <2>0. device[f] \in Adapters
    BY <1>7 DEF ReleaseFile
  <2>1. f \in OwnersOf(device[f])
    BY <1>7, <2>0 DEF ReleaseFile, OwnersOf
  <2>2. ASSUME NEW b \in Adapters
        PROVE  OwnersOf(b)' = IF b = device[f] THEN OwnersOf(b) \ {f} ELSE OwnersOf(b)
    BY <1>7, <2>0 DEF ReleaseFile, OwnersOf
  <2> QED
    BY <1>0, <1>7, <2>0, <2>1, <2>2 DEF ReleaseFile, Drops, SameBirths
<1>8. ASSUME NEW f \in Files,
             \/ \E a \in Adapters : OpenRequest(f, a)
             \/ LookupFails(f) \/ OpenNotFound(f)
      PROVE  Keeps
  <2>1. \A b \in Adapters : OwnersOf(b)' = OwnersOf(b)
    BY <1>8 DEF OpenRequest, LookupFails, OpenNotFound, OwnersOf
  <2> QED
    BY <1>0, <1>8, <2>1 DEF OpenRequest, LookupFails, OpenNotFound, Keeps, SameBirths
<1>9. ASSUME NEW f \in Files,
             \/ TakeExclusive(f) \/ OpenRefused(f) \/ OpenFinish(f) \/ DiagOpen(f)
             \/ Cleanup(f) \/ Close(f) \/ DiagClose(f)
      PROVE  Keeps
  <2>1. /\ UNCHANGED <<ndisVars, refVars, device>>
        /\ fileState[f] \in HoldsRef /\ fileState'[f] \in HoldsRef
        /\ \A g \in Files \ {f} : fileState'[g] = fileState[g]
    BY <1>9 DEF TakeExclusive, OpenRefused, OpenFinish, DiagOpen, Cleanup, Close, DiagClose
  <2>2. \A b \in Adapters : OwnersOf(b)' = OwnersOf(b)
    BY <2>1 DEF OwnersOf
  <2> QED
    BY <1>0, <2>1, <2>2 DEF Keeps, SameBirths
<1>10. ASSUME UNCHANGED <<ndisVars, refVars, fileVars>> PROVE Keeps
  BY <1>0, <1>10 DEF OwnersOf, Keeps, SameBirths
<1>11. ASSUME \/ \E r \in Readers :
                   ReadCall(r) \/ ReadCompleted(r) \/ \E f \in TapFiles : ReadBegin(r, f)
              \/ UNCHANGED vars
       PROVE  UNCHANGED <<ndisVars, refVars, fileVars>>
  BY <1>11 DEF ReadCall, ReadRefused, ReadQueued, ReadEnd, ReadCompleted, ReadBegin, vars
<1>12. \A f \in Files : Lookup(f) \/ ReleaseFile(f) => device[f] \in Adapters
  BY DEF Lookup, ReleaseFile
<1>13. ListRef \in AllOwners /\ NdisRef \in AllOwners /\ \A f \in Files : f \in AllOwners
  BY DEF AllOwners
<1> HIDE DEF CountInv, TypeOK, PcInv, Files, NdisStep, FileStep, ndisVars, refVars, fileVars,
             readVars, HoldsRef
<1>14. CASE \E a \in Adapters : CreateBegin(a) \/ RemoveFromGlobalList(a) \/ NdisCall(a)
  BY <1>1, <1>2, <1>3, <1>4, <1>5, <1>13, <1>14 DEF NdisCall, OwnershipStep
<1>15. CASE \E f \in Files : FileCall(f) \/ \E a \in Adapters : OpenRequest(f, a)
  BY <1>6, <1>7, <1>8, <1>9, <1>12, <1>13, <1>15 DEF FileCall, OwnershipStep
<1> QED
  BY <1>10, <1>11, <1>14, <1>15 DEF Next, OwnershipStep

\* The reference count is exact, and every context on the list belongs to a
\* finished AdapterCreate whose device is registered.
THEOREM CountCorrect == Spec => []CountInv
<1> USE FilesAssumption
<1>1. Init => CountInv
  <2> SUFFICES ASSUME Init PROVE CountInv
    OBVIOUS
  <2>1. TypeOK
    BY DEF Init, TypeOK, NdisLabels, FileLabels, Files
  <2>2. PcInv
    BY DEF Init, PcInv
  <2>3. \A a \in Adapters : OwnersOf(a) = {}
    BY DEF Init, OwnersOf, HoldsRef
  <2>4. RefCountExact
    BY <2>3, FS_EmptySet DEF Init, RefCountExact
  <2> QED
    BY <2>1, <2>2, <2>4 DEF CountInv
<1>2. CountInv /\ TypeOK' /\ [Next]_vars => CountInv'
  <2> SUFFICES ASSUME CountInv, TypeOK', [Next]_vars PROVE CountInv'
    OBVIOUS
  <2>1. PcInv'
    BY DEF CountInv, TypeOK, PcInv, Next, NdisCall, FileCall, ReadCall, NdisStep, ndisVars, vars,
           CreateBegin, CreateFails, RegisterDevice, RegisterDiagDevice, AddToGlobalList,
           RemoveFromGlobalList, DestroyTapDevice, Release, OpenRequest, Lookup, LookupFails,
           OpenNotFound, TakeExclusive, OpenRefused, OpenFinish, DiagOpen, Cleanup, Close,
           DiagClose, ReleaseFile, ReadRefused, ReadQueued, ReadEnd, ReadCompleted, ReadBegin
  <2>2. OwnershipStep
    BY StepsOfOwnership
  <2>3. \A a \in Adapters : Own[a] = OwnersOf(a) /\ Own'[a] = OwnersOf(a)'
    BY DEF Own
  <2>4. DOMAIN Own = Adapters
    BY DEF Own
  <2>5. \A a \in Adapters : IsFiniteSet(Own[a]) /\ Cardinality(Own[a]) \in Nat
    BY <2>3, OwnersFinite
  <2>6. /\ refCount \in [Adapters -> Int] /\ context \in [Adapters -> {"none", "live", "freed"}]
        /\ ndisPc \in [Adapters -> NdisLabels]
    BY DEF CountInv, TypeOK
  <2>7. \A a \in Adapters : /\ refCount[a] = Cardinality(Own[a])
                            /\ context[a] = "live" <=> Own[a] # {}
                            /\ context[a] = "none" <=> ndisPc[a] = "none"
    BY <2>3 DEF CountInv, RefCountExact
  <2> DEFINE Exact(a) == /\ refCount'[a] = Cardinality(Own'[a])
                         /\ context'[a] = "live" <=> Own'[a] # {}
                         /\ context'[a] = "none" <=> ndisPc'[a] = "none"
  <2>8. ASSUME Keeps PROVE \A a \in Adapters : Exact(a)
    BY <2>7, <2>8 DEF Keeps, SameBirths, refVars
  <2>9. ASSUME NEW a \in Adapters, Allocates(a) PROVE \A b \in Adapters : Exact(b)
    <3>1. Cardinality({NdisRef}) = 1
      BY FS_Singleton
    <3> QED
      BY <2>4, <2>6, <2>7, <2>9, <3>1 DEF Allocates
  <2>10. ASSUME NEW a \in Adapters, NEW o \in AllOwners, Shares(a, o)
         PROVE  \A b \in Adapters : Exact(b)
    <3>1. Cardinality(Own[a] \cup {o}) = Cardinality(Own[a]) + 1
      BY <2>5, <2>10, FS_AddElement DEF Shares
    <3> QED
      BY <2>4, <2>6, <2>7, <2>10, <3>1 DEF Shares, Reference, SameBirths
  <2>11. ASSUME NEW a \in Adapters, NEW o \in AllOwners, Drops(a, o)
         PROVE  \A b \in Adapters : Exact(b)
    <3>1. /\ IsFiniteSet(Own[a] \ {o})
          /\ Cardinality(Own[a] \ {o}) = Cardinality(Own[a]) - 1
      BY <2>5, <2>11, FS_RemoveElement DEF Drops
    <3>2. refCount[a] = 1 <=> Own[a] \ {o} = {}
      BY <2>5, <2>7, <3>1, FS_EmptySet
    <3>3. Own[a] # {} /\ context[a] = "live"
      BY <2>7, <2>11 DEF Drops
    <3>4. Exact(a)
      BY <2>4, <2>6, <2>7, <2>11, <3>1, <3>2, <3>3 DEF Drops, Dereference, SameBirths
    <3>5. \A b \in Adapters \ {a} : Exact(b)
      BY <2>4, <2>6, <2>7, <2>11 DEF Drops, Dereference, SameBirths
    <3> QED
      BY <3>4, <3>5
  <2>12. \A a \in Adapters : Exact(a)
    <3> HIDE DEF Exact
    <3> QED
      BY <2>2, <2>8, <2>9, <2>10, <2>11 DEF OwnershipStep
  <2>13. RefCountExact'
    BY <2>3, <2>12 DEF RefCountExact
  <2> QED
    BY <2>1, <2>13 DEF CountInv
<1> QED
  BY <1>1, <1>2, TypeCorrect, PTL DEF Spec

\* The reference count is exact.
THEOREM RefCountCorrect == Spec => []RefCountExact
<1>1. CountInv => RefCountExact
  BY DEF CountInv
<1> QED
  BY <1>1, CountCorrect, PTL

\* An open that finds a context on the list can use it.
THEOREM ListedCorrect == Spec => []ListedIsUsable
<1>1. CountInv => ListedIsUsable
  <2> SUFFICES ASSUME CountInv, NEW a \in globalList
               PROVE  context[a] = "live" /\ a \in deviceHandle
    BY DEF ListedIsUsable
  <2>1. a \in Adapters /\ ListRef \in OwnersOf(a)
    BY DEF CountInv, TypeOK, OwnersOf
  <2> QED
    BY <2>1 DEF CountInv, PcInv, RefCountExact
<1> QED
  BY <1>1, CountCorrect, PTL

\* The reference count implements ownership.
THEOREM OwnershipImplemented == Spec => OwnershipRefinement
<1> USE FilesAssumption
<1>1. Init => Ownership!OwnershipInit
  <2> SUFFICES ASSUME Init PROVE Ownership!OwnershipInit
    OBVIOUS
  <2>1. \A a \in Adapters : OwnersOf(a) = {}
    BY DEF Init, OwnersOf, HoldsRef
  <2> QED
    BY <2>1 DEF Init, Ownership!OwnershipInit
<1>2. CountInv /\ [Next]_vars => [Ownership!OwnershipNext]_(Ownership!ownershipVars)
  <2> SUFFICES ASSUME CountInv, [Next]_vars
               PROVE  Ownership!OwnershipNext \/ UNCHANGED Ownership!ownershipVars
    OBVIOUS
  <2>1. OwnershipStep
    BY StepsOfOwnership
  <2>2. \A a \in Adapters : refCount[a] = Cardinality(Own[a])
    BY DEF CountInv, RefCountExact, Own
  <2>3. Own = [a \in Adapters |-> OwnersOf(a)] /\ Own' = [a \in Adapters |-> OwnersOf(a)]'
    BY DEF Own
  <2>4. CASE Keeps
    BY <2>3, <2>4 DEF Keeps, refVars, Ownership!ownershipVars
  <2>5. ASSUME NEW a \in Adapters, Allocates(a) PROVE Ownership!Allocate(a, NdisRef)
    BY <2>3, <2>5 DEF Allocates, Ownership!Allocate
  <2>6. ASSUME NEW a \in Adapters, NEW o \in AllOwners, Shares(a, o)
        PROVE  Ownership!Share(a, o)
    BY <2>3, <2>6 DEF Shares, Reference, Ownership!Share
  <2>7. ASSUME NEW a \in Adapters, NEW o \in AllOwners, Drops(a, o)
        PROVE  Ownership!Drop(a, o)
    <3>1. IsFiniteSet(Own[a]) /\ Cardinality(Own[a]) \in Nat
      BY OwnersFinite DEF Own
    <3>2. /\ IsFiniteSet(Own[a] \ {o})
          /\ Cardinality(Own[a] \ {o}) = Cardinality(Own[a]) - 1
      BY <2>7, <3>1, FS_RemoveElement DEF Drops
    <3>3. refCount[a] = 1 <=> Own[a] \ {o} = {}
      BY <2>2, <3>1, <3>2, FS_EmptySet
    <3>4. Own'[a] = Own[a] \ {o}
      BY <2>7 DEF Drops, Own
    <3>5. context' = IF Own'[a] = {} THEN [context EXCEPT ![a] = "freed"] ELSE context
      BY <2>7, <3>3, <3>4 DEF Drops, Dereference
    <3> QED
      BY <2>3, <2>7, <3>5 DEF Drops, Ownership!Drop
  <2> QED
    BY <2>1, <2>4, <2>5, <2>6, <2>7 DEF OwnershipStep, AllOwners, Ownership!OwnershipNext
<1> QED
  BY <1>1, <1>2, CountCorrect, PTL DEF Spec, OwnershipRefinement, Ownership!OwnershipSpec

-----------------------------------------------------------------------------

\* Exclusive access to the TAP device, and the meaning of TapFileIsOpen: the
\* compare-and-exchange decides between opens, and only the file that won clears
\* TapFileObject.
THEOREM ExclusiveCorrect == Spec => []ExclusiveOpen
<1> USE FilesAssumption DEF Files
<1>1. Init => ExclusiveOpen
  BY DEF Init, ExclusiveOpen
<1>2. TypeOK /\ ExclusiveOpen /\ [Next]_vars => ExclusiveOpen'
  <2> SUFFICES ASSUME TypeOK, ExclusiveOpen, [Next]_vars PROVE ExclusiveOpen'
    OBVIOUS
  <2> USE DEF TypeOK, ExclusiveOpen, FileStep
  <2>1. ASSUME NEW f \in Files, \E a \in Adapters : OpenRequest(f, a) PROVE ExclusiveOpen'
    BY <2>1 DEF OpenRequest
  <2>2. ASSUME NEW f \in Files, Lookup(f) \/ LookupFails(f) \/ OpenNotFound(f)
        PROVE  ExclusiveOpen'
    BY <2>2 DEF Lookup, LookupFails, OpenNotFound
  <2>3. ASSUME NEW f \in Files, TakeExclusive(f) PROVE ExclusiveOpen'
    BY <2>3 DEF TakeExclusive
  <2>4. ASSUME NEW f \in Files, OpenRefused(f) \/ DiagOpen(f) \/ DiagClose(f)
        PROVE  ExclusiveOpen'
    BY <2>4 DEF OpenRefused, DiagOpen, DiagClose
  <2>5. ASSUME NEW f \in Files, OpenFinish(f) PROVE ExclusiveOpen'
    BY <2>5 DEF OpenFinish
  <2>6. ASSUME NEW f \in Files, Cleanup(f) PROVE ExclusiveOpen'
    <3>1. /\ f \in TapFiles /\ device[f] \in Adapters /\ tapFileObject[device[f]] = f
          /\ UNCHANGED <<tapFileObject, device>>
          /\ fileState[f] = "open" /\ fileState' = [fileState EXCEPT ![f] = "cleaned"]
          /\ tapFileIsOpen' = tapFileIsOpen \ {device[f]}
      BY <2>6 DEF Cleanup
    <3>2. \A a \in Adapters, g \in TapFiles :
            tapFileObject'[a] = g
              <=> device'[g] = a /\ fileState'[g] \in {"reset", "open", "cleaned"}
      BY <3>1
    <3>3. \A a \in Adapters, g \in TapFiles :
            device'[g] = a /\ fileState'[g] = "open" => a \in tapFileIsOpen'
      <4> SUFFICES ASSUME NEW a \in Adapters, NEW g \in TapFiles,
                          device'[g] = a, fileState'[g] = "open"
                   PROVE  a \in tapFileIsOpen'
        OBVIOUS
      <4>1. g # f /\ fileState[g] = "open" /\ device[g] = a
        BY <3>1
      <4>2. tapFileObject[a] = g /\ a \in tapFileIsOpen
        BY <4>1
      <4> QED
        BY <3>1, <4>1, <4>2
    <3>4. \A a \in Adapters :
            a \in tapFileIsOpen'
              => tapFileObject'[a] # NoFile /\ fileState'[tapFileObject'[a]] = "open"
      <4> SUFFICES ASSUME NEW a \in Adapters, a \in tapFileIsOpen'
                   PROVE  tapFileObject'[a] # NoFile /\ fileState'[tapFileObject'[a]] = "open"
        OBVIOUS
      <4>1. a \in tapFileIsOpen /\ a # device[f]
        BY <3>1
      <4>2. tapFileObject[a] \in TapFiles /\ fileState[tapFileObject[a]] = "open"
        BY <3>1, <4>1
      <4>3. tapFileObject[a] # f
        BY <3>1, <4>1, <4>2
      <4> QED
        BY <3>1, <4>2, <4>3
    <3> QED
      BY <3>2, <3>3, <3>4
  <2>7. ASSUME NEW f \in Files, Close(f) PROVE ExclusiveOpen'
    BY <2>7 DEF Close
  <2>8. ASSUME NEW f \in Files, ReleaseFile(f) PROVE ExclusiveOpen'
    BY <2>8 DEF ReleaseFile
  <2>9. ASSUME UNCHANGED fileVars PROVE ExclusiveOpen'
    BY <2>9 DEF fileVars
  <2>10. ASSUME \/ \E a \in Adapters : CreateBegin(a) \/ RemoveFromGlobalList(a) \/ NdisCall(a)
                \/ \E r \in Readers :
                     ReadCall(r) \/ ReadCompleted(r) \/ \E f \in TapFiles : ReadBegin(r, f)
                \/ UNCHANGED vars
         PROVE  UNCHANGED fileVars
    BY <2>10 DEF NdisCall, CreateBegin, CreateFails, RegisterDevice, RegisterDiagDevice,
                 AddToGlobalList, RemoveFromGlobalList, DestroyTapDevice, Release, ReadCall,
                 ReadRefused, ReadQueued, ReadEnd, ReadCompleted, ReadBegin, vars
  <2> QED
    BY <2>1, <2>2, <2>3, <2>4, <2>5, <2>6, <2>7, <2>8, <2>9, <2>10 DEF Next, FileCall
<1> QED
  BY <1>1, <1>2, TypeCorrect, PTL DEF Spec

\* A read is with a file that is open or cleaned up, on the context that the file is for.
ReadsOpen ==
  \A r \in readIrps : /\ fileState[readFile[r]] \in {"open", "cleaned"}
                      /\ readContext[r] = device[readFile[r]]

LEMMA ReadsOpenCorrect == Spec => []ReadsOpen
<1> USE FilesAssumption DEF Files
<1>1. Init => ReadsOpen
  BY DEF Init, ReadsOpen
<1>2. TypeOK /\ ReadsOpen /\ [Next]_vars => ReadsOpen'
  <2> SUFFICES ASSUME TypeOK, ReadsOpen, [Next]_vars PROVE ReadsOpen'
    OBVIOUS
  <2> USE DEF TypeOK, ReadsOpen, FileStep
  <2>1. ASSUME NEW f \in Files, FileCall(f) \/ \E a \in Adapters : OpenRequest(f, a)
        PROVE  ReadsOpen'
    <3>1. CASE Cleanup(f)
      <4>1. /\ readIrps' \subseteq readIrps /\ UNCHANGED <<readFile, readContext, device>>
            /\ fileState' = [fileState EXCEPT ![f] = "cleaned"]
        BY <3>1 DEF Cleanup
      <4>2. \A r \in readIrps : readFile[r] \in Files /\ fileState[readFile[r]] \in {"open", "cleaned"}
        OBVIOUS
      <4> QED
        BY <4>1, <4>2
    <3>2. CASE Close(f)
      BY <2>1, <3>2 DEF Close, readVars
    <3>3. ASSUME UNCHANGED readVars, fileState[f] \notin {"open", "cleaned"},
                 \A g \in Files \ {f} : fileState'[g] = fileState[g] /\ device'[g] = device[g]
          PROVE  ReadsOpen'
      BY <3>3 DEF readVars
    <3>4. CASE DiagClose(f)
      BY <2>1, <3>4 DEF DiagClose, readVars
    <3>5. ASSUME \/ Lookup(f) \/ LookupFails(f) \/ OpenNotFound(f) \/ TakeExclusive(f)
                 \/ OpenRefused(f) \/ OpenFinish(f) \/ DiagOpen(f) \/ ReleaseFile(f)
                 \/ \E a \in Adapters : OpenRequest(f, a)
          PROVE  /\ UNCHANGED readVars /\ fileState[f] \notin {"open", "cleaned"}
                 /\ \A g \in Files \ {f} : fileState'[g] = fileState[g] /\ device'[g] = device[g]
      BY <3>5 DEF OpenRequest, Lookup, LookupFails, OpenNotFound, TakeExclusive, OpenRefused,
                  OpenFinish, DiagOpen, ReleaseFile
    <3> QED
      BY <2>1, <3>1, <3>2, <3>3, <3>4, <3>5 DEF FileCall
  <2>2. ASSUME NEW r \in Readers, NEW f \in TapFiles, ReadBegin(r, f)
        PROVE  ReadsOpen'
    BY <2>2 DEF ReadBegin, fileVars
  <2>3. ASSUME UNCHANGED <<fileState, device, readFile, readContext>>, readIrps' \subseteq readIrps
        PROVE  ReadsOpen'
    BY <2>3
  <2>4. ASSUME \/ \E a \in Adapters : CreateBegin(a) \/ RemoveFromGlobalList(a) \/ NdisCall(a)
               \/ \E r \in Readers : ReadCall(r) \/ ReadCompleted(r)
               \/ UNCHANGED vars
        PROVE  UNCHANGED <<fileState, device, readFile, readContext>> /\ readIrps' \subseteq readIrps
    BY <2>4 DEF NdisCall, CreateBegin, CreateFails, RegisterDevice, RegisterDiagDevice,
                AddToGlobalList, RemoveFromGlobalList, DestroyTapDevice, Release, ReadCall,
                ReadRefused, ReadQueued, ReadEnd, ReadCompleted, vars, fileVars, readVars
  <2> QED
    BY <2>1, <2>2, <2>3, <2>4 DEF Next
<1> QED
  BY <1>1, <1>2, TypeCorrect, PTL DEF Spec

\* A read keeps its file open, and so its context live, until it has queued its IRP
\* and the IRP is completed.
THEOREM ReadsHoldFileCorrect == Spec => []ReadsHoldFile
<1> USE FilesAssumption DEF Files
<1>1. TypeOK /\ CountInv /\ ReadsOpen => ReadsHoldFile
  <2> SUFFICES ASSUME TypeOK, CountInv, ReadsOpen, NEW r \in readIrps
               PROVE  context[device[readFile[r]]] = "live"
    BY DEF ReadsHoldFile, ReadsOpen
  <2>1. readFile[r] \in TapFiles /\ device[readFile[r]] \in Adapters
    BY DEF TypeOK, ReadsOpen
  <2>2. readFile[r] \in OwnersOf(device[readFile[r]])
    BY <2>1 DEF ReadsOpen, OwnersOf, HoldsRef
  <2> QED
    BY <2>1, <2>2 DEF CountInv, RefCountExact
<1> QED
  BY <1>1, ReadsOpenCorrect, TypeCorrect, CountCorrect, PTL

-----------------------------------------------------------------------------
(* The one handle of each device                                           *)

Outstanding(a) == {r \in readIrps : readContext[r] = a}

\* The state of a handle is that of the file that holds the device, if there is one.
HandleIsFile ==
  \A a \in Adapters :
    /\ \A f \in TapFiles : device[f] = a =>
         /\ fileState[f] = "reset" => HandleOf(a) = "closed"
         /\ fileState[f] \in {"open", "cleaned"} => HandleOf(a) = fileState[f]
    /\ tapFileObject[a] = NoFile => HandleOf(a) = "closed"

HandleInv == TypeOK /\ ExclusiveOpen /\ ReadsOpen /\ HandleIsFile

LEMMA HandleInvCorrect == Spec => []HandleInv
<1>1. TypeOK /\ ExclusiveOpen => HandleIsFile
  <2> SUFFICES ASSUME TypeOK, ExclusiveOpen, NEW a \in Adapters
               PROVE  /\ \A f \in TapFiles : device[f] = a =>
                           /\ fileState[f] = "reset" => HandleOf(a) = "closed"
                           /\ fileState[f] \in {"open", "cleaned"} => HandleOf(a) = fileState[f]
                      /\ tapFileObject[a] = NoFile => HandleOf(a) = "closed"
    BY DEF HandleIsFile
  <2>1. \A f \in TapFiles, g \in TapFiles :
          /\ device[f] = a /\ fileState[f] \in {"reset", "open", "cleaned"}
          /\ device[g] = a /\ fileState[g] \in {"reset", "open", "cleaned"}
          => f = g
    BY DEF ExclusiveOpen
  <2>2. ASSUME tapFileObject[a] = NoFile, NEW f \in TapFiles, device[f] = a
        PROVE  fileState[f] \notin {"open", "cleaned"}
    BY <2>2, FilesAssumption DEF ExclusiveOpen, Files
  <2> QED
    BY <2>1, <2>2 DEF HandleOf, HasFile
<1> QED
  BY <1>1, TypeCorrect, ExclusiveCorrect, ReadsOpenCorrect, PTL DEF HandleInv

\* A step of a file that holds no device afterwards, or none before, keeps the handles.
LEMMA HandlesKept ==
  ASSUME NEW a \in Adapters,
         \A f \in TapFiles : \A s \in {"open", "cleaned"} :
           (device'[f] = a /\ fileState'[f] = s) <=> (device[f] = a /\ fileState[f] = s)
  PROVE  HandleOf(a)' = HandleOf(a)
<1>1. \A s \in {"open", "cleaned"} : HasFile(a, s)' <=> HasFile(a, s)
  BY DEF HasFile
<1> QED
  BY <1>1 DEF HandleOf

\* The steps of files.
LEMMA FileHandles ==
  ASSUME HandleInv, HandleInv', NEW a \in Adapters, NEW f \in Files,
         FileCall(f) \/ \E b \in Adapters : OpenRequest(f, b)
  PROVE  [Handle(a)!HandleNext]_(Handle(a)!handleVars)
<1> USE FilesAssumption DEF Files, FileStep, TypeOK, HandleInv
<1> DEFINE Moves(from, to) == /\ f \in TapFiles /\ device' = device
                              /\ fileState[f] = from /\ fileState' = [fileState EXCEPT ![f] = to]
<1>1. ASSUME device[f] # a, NEW from, NEW to, Moves(from, to)
      PROVE  HandleOf(a)' = HandleOf(a)
  BY <1>1, HandlesKept
<1>2. CASE OpenFinish(f)
  <2>1. Moves("reset", "open") /\ UNCHANGED readVars
    BY <1>2 DEF OpenFinish
  <2>2. CASE device[f] = a
    <3>1. HandleOf(a) = "closed" /\ HandleOf(a)' = "open"
      BY <2>1, <2>2 DEF HandleIsFile
    <3> QED
      BY <2>1, <3>1 DEF readVars, Handle!HandleNext, Handle!Open
  <2>3. CASE device[f] # a
    BY <1>1, <2>1, <2>3 DEF readVars, Handle!handleVars
  <2> QED
    BY <2>2, <2>3
<1>3. CASE Cleanup(f)
  <2>1. /\ Moves("open", "cleaned") /\ UNCHANGED readContext
        /\ readIrps' = {r \in readIrps : readContext[r] # device[f] \/ readPc[r] = "ready"}
    BY <1>3 DEF Cleanup
  <2>2. CASE device[f] = a
    <3> DEFINE done == {r \in readIrps : readContext[r] = a /\ readPc[r] # "ready"}
    <3>1. HandleOf(a) = "open" /\ HandleOf(a)' = "cleaned"
      BY <2>1, <2>2 DEF HandleIsFile
    <3>2. Outstanding(a)' = Outstanding(a) \ done /\ done \in SUBSET Readers
      BY <2>1, <2>2 DEF Outstanding
    <3> QED
      BY <3>1, <3>2 DEF Outstanding, Handle!HandleNext, Handle!Cleanup
  <2>3. CASE device[f] # a
    <3>1. HandleOf(a)' = HandleOf(a)
      BY <1>1, <2>1, <2>3
    <3>2. Outstanding(a)' = Outstanding(a)
      BY <2>1, <2>3 DEF Outstanding
    <3> QED
      BY <3>1, <3>2 DEF Outstanding, Handle!handleVars
  <2> QED
    BY <2>2, <2>3
<1>4. CASE Close(f)
  <2>1. /\ Moves("cleaned", "release") /\ UNCHANGED readVars
        /\ \A r \in readIrps : readFile[r] # f
        /\ tapFileObject' = [tapFileObject EXCEPT ![device[f]] = NoFile]
    BY <1>4 DEF Close
  <2>2. CASE device[f] = a
    <3>1. HandleOf(a) = "cleaned" /\ HandleOf(a)' = "closed"
      BY <2>1, <2>2 DEF HandleIsFile
    <3>2. tapFileObject[a] = f
      BY <2>1, <2>2 DEF ExclusiveOpen
    <3>3. \A r \in readIrps : readContext[r] = a => tapFileObject[a] = readFile[r]
      BY DEF ReadsOpen, ExclusiveOpen
    <3>4. Outstanding(a) = {}
      BY <2>1, <3>2, <3>3 DEF Outstanding
    <3> QED
      BY <2>1, <3>1, <3>4 DEF Outstanding, readVars, Handle!HandleNext, Handle!Close
  <2>3. CASE device[f] # a
    BY <1>1, <2>1, <2>3 DEF readVars, Handle!handleVars
  <2> QED
    BY <2>2, <2>3
<1>5. CASE \/ Lookup(f) \/ LookupFails(f) \/ OpenNotFound(f) \/ TakeExclusive(f)
           \/ OpenRefused(f) \/ DiagOpen(f) \/ DiagClose(f) \/ ReleaseFile(f)
           \/ \E b \in Adapters : OpenRequest(f, b)
  <2>1. /\ \A g \in Files \ {f} : fileState'[g] = fileState[g] /\ device'[g] = device[g]
        /\ f \in TapFiles => /\ fileState[f] \notin {"open", "cleaned"}
                             /\ fileState'[f] \notin {"open", "cleaned"}
        /\ UNCHANGED readVars
    BY <1>5 DEF OpenRequest, Lookup, LookupFails, OpenNotFound, TakeExclusive, OpenRefused,
                DiagOpen, DiagClose, ReleaseFile
  <2>2. HandleOf(a)' = HandleOf(a)
    BY <2>1, HandlesKept
  <2> QED
    BY <2>1, <2>2 DEF readVars, Handle!handleVars
<1> QED
  BY <1>2, <1>3, <1>4, <1>5 DEF FileCall

\* The steps of reads, of AdapterCreate and of AdapterHalt.
LEMMA OtherHandles ==
  ASSUME HandleInv, NEW a \in Adapters,
         \/ \E b \in Adapters : CreateBegin(b) \/ RemoveFromGlobalList(b) \/ NdisCall(b)
         \/ \E r \in Readers :
              ReadCall(r) \/ ReadCompleted(r) \/ \E f \in TapFiles : ReadBegin(r, f)
         \/ UNCHANGED vars
  PROVE  [Handle(a)!HandleNext]_(Handle(a)!handleVars)
<1> USE DEF TypeOK, HandleInv, fileVars, readVars
<1>1. ASSUME NEW r \in Readers, NEW f \in TapFiles, ReadBegin(r, f)
      PROVE  [Handle(a)!HandleNext]_(Handle(a)!handleVars)
  <2>1. HandleOf(a)' = HandleOf(a)
    BY <1>1, HandlesKept DEF ReadBegin
  <2>2. CASE device[f] = a
    <3>1. HandleOf(a) = "open"
      BY <1>1, <2>2 DEF ReadBegin, HandleIsFile
    <3>2. r \notin Outstanding(a) /\ Outstanding(a)' = Outstanding(a) \cup {r}
      BY <1>1, <2>2 DEF ReadBegin, Outstanding
    <3>3. Handle(a)!Issue(r)
      BY <2>1, <3>1, <3>2 DEF Outstanding, Handle!Issue
    <3> QED
      BY <3>3 DEF Handle!HandleNext
  <2>3. CASE device[f] # a
    <3>1. Outstanding(a)' = Outstanding(a)
      BY <1>1, <2>3 DEF ReadBegin, Outstanding
    <3> QED
      BY <2>1, <3>1 DEF Outstanding, Handle!handleVars
  <2> QED
    BY <2>2, <2>3
<1>2. ASSUME UNCHANGED <<fileVars, readContext>>, readIrps' \subseteq readIrps
      PROVE  Handle(a)!HandleNext
  <2>1. HandleOf(a)' = HandleOf(a)
    BY <1>2, HandlesKept
  <2>2. /\ Outstanding(a)' = Outstanding(a) \ (readIrps \ readIrps')
        /\ readIrps \ readIrps' \in SUBSET Readers
    BY <1>2 DEF Outstanding
  <2> QED
    BY <2>1, <2>2 DEF Outstanding, Handle!HandleNext, Handle!Finish
<1>3. ASSUME \/ \E b \in Adapters : CreateBegin(b) \/ RemoveFromGlobalList(b) \/ NdisCall(b)
             \/ \E r \in Readers : ReadCall(r) \/ ReadCompleted(r)
             \/ UNCHANGED vars
      PROVE  UNCHANGED <<fileVars, readContext>> /\ readIrps' \subseteq readIrps
  BY <1>3 DEF NdisCall, CreateBegin, CreateFails, RegisterDevice, RegisterDiagDevice,
              AddToGlobalList, RemoveFromGlobalList, DestroyTapDevice, Release, ReadCall,
              ReadRefused, ReadQueued, ReadEnd, ReadCompleted, vars
<1> QED
  BY <1>1, <1>2, <1>3

\* Each device has one handle at a time, with reads only while it is open and
\* none left when it is closed: the exclusive open and the custody of reads make, of any
\* number of racing files, what the models of one adapter's paths start from.
THEOREM HandleImplemented == Spec => HandleRefinement
<1>1. Init => \A a \in Adapters : Handle(a)!HandleInit
  <2> SUFFICES ASSUME Init, NEW a \in Adapters PROVE Handle(a)!HandleInit
    OBVIOUS
  <2>1. HandleOf(a) = "closed"
    BY DEF Init, HandleOf, HasFile, Files
  <2> QED
    BY <2>1 DEF Init, Handle!HandleInit
<1>2. HandleInv /\ HandleInv' /\ [Next]_vars
      => \A a \in Adapters : [Handle(a)!HandleNext]_(Handle(a)!handleVars)
  <2> SUFFICES ASSUME HandleInv, HandleInv', [Next]_vars, NEW a \in Adapters
               PROVE  [Handle(a)!HandleNext]_(Handle(a)!handleVars)
    OBVIOUS
  <2> QED
    BY FileHandles, OtherHandles DEF Next
<1>3. HandleInv /\ HandleInv' /\ [Next]_vars
      => [\A a \in Adapters : [Handle(a)!HandleNext]_(Handle(a)!handleVars)]_vars
  BY <1>2
<1> QED
  BY <1>1, <1>3, HandleInvCorrect, PTL DEF Spec, HandleRefinement
==========================================================================
