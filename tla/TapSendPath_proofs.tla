------------------------- MODULE TapSendPath_proofs -------------------------
(***************************************************************************)
(* Proofs about TapSendPath, for any number of senders, readers and NBLs.  *)
(***************************************************************************)
EXTENDS TapSendPath, SequenceTheorems, FiniteSetTheorems, TLAPS

\* What is left of a queue when its i-th element is taken out (cancellation of a
\* read IRP, tapIrpCsqRemoveIrp).
LEMMA RemoveAtProperties ==
  ASSUME NEW S, NEW q \in Seq(S), NEW i \in DOMAIN q
  PROVE  /\ RemoveAt(q, i) \in Seq(S)
         /\ Len(RemoveAt(q, i)) = Len(q) - 1
         /\ \A j \in 1 .. Len(q) - 1 : RemoveAt(q, i)[j] = IF j < i THEN q[j] ELSE q[j + 1]
<1> DEFINE front == SubSeq(q, 1, i - 1)
           back == SubSeq(q, i + 1, Len(q))
<1>1. i \in 1 .. Len(q) /\ Len(q) \in Nat
  BY LenProperties
<1>2. front \in Seq(S) /\ Len(front) = i - 1 /\ \A j \in 1 .. i - 1 : front[j] = q[j]
  BY <1>1, SubSeqProperties
<1>3. back \in Seq(S) /\ Len(back) = Len(q) - i
      /\ \A j \in 1 .. Len(q) - i : back[j] = q[i + j]
  BY <1>1, SubSeqProperties
<1>4. RemoveAt(q, i) = front \o back
  BY DEF RemoveAt
<1> HIDE DEF front, back
<1>5. /\ front \o back \in Seq(S)
      /\ Len(front \o back) = Len(front) + Len(back)
      /\ \A j \in 1 .. Len(front) + Len(back) :
           (front \o back)[j] = IF j <= Len(front) THEN front[j] ELSE back[j - Len(front)]
  BY <1>2, <1>3, ConcatProperties
<1>6. ASSUME NEW j \in 1 .. Len(q) - 1
      PROVE  (front \o back)[j] = IF j < i THEN q[j] ELSE q[j + 1]
  <2>1. CASE j < i
    <3>0. j \in 1 .. i - 1 /\ j \in 1 .. Len(front) + Len(back) /\ j <= Len(front)
      BY <2>1, <1>1, <1>2, <1>3
    <3>1. (front \o back)[j] = front[j]
      BY <3>0, <1>5
    <3>2. front[j] = q[j]
      BY <3>0, <1>2
    <3> QED
      BY <2>1, <3>1, <3>2
  <2>2. CASE ~(j < i)
    <3>0. j \in 1 .. Len(front) + Len(back) /\ ~(j <= Len(front)) /\ Len(front) = i - 1
      BY <2>2, <1>1, <1>2, <1>3
    <3>1. (front \o back)[j] = back[j - (i - 1)]
      BY <3>0, <1>5
    <3>2. j - (i - 1) \in 1 .. Len(q) - i /\ i + (j - (i - 1)) = j + 1
      BY <2>2, <1>1
    <3> QED
      BY <2>2, <3>1, <3>2, <1>3
  <2> QED
    BY <2>1, <2>2
<1>7. Len(front \o back) = Len(q) - 1
  BY <1>1, <1>2, <1>3, <1>5
<1>8. \A j \in 1 .. Len(q) - 1 : (front \o back)[j] = IF j < i THEN q[j] ELSE q[j + 1]
  BY <1>6
<1> QED
  BY <1>4, <1>5, <1>7, <1>8

\* What the operations on a queue do to the set of its elements.
LEMMA QueueSets ==
  ASSUME NEW S, NEW q \in Seq(S)
  PROVE  /\ \A x \in S : ToSet(Append(q, x)) = ToSet(q) \cup {x}
         /\ q # <<>> => Head(q) \in ToSet(q) /\ ToSet(Tail(q)) \subseteq ToSet(q)
         /\ \A i \in DOMAIN q : q[i] \in ToSet(q) /\ ToSet(RemoveAt(q, i)) \subseteq ToSet(q)
<1> USE DEF ToSet
<1>1. ASSUME NEW x \in S PROVE ToSet(Append(q, x)) = ToSet(q) \cup {x}
  <2>1. /\ DOMAIN Append(q, x) = 1 .. Len(q) + 1
        /\ Append(q, x)[Len(q) + 1] = x
        /\ \A j \in 1 .. Len(q) : Append(q, x)[j] = q[j]
    BY AppendProperties
  <2>2. DOMAIN q = 1 .. Len(q) /\ Len(q) \in Nat
    BY LenProperties
  <2>3. 1 .. Len(q) + 1 = (1 .. Len(q)) \cup {Len(q) + 1}
    BY <2>2
  <2> QED
    BY <2>1, <2>2, <2>3, Zenon
<1>2. ASSUME q # <<>> PROVE Head(q) \in ToSet(q) /\ ToSet(Tail(q)) \subseteq ToSet(q)
  BY <1>2, HeadTailProperties, LenProperties, EmptySeq
<1>3. ASSUME NEW i \in DOMAIN q
      PROVE  q[i] \in ToSet(q) /\ ToSet(RemoveAt(q, i)) \subseteq ToSet(q)
  <2>1. /\ RemoveAt(q, i) \in Seq(S)
        /\ Len(RemoveAt(q, i)) = Len(q) - 1
        /\ \A j \in 1 .. Len(q) - 1 : RemoveAt(q, i)[j] \in {q[j], q[j + 1]}
    BY RemoveAtProperties
  <2>2. DOMAIN q = 1 .. Len(q) /\ Len(q) \in Nat /\ DOMAIN RemoveAt(q, i) = 1 .. Len(q) - 1
    BY <2>1, LenProperties
  <2> QED
    BY <2>1, <2>2
<1> QED
  BY <1>1, <1>2, <1>3

\* The operations on a queue keep its elements distinct.
LEMMA QueueInjective ==
  ASSUME NEW S, NEW q \in Seq(S), IsInjective(q)
  PROVE  /\ \A x \in S \ ToSet(q) : IsInjective(Append(q, x))
         /\ q # <<>> => Head(q) \notin ToSet(Tail(q)) /\ IsInjective(Tail(q))
         /\ \A i \in DOMAIN q : IsInjective(RemoveAt(q, i))
<1> USE DEF IsInjective
<1>0. DOMAIN q = 1 .. Len(q) /\ Len(q) \in Nat
  BY LenProperties
<1>1. ASSUME NEW x \in S \ ToSet(q) PROVE IsInjective(Append(q, x))
  <2>1. /\ DOMAIN Append(q, x) = 1 .. Len(q) + 1
        /\ Append(q, x)[Len(q) + 1] = x
        /\ \A j \in 1 .. Len(q) : Append(q, x)[j] = q[j] /\ q[j] # x
    BY <1>0, <1>1, AppendProperties DEF ToSet
  <2> QED
    BY <1>0, <2>1
<1>2. ASSUME q # <<>> PROVE Head(q) \notin ToSet(Tail(q)) /\ IsInjective(Tail(q))
  <2>1. /\ Head(q) = q[1]
        /\ DOMAIN Tail(q) = 1 .. Len(q) - 1
        /\ \A j \in 1 .. Len(q) - 1 : Tail(q)[j] = q[j + 1]
        /\ 1 \in DOMAIN q
    BY <1>0, <1>2, HeadTailProperties, LenProperties, EmptySeq
  <2> QED
    BY <1>0, <2>1 DEF ToSet
<1>3. ASSUME NEW i \in DOMAIN q PROVE IsInjective(RemoveAt(q, i))
  <2>1. /\ DOMAIN RemoveAt(q, i) = 1 .. Len(q) - 1
        /\ \A j \in 1 .. Len(q) - 1 : RemoveAt(q, i)[j] = IF j < i THEN q[j] ELSE q[j + 1]
    BY RemoveAtProperties, LenProperties
  <2>2. SUFFICES ASSUME NEW a \in 1 .. Len(q) - 1, NEW b \in 1 .. Len(q) - 1,
                        RemoveAt(q, i)[a] = RemoveAt(q, i)[b]
                 PROVE  a = b
    BY <2>1
  <2>3. DEFINE at(j) == IF j < i THEN j ELSE j + 1
  <2>4. at(a) \in DOMAIN q /\ at(b) \in DOMAIN q /\ q[at(a)] = q[at(b)]
    BY <1>0, <2>1, <2>2
  <2>5. at(a) = at(b)
    BY <2>4
  <2> QED
    BY <1>0, <2>5
<1> QED
  BY <1>1, <1>2, <1>3

\* A queue with an element in front of it (the frame or the IRP a thread has taken out
\* and not yet completed), element by element.
LEMMA FrontElements ==
  ASSUME NEW S, NEW x \in S, NEW s \in Seq(S)
  PROVE  /\ <<x>> \o s \in Seq(S) /\ Len(s) \in Nat /\ Len(<<x>> \o s) = Len(s) + 1
         /\ DOMAIN (<<x>> \o s) = 1 .. Len(s) + 1
         /\ (<<x>> \o s)[1] = x /\ \A j \in 1 .. Len(s) : (<<x>> \o s)[j + 1] = s[j]
<1> DEFINE F == <<x>> \o s
<1>1. <<x>> \in Seq(S) /\ Len(<<x>>) = 1 /\ <<x>>[1] = x
  OBVIOUS
<1>2. /\ F \in Seq(S) /\ Len(F) = Len(<<x>>) + Len(s)
      /\ \A j \in 1 .. Len(<<x>>) + Len(s) :
           F[j] = IF j <= Len(<<x>>) THEN <<x>>[j] ELSE s[j - Len(<<x>>)]
  BY <1>1, ConcatProperties
<1>3. Len(s) \in Nat /\ DOMAIN F = 1 .. Len(F)
  BY <1>2, LenProperties
<1> HIDE DEF F
<1>4. ASSUME NEW j \in 1 .. Len(s) PROVE F[j + 1] = s[j]
  <2>1. j + 1 \in 1 .. 1 + Len(s) /\ ~(j + 1 <= 1) /\ (j + 1) - 1 = j
    BY <1>3
  <2> QED
    BY <1>1, <1>2, <2>1
<1>5. F[1] = x
  BY <1>1, <1>2, <1>3
<1>6. Len(F) = Len(s) + 1 /\ DOMAIN F = 1 .. Len(s) + 1
  BY <1>1, <1>2, <1>3
<1> QED
  BY <1>2, <1>3, <1>4, <1>5, <1>6 DEF F
\* Its head and tail, and an append to it.
LEMMA FrontProperties ==
  ASSUME NEW S, NEW x \in S, NEW q \in Seq(S)
  PROVE  /\ <<x>> \o q # <<>> /\ Tail(<<x>> \o q) = q
         /\ q # <<>> => <<Head(q)>> \o Tail(q) = q
         /\ \A y \in S : <<x>> \o Append(q, y) = Append(<<x>> \o q, y)
<1> DEFINE F(s) == <<x>> \o s
<1>1. Len(q) \in Nat /\ DOMAIN q = 1 .. Len(q)
  BY LenProperties
<1>2. ASSUME NEW s \in Seq(S)
      PROVE  /\ F(s) \in Seq(S) /\ Len(s) \in Nat /\ Len(F(s)) = Len(s) + 1
             /\ DOMAIN F(s) = 1 .. Len(s) + 1
             /\ F(s)[1] = x /\ \A j \in 1 .. Len(s) : F(s)[j + 1] = s[j]
  BY FrontElements
<1> HIDE DEF F
<1>3. F(q) # <<>> /\ Tail(F(q)) = q
  <2>1. F(q) # <<>>
    BY <1>1, <1>2, EmptySeq
  <2>2. /\ Tail(F(q)) \in Seq(S) /\ Len(Tail(F(q))) = Len(q)
        /\ \A j \in 1 .. Len(q) : Tail(F(q))[j] = F(q)[j + 1]
    BY <1>1, <1>2, <2>1, HeadTailProperties
  <2>3. \A j \in 1 .. Len(q) : Tail(F(q))[j] = q[j]
    BY <1>2, <2>2
  <2> QED
    BY <2>1, <2>2, <2>3, SeqEqual
<1>4. ASSUME q # <<>> PROVE <<Head(q)>> \o Tail(q) = q
  <2>1. /\ SubSeq(q, 1, Len(q)) = q /\ Tail(q) = SubSeq(q, 2, Len(q)) /\ Head(q) = q[1]
        /\ 1 \in 1 .. Len(q) /\ Len(q) \in 1 .. Len(q)
    <3>1. SubSeq(q, 1, Len(q)) = q
      BY SubSeqFull
    <3>2. Tail(q) = SubSeq(q, 2, Len(q))
      BY <1>4, TailIsSubSeq
    <3>3. Len(q) \in Nat \ {0}
      BY <1>4, EmptySeq
    <3>4. Head(q) = q[1]
      BY <1>4
    <3> QED
      BY <3>1, <3>2, <3>3, <3>4
  <2>2. SubSeq(q, 1, Len(q)) = <<q[1]>> \o SubSeq(q, 1 + 1, Len(q))
    BY <2>1, SubSeqRecursiveFirst
  <2> QED
    BY <2>1, <2>2
<1>5. ASSUME NEW y \in S PROVE F(Append(q, y)) = Append(F(q), y)
  <2>1. /\ Append(q, y) \in Seq(S) /\ Len(Append(q, y)) = Len(q) + 1
        /\ \A j \in 1 .. Len(q) : Append(q, y)[j] = q[j]
        /\ Append(q, y)[Len(q) + 1] = y
    BY <1>1, AppendProperties
  <2>2. /\ Append(F(q), y) \in Seq(S) /\ Len(Append(F(q), y)) = Len(q) + 2
        /\ \A j \in 1 .. Len(q) + 1 : Append(F(q), y)[j] = F(q)[j]
        /\ Append(F(q), y)[Len(q) + 2] = y
    BY <1>1, <1>2, AppendProperties
  <2>3. /\ F(Append(q, y)) \in Seq(S) /\ Len(F(Append(q, y))) = Len(q) + 2
        /\ F(Append(q, y))[1] = x
        /\ \A j \in 1 .. Len(q) + 1 : F(Append(q, y))[j + 1] = Append(q, y)[j]
    <3> DEFINE a == Append(q, y)
    <3>1. a \in Seq(S) /\ Len(a) = Len(q) + 1
      BY <2>1
    <3> HIDE DEF a
    <3>2. /\ F(a) \in Seq(S) /\ Len(F(a)) = Len(a) + 1
          /\ F(a)[1] = x /\ \A j \in 1 .. Len(a) : F(a)[j + 1] = a[j]
      BY <1>2, <3>1
    <3> QED
      BY <1>1, <3>1, <3>2 DEF a
  <2>4. ASSUME NEW j \in 1 .. Len(q) + 2 PROVE F(Append(q, y))[j] = Append(F(q), y)[j]
    <3>1. CASE j = 1
      BY <1>1, <1>2, <2>2, <2>3, <3>1
    <3>2. CASE j = Len(q) + 2
      BY <1>1, <2>1, <2>2, <2>3, <3>2
    <3>3. CASE j # 1 /\ j # Len(q) + 2
      <4>1. j - 1 \in 1 .. Len(q) /\ j \in 1 .. Len(q) + 1 /\ (j - 1) + 1 = j /\ j - 1 \in 1 .. Len(q) + 1
        BY <1>1, <3>3
      <4>2. F(Append(q, y))[j] = Append(q, y)[j - 1] /\ Append(q, y)[j - 1] = q[j - 1]
        BY <2>1, <2>3, <4>1
      <4>3. Append(F(q), y)[j] = F(q)[j] /\ F(q)[j] = q[j - 1]
        BY <1>2, <2>2, <4>1
      <4> QED
        BY <4>2, <4>3
    <3> QED
      BY <3>1, <3>2, <3>3
  <2> QED
    BY <2>2, <2>3, <2>4, SeqEqual
<1> QED
  BY <1>3, <1>4, <1>5 DEF F

\* Its set of elements.
LEMMA FrontSet ==
  ASSUME NEW S, NEW x \in S, NEW q \in Seq(S)
  PROVE  ToSet(<<x>> \o q) = {x} \cup ToSet(q)
<1> DEFINE f == <<x>> \o q
<1>1. /\ Len(q) \in Nat /\ DOMAIN q = 1 .. Len(q) /\ DOMAIN f = 1 .. Len(q) + 1
      /\ f[1] = x /\ \A j \in 1 .. Len(q) : f[j + 1] = q[j]
  BY FrontElements, LenProperties
<1> HIDE DEF f
<1>2. 1 \in DOMAIN f /\ \A j \in DOMAIN q : j + 1 \in DOMAIN f /\ f[j + 1] = q[j]
  BY <1>1
<1>3. ASSUME NEW j \in DOMAIN f, j # 1 PROVE j - 1 \in DOMAIN q /\ f[j] = q[j - 1]
  <2>1. j - 1 \in 1 .. Len(q) /\ (j - 1) + 1 = j
    BY <1>1, <1>3
  <2> QED
    BY <1>1, <2>1
<1>4. ToSet(f) \subseteq {x} \cup ToSet(q)
  BY <1>1, <1>3 DEF ToSet
<1>5. {x} \cup ToSet(q) \subseteq ToSet(f)
  BY <1>1, <1>2 DEF ToSet
<1> QED
  BY <1>4, <1>5 DEF f

\* A removal behind the front.
LEMMA FrontRemoveAt ==
  ASSUME NEW S, NEW x \in S, NEW q \in Seq(S), NEW i \in DOMAIN q
  PROVE  /\ i + 1 \in DOMAIN (<<x>> \o q) /\ (<<x>> \o q)[i + 1] = q[i]
         /\ RemoveAt(<<x>> \o q, i + 1) = <<x>> \o RemoveAt(q, i)
<1> DEFINE F(s) == <<x>> \o s
<1>1. Len(q) \in Nat /\ DOMAIN q = 1 .. Len(q)
  BY LenProperties
<1>2. ASSUME NEW s \in Seq(S)
      PROVE  /\ F(s) \in Seq(S) /\ Len(s) \in Nat /\ Len(F(s)) = Len(s) + 1
             /\ DOMAIN F(s) = 1 .. Len(s) + 1
             /\ F(s)[1] = x /\ \A j \in 1 .. Len(s) : F(s)[j + 1] = s[j]
  BY FrontElements
<1> HIDE DEF F
<1>3. /\ i + 1 \in DOMAIN F(q) /\ F(q)[i + 1] = q[i]
      /\ RemoveAt(F(q), i + 1) = F(RemoveAt(q, i))
  <2>1. i \in 1 .. Len(q) /\ i + 1 \in DOMAIN F(q) /\ F(q)[i + 1] = q[i]
    BY <1>1, <1>2
  <2>2. /\ RemoveAt(q, i) \in Seq(S) /\ Len(RemoveAt(q, i)) = Len(q) - 1
        /\ \A j \in 1 .. Len(q) - 1 : RemoveAt(q, i)[j] = IF j < i THEN q[j] ELSE q[j + 1]
    BY RemoveAtProperties
  <2>3. /\ RemoveAt(F(q), i + 1) \in Seq(S) /\ Len(RemoveAt(F(q), i + 1)) = Len(q)
        /\ \A j \in 1 .. Len(q) :
             RemoveAt(F(q), i + 1)[j] = IF j < i + 1 THEN F(q)[j] ELSE F(q)[j + 1]
    <3>1. /\ RemoveAt(F(q), i + 1) \in Seq(S) /\ Len(RemoveAt(F(q), i + 1)) = Len(F(q)) - 1
          /\ \A j \in 1 .. Len(F(q)) - 1 :
               RemoveAt(F(q), i + 1)[j] = IF j < i + 1 THEN F(q)[j] ELSE F(q)[j + 1]
      BY <1>2, <2>1, RemoveAtProperties
    <3> QED
      BY <1>1, <1>2, <3>1
  <2>4. /\ F(RemoveAt(q, i)) \in Seq(S) /\ Len(F(RemoveAt(q, i))) = Len(q)
        /\ F(RemoveAt(q, i))[1] = x
        /\ \A j \in 1 .. Len(q) - 1 : F(RemoveAt(q, i))[j + 1] = RemoveAt(q, i)[j]
    BY <1>1, <1>2, <2>2
  <2>5. ASSUME NEW j \in 1 .. Len(q) PROVE RemoveAt(F(q), i + 1)[j] = F(RemoveAt(q, i))[j]
    <3>1. CASE j = 1
      <4>1. RemoveAt(F(q), i + 1)[1] = F(q)[1] /\ F(q)[1] = x
        BY <1>2, <2>1, <2>3, <2>5, <3>1
      <4> QED
        BY <2>4, <3>1, <4>1
    <3>2. CASE j # 1
      <4>1. /\ j - 1 \in 1 .. Len(q) - 1 /\ (j - 1) + 1 = j /\ j - 1 \in 1 .. Len(q)
            /\ (j < i + 1 <=> j - 1 < i)
        BY <1>1, <2>1, <3>2
      <4>2. F(RemoveAt(q, i))[j] = IF j - 1 < i THEN q[j - 1] ELSE q[j]
        BY <2>2, <2>4, <4>1
      <4>3. F(q)[j] = q[j - 1] /\ F(q)[j + 1] = q[j]
        BY <1>2, <4>1
      <4> QED
        BY <2>3, <4>1, <4>2, <4>3
    <3> QED
      BY <3>1, <3>2
  <2> QED
    BY <2>1, <2>3, <2>4, <2>5, SeqEqual
<1> QED
  BY <1>3 DEF F

-----------------------------------------------------------------------------

\* The type invariant is inductive by itself: every queue and list holds what it
\* should, and the index of the transmit loop stays within its chain.
THEOREM TypeCorrect == Spec => []TypeOK
<1> USE ThreadsAssumption, NblsAssumption, SizesAssumption
        DEF AdapterTypeOK, QueueTypeOK, NblTypeOK, PcTypeOK, Threads, Labels, SenderLabels,
            HoldingLabels, ReaderLabels, ProcessLabels, FlushLabels, AppLabels, HalterLabels
<1>1. Init => TypeOK
  <2> SUFFICES ASSUME Init PROVE TypeOK
    OBVIOUS
  <2>1. AdapterTypeOK
    BY DEF Init
  <2>2. QueueTypeOK
    BY DEF Init
  <2>3. PcTypeOK
    BY DEF Init
  <2>4. NblTypeOK
    BY <2>3 DEF Init
  <2> QED
    BY <2>1, <2>2, <2>3, <2>4 DEF TypeOK
<1>2. TypeOK /\ [Next]_vars => TypeOK'
  <2> SUFFICES ASSUME TypeOK, [Next]_vars PROVE TypeOK'
    OBVIOUS
  <2> USE DEF TypeOK, Goto, Step
  <2>1. ASSUME NEW s \in Senders, NEW n \in Nbls, SendBegin(s, n) PROVE TypeOK'
    BY <2>1 DEF SendBegin, adapterVars, queueVars, nblVars
  <2>2. ASSUME NEW s \in Senders, SendReject(s) PROVE TypeOK'
    BY <2>2 DEF SendReject, SendComplete, adapterVars, queueVars, nblVars
  <2>3. ASSUME NEW s \in Senders, SendAccept(s) PROVE TypeOK'
    BY <2>3 DEF SendAccept, adapterVars, queueVars, nblVars
  <2>4. ASSUME NEW s \in Senders, TransmitDrop(s) PROVE TypeOK'
    <3>1. AdapterTypeOK'
      BY <2>4 DEF TransmitDrop, NextNb, queueVars, adapterVars
    <3>2. QueueTypeOK'
      BY <2>4 DEF TransmitDrop, NextNb, queueVars, queueVars
    <3>3. NblTypeOK'
      <4>1. \A x \in Senders \ {s} : pc'[x] = pc[x] /\ nb'[x] = nb[x] /\ nbl' = nbl
        BY <2>4 DEF TransmitDrop, NextNb
      <4>2. nb[s] \in 1 .. NbCount[nbl[s]] /\ NbCount[nbl[s]] \in Nat /\ nbl[s] \in Nbls
        BY <2>4 DEF TransmitDrop
      <4>3. pc'[s] \in {"transmit", "insert"} => nb'[s] \in 1 .. NbCount[nbl'[s]]
        BY <2>4, <4>2 DEF TransmitDrop, NextNb
      <4>4. nb' = [nb EXCEPT ![s] = nb[s] + 1] \/ nb' = [nb EXCEPT ![s] = 0]
        BY <2>4 DEF TransmitDrop, NextNb
      <4>5. nb' \in [Senders -> Nat]
        BY <4>2, <4>4
      <4> QED
        BY <2>4, <4>1, <4>2, <4>3, <4>5 DEF TransmitDrop, nblVars
    <3>4. PcTypeOK'
      <4>1. pc' = [pc EXCEPT ![s] = "transmit"] \/ pc' = [pc EXCEPT ![s] = "flowCheck"]
        BY <2>4 DEF TransmitDrop, NextNb
      <4>2. CASE pc' = [pc EXCEPT ![s] = "transmit"]
        BY <4>2
      <4>3. CASE pc' = [pc EXCEPT ![s] = "flowCheck"]
        BY <4>3
      <4> QED
        BY <4>1, <4>2, <4>3
    <3> QED
      BY <3>1, <3>2, <3>3, <3>4
  <2>5. ASSUME NEW s \in Senders, TransmitReady(s) PROVE TypeOK'
    BY <2>5 DEF TransmitReady, adapterVars, queueVars, nblVars
  <2>6. ASSUME NEW s \in Senders, InsertTail(s) PROVE TypeOK'
    <3>1. AdapterTypeOK'
      BY <2>6 DEF InsertTail, NextNb, adapterVars
    <3>2. QueueTypeOK'
      <4>1. <<nbl[s], nb[s]>> \in Frames
        BY <2>6 DEF InsertTail, Frames
      <4> QED
        BY <2>6, <4>1 DEF InsertTail
    <3>3. NblTypeOK'
      <4>1. \A x \in Senders \ {s} : pc'[x] = pc[x] /\ nb'[x] = nb[x] /\ nbl' = nbl
        BY <2>6 DEF InsertTail, NextNb
      <4>2. nb[s] \in 1 .. NbCount[nbl[s]] /\ NbCount[nbl[s]] \in Nat /\ nbl[s] \in Nbls
        BY <2>6 DEF InsertTail
      <4>3. pc'[s] \in {"transmit", "insert"} => nb'[s] \in 1 .. NbCount[nbl'[s]]
        BY <2>6, <4>2 DEF InsertTail, NextNb
      <4>4. nb' = [nb EXCEPT ![s] = nb[s] + 1] \/ nb' = [nb EXCEPT ![s] = 0]
        BY <2>6 DEF InsertTail, NextNb
      <4>5. nb' \in [Senders -> Nat]
        BY <4>2, <4>4
      <4> QED
        BY <2>6, <4>1, <4>2, <4>3, <4>5 DEF InsertTail, nblVars
    <3>4. PcTypeOK'
      <4>1. pc' = [pc EXCEPT ![s] = "transmit"] \/ pc' = [pc EXCEPT ![s] = "flowCheck"]
        BY <2>6 DEF InsertTail, NextNb
      <4>2. CASE pc' = [pc EXCEPT ![s] = "transmit"]
        BY <4>2
      <4>3. CASE pc' = [pc EXCEPT ![s] = "flowCheck"]
        BY <4>3
      <4> QED
        BY <4>1, <4>2, <4>3
    <3> QED
      BY <3>1, <3>2, <3>3, <3>4
  <2>7. ASSUME NEW s \in Senders, FlowComplete(s) PROVE TypeOK'
    BY <2>7 DEF FlowComplete, SendComplete, adapterVars, queueVars, nblVars
  <2>8. ASSUME NEW s \in Senders, FlowExceeded(s) PROVE TypeOK'
    BY <2>8 DEF FlowExceeded, adapterVars, queueVars, nblVars
  <2>9. ASSUME NEW s \in Senders, Defer(s) PROVE TypeOK'
    BY <2>9 DEF Defer, adapterVars, queueVars, nblVars
  <2>10. ASSUME NEW t \in Senders \cup Readers, ProcessBegin(t) PROVE TypeOK'
    BY <2>10 DEF ProcessBegin, adapterVars, queueVars, nblVars
  <2>11. ASSUME NEW t \in Senders \cup Readers, TakeNext(t) PROVE TypeOK'
    BY <2>11 DEF TakeNext, adapterVars, queueVars, nblVars
  <2>12. ASSUME NEW t \in Senders \cup Readers, CompletePendingReadIrp(t) PROVE TypeOK'
    BY <2>12 DEF CompletePendingReadIrp, adapterVars, queueVars, nblVars
  <2>13. ASSUME NEW t \in Senders \cup Readers, ProcessEnd(t) PROVE TypeOK'
    BY <2>13 DEF ProcessEnd, adapterVars, queueVars, nblVars
  <2>14. ASSUME NEW t \in Senders \cup Readers, CheckHasPackets(t) PROVE TypeOK'
    BY <2>14 DEF CheckHasPackets, adapterVars, queueVars, nblVars
  <2>15. ASSUME NEW t \in Senders \cup Readers, CheckTotalBytes(t) PROVE TypeOK'
    BY <2>15 DEF CheckTotalBytes, adapterVars, queueVars, nblVars
  <2>16. ASSUME NEW t \in Threads, TakeFlowControlList(t) PROVE TypeOK'
    <3>1. AdapterTypeOK'
      BY <2>16 DEF TakeFlowControlList, adapterVars
    <3>2. QueueTypeOK'
      BY <2>16 DEF TakeFlowControlList, queueVars
    <3>3. NblTypeOK'
      BY <2>16 DEF TakeFlowControlList, nblVars
    <3>4. PcTypeOK'
      BY <2>16 DEF TakeFlowControlList
    <3> QED
      BY <3>1, <3>2, <3>3, <3>4
  <2>17. ASSUME NEW t \in Threads, CompleteFlowControlPackets(t) PROVE TypeOK'
    BY <2>17 DEF CompleteFlowControlPackets, ReturnLabel, adapterVars, queueVars, nblVars
  <2>18. ASSUME NEW r \in Readers, ReadReady(r) PROVE TypeOK'
    BY <2>18 DEF ReadReady, adapterVars, queueVars, nblVars
  <2>19. ASSUME NEW r \in Readers, InsertIrp(r) PROVE TypeOK'
    BY <2>19 DEF InsertIrp, adapterVars, queueVars, nblVars
  <2>20. ASSUME NEW r \in Readers, CancelIrp(r) PROVE TypeOK'
    <3>1. AdapterTypeOK'
      BY <2>20 DEF CancelIrp, adapterVars
    <3>2. QueueTypeOK'
      BY <2>20, RemoveAtProperties DEF CancelIrp
    <3>3. NblTypeOK'
      BY <2>20 DEF CancelIrp, nblVars
    <3>4. PcTypeOK'
      BY <2>20 DEF CancelIrp
    <3> QED
      BY <3>1, <3>2, <3>3, <3>4
  <2>21. ASSUME Open PROVE TypeOK'
    BY <2>21 DEF Open, adapterVars, queueVars, nblVars
  <2>22. ASSUME OpenFinish PROVE TypeOK'
    BY <2>22 DEF OpenFinish, adapterVars, queueVars, nblVars
  <2>23. ASSUME CleanupBegin PROVE TypeOK'
    BY <2>23 DEF CleanupBegin, adapterVars, queueVars, nblVars
  <2>24. ASSUME CleanupMedia PROVE TypeOK'
    BY <2>24 DEF CleanupMedia, adapterVars, queueVars, nblVars
  <2>25. ASSUME Close PROVE TypeOK'
    BY <2>25 DEF Close, adapterVars, queueVars, nblVars
  <2>26. ASSUME NEW t \in {App, Halter}, FlushPackets(t) PROVE TypeOK'
    BY <2>26 DEF FlushPackets, adapterVars, queueVars, nblVars
  <2>27. ASSUME NEW t \in {App, Halter}, AssertPackets(t) PROVE TypeOK'
    BY <2>27 DEF AssertPackets, adapterVars, queueVars, nblVars
  <2>28. ASSUME NEW t \in {App, Halter}, FlushIrp(t) PROVE TypeOK'
    BY <2>28 DEF FlushIrp, adapterVars, queueVars, nblVars
  <2>29. ASSUME NEW t \in {App, Halter}, FlushIrpsDone(t) PROVE TypeOK'
    BY <2>29 DEF FlushIrpsDone, adapterVars, queueVars, nblVars
  <2>30. ASSUME NEW t \in {App, Halter}, AssertIrps(t) PROVE TypeOK'
    BY <2>30 DEF AssertIrps, adapterVars, queueVars, nblVars
  <2>31. ASSUME SetMedia PROVE TypeOK'
    BY <2>31 DEF SetMedia, adapterVars, queueVars, nblVars
  <2>32. ASSUME SetPower PROVE TypeOK'
    BY <2>32 DEF SetPower, adapterVars, queueVars, nblVars
  <2>33. ASSUME PauseRestart PROVE TypeOK'
    BY <2>33 DEF PauseRestart, NextAdapterState, adapterVars, queueVars, nblVars
  <2>34. ASSUME Halt PROVE TypeOK'
    BY <2>34 DEF Halt, adapterVars, queueVars, nblVars
  <2>35. ASSUME DestroyTapDevice PROVE TypeOK'
    <3>1. AdapterTypeOK'
      BY <2>35 DEF DestroyTapDevice, adapterVars
    <3>2. QueueTypeOK'
      BY <2>35 DEF DestroyTapDevice, queueVars
    <3>3. NblTypeOK'
      BY <2>35 DEF DestroyTapDevice, nblVars
    <3>4. PcTypeOK'
      BY <2>35 DEF DestroyTapDevice
    <3> QED
      BY <3>1, <3>2, <3>3, <3>4
  <2>36. CASE UNCHANGED vars
    BY <2>36 DEF vars, adapterVars, queueVars, nblVars
  <2>37. QED
    BY <2>1, <2>2, <2>3, <2>4, <2>5, <2>6, <2>7, <2>8, <2>9, <2>10, <2>11, <2>12, <2>13, <2>14, <2>15, <2>16, <2>17, <2>18, <2>19, <2>20, <2>21, <2>22, <2>23, <2>24, <2>25, <2>26, <2>27, <2>28, <2>29, <2>30, <2>31, <2>32, <2>33, <2>34, <2>35, <2>36
    DEF Next, Environment, CallStep, Send, Process, FlushAll
<1>3. QED
  BY <1>1, <1>2, PTL DEF Spec

-----------------------------------------------------------------------------

\* What each thread holds at each of its program points, given the types: every
\* action moves a thread and what it holds together.
THEOREM HoldsCorrect == Spec => []HoldsInv
<1> USE ThreadsAssumption, NblsAssumption, SizesAssumption
        DEF HoldsInv, Threads, HoldingLabels, TypeOK, PcTypeOK, NblTypeOK, QueueTypeOK,
            IrpOutstanding
<1>1. Init => HoldsInv
  BY DEF Init
<1>2. TypeOK /\ HoldsInv /\ [Next]_vars => HoldsInv'
  <2> SUFFICES ASSUME TypeOK /\ HoldsInv, [Next]_vars PROVE HoldsInv'
    OBVIOUS
  <2> USE DEF Goto, Step
  <2>1. ASSUME NEW s \in Senders, NEW n \in Nbls, SendBegin(s, n) PROVE HoldsInv'
    BY <2>1 DEF SendBegin, adapterVars, queueVars, nblVars
  <2>2. ASSUME NEW s \in Senders, SendReject(s) PROVE HoldsInv'
    BY <2>2 DEF SendReject, SendComplete, adapterVars, queueVars, nblVars
  <2>3. ASSUME NEW s \in Senders, SendAccept(s) PROVE HoldsInv'
    BY <2>3 DEF SendAccept, adapterVars, queueVars, nblVars
  <2>4. ASSUME NEW s \in Senders, TransmitDrop(s) PROVE HoldsInv'
    <3>1. pc' = [pc EXCEPT ![s] = "transmit"] \/ pc' = [pc EXCEPT ![s] = "flowCheck"]
      BY <2>4 DEF TransmitDrop, NextNb
    <3>2. /\ pc[s] \in {"transmit", "insert"}
          /\ UNCHANGED <<queueLock, inHand, completing, nbl, pendingReadIrpQueue,
                         flowControlList, flowControlHasPackets>>
      BY <2>4 DEF TransmitDrop, queueVars
    <3>3. CASE pc' = [pc EXCEPT ![s] = "transmit"]
      BY <3>2, <3>3
    <3>4. CASE pc' = [pc EXCEPT ![s] = "flowCheck"]
      BY <3>2, <3>4
    <3> QED
      BY <3>1, <3>3, <3>4
  <2>5. ASSUME NEW s \in Senders, TransmitReady(s) PROVE HoldsInv'
    BY <2>5 DEF TransmitReady, adapterVars, queueVars, nblVars
  <2>6. ASSUME NEW s \in Senders, InsertTail(s) PROVE HoldsInv'
    <3>1. pc' = [pc EXCEPT ![s] = "transmit"] \/ pc' = [pc EXCEPT ![s] = "flowCheck"]
      BY <2>6 DEF InsertTail, NextNb
    <3>2. /\ pc[s] \in {"transmit", "insert"}
          /\ UNCHANGED <<queueLock, inHand, completing, nbl, pendingReadIrpQueue,
                         flowControlList, flowControlHasPackets>>
      BY <2>6 DEF InsertTail, queueVars
    <3>3. CASE pc' = [pc EXCEPT ![s] = "transmit"]
      BY <3>2, <3>3
    <3>4. CASE pc' = [pc EXCEPT ![s] = "flowCheck"]
      BY <3>2, <3>4
    <3> QED
      BY <3>1, <3>3, <3>4
  <2>7. ASSUME NEW s \in Senders, FlowComplete(s) PROVE HoldsInv'
    BY <2>7 DEF FlowComplete, SendComplete, adapterVars, queueVars, nblVars
  <2>8. ASSUME NEW s \in Senders, FlowExceeded(s) PROVE HoldsInv'
    BY <2>8 DEF FlowExceeded, adapterVars, queueVars, nblVars
  <2>9. ASSUME NEW s \in Senders, Defer(s) PROVE HoldsInv'
    BY <2>9 DEF Defer, adapterVars, queueVars, nblVars
  <2>10. ASSUME NEW t \in Senders \cup Readers, ProcessBegin(t) PROVE HoldsInv'
    BY <2>10 DEF ProcessBegin, adapterVars, queueVars, nblVars
  <2>11. ASSUME NEW t \in Senders \cup Readers, TakeNext(t) PROVE HoldsInv'
    <3>1. \A x \in Readers : IrpOutstanding(x)' => IrpOutstanding(x)
      BY <2>11, QueueSets DEF TakeNext
    <3> HIDE DEF IrpOutstanding
    <3> QED
      BY <2>11, <3>1 DEF TakeNext, adapterVars, queueVars, nblVars
  <2>12. ASSUME NEW t \in Senders \cup Readers, CompletePendingReadIrp(t) PROVE HoldsInv'
    <3>1. \A x \in Readers : IrpOutstanding(x)' => IrpOutstanding(x)
      BY <2>12, QueueSets DEF CompletePendingReadIrp
    <3> HIDE DEF IrpOutstanding
    <3> QED
      BY <2>12, <3>1 DEF CompletePendingReadIrp, adapterVars, queueVars, nblVars
  <2>13. ASSUME NEW t \in Senders \cup Readers, ProcessEnd(t) PROVE HoldsInv'
    BY <2>13 DEF ProcessEnd, adapterVars, queueVars, nblVars
  <2>14. ASSUME NEW t \in Senders \cup Readers, CheckHasPackets(t) PROVE HoldsInv'
    BY <2>14 DEF CheckHasPackets, adapterVars, queueVars, nblVars
  <2>15. ASSUME NEW t \in Senders \cup Readers, CheckTotalBytes(t) PROVE HoldsInv'
    BY <2>15 DEF CheckTotalBytes, adapterVars, queueVars, nblVars
  <2>16. ASSUME NEW t \in Threads, TakeFlowControlList(t) PROVE HoldsInv'
    BY <2>16 DEF TakeFlowControlList, adapterVars, queueVars, nblVars
  <2>17. ASSUME NEW t \in Threads, CompleteFlowControlPackets(t) PROVE HoldsInv'
    BY <2>17 DEF CompleteFlowControlPackets, ReturnLabel, adapterVars, queueVars, nblVars
  <2>18. ASSUME NEW r \in Readers, ReadReady(r) PROVE HoldsInv'
    BY <2>18 DEF ReadReady, adapterVars, queueVars, nblVars
  <2>19. ASSUME NEW r \in Readers, InsertIrp(r) PROVE HoldsInv'
    <3>1. \A x \in Readers : IrpOutstanding(x)' => IrpOutstanding(x) \/ x = r
      BY <2>19, QueueSets DEF InsertIrp
    <3> HIDE DEF IrpOutstanding
    <3> QED
      BY <2>19, <3>1 DEF InsertIrp, adapterVars, queueVars, nblVars
  <2>20. ASSUME NEW r \in Readers, CancelIrp(r) PROVE HoldsInv'
    <3>1. \A x \in Readers : IrpOutstanding(x)' => IrpOutstanding(x)
      BY <2>20, QueueSets DEF CancelIrp
    <3> HIDE DEF IrpOutstanding
    <3> QED
      BY <2>20, <3>1 DEF CancelIrp, adapterVars, queueVars, nblVars
  <2>21. ASSUME NEW t \in {App, Halter}, FlushPackets(t) PROVE HoldsInv'
    BY <2>21 DEF FlushPackets, adapterVars, queueVars, nblVars
  <2>22. ASSUME NEW t \in {App, Halter}, AssertPackets(t) PROVE HoldsInv'
    BY <2>22 DEF AssertPackets, adapterVars, queueVars, nblVars
  <2>23. ASSUME NEW t \in {App, Halter}, FlushIrp(t) PROVE HoldsInv'
    <3>1. \A x \in Readers : IrpOutstanding(x)' => IrpOutstanding(x)
      BY <2>23, QueueSets DEF FlushIrp
    <3> HIDE DEF IrpOutstanding
    <3> QED
      BY <2>23, <3>1 DEF FlushIrp, adapterVars, queueVars, nblVars
  <2>24. ASSUME NEW t \in {App, Halter}, FlushIrpsDone(t) PROVE HoldsInv'
    BY <2>24 DEF FlushIrpsDone, adapterVars, queueVars, nblVars
  <2>25. ASSUME NEW t \in {App, Halter}, AssertIrps(t) PROVE HoldsInv'
    BY <2>25 DEF AssertIrps, adapterVars, queueVars, nblVars
  <2>26. ASSUME Open PROVE HoldsInv'
    BY <2>26 DEF Open, adapterVars, queueVars, nblVars
  <2>27. ASSUME OpenFinish PROVE HoldsInv'
    BY <2>27 DEF OpenFinish, adapterVars, queueVars, nblVars
  <2>28. ASSUME CleanupBegin PROVE HoldsInv'
    BY <2>28 DEF CleanupBegin, adapterVars, queueVars, nblVars
  <2>29. ASSUME CleanupMedia PROVE HoldsInv'
    BY <2>29 DEF CleanupMedia, adapterVars, queueVars, nblVars
  <2>30. ASSUME Close PROVE HoldsInv'
    BY <2>30 DEF Close, adapterVars, queueVars, nblVars
  <2>31. ASSUME SetMedia PROVE HoldsInv'
    BY <2>31 DEF SetMedia, adapterVars, queueVars, nblVars
  <2>32. ASSUME SetPower PROVE HoldsInv'
    BY <2>32 DEF SetPower, adapterVars, queueVars, nblVars
  <2>33. ASSUME PauseRestart PROVE HoldsInv'
    BY <2>33 DEF PauseRestart, adapterVars, queueVars, nblVars
  <2>34. ASSUME Halt PROVE HoldsInv'
    BY <2>34 DEF Halt, adapterVars, queueVars, nblVars
  <2>35. ASSUME DestroyTapDevice PROVE HoldsInv'
    BY <2>35 DEF DestroyTapDevice, adapterVars, queueVars, nblVars
  <2>36. CASE UNCHANGED vars
    BY <2>36 DEF vars, adapterVars, queueVars, nblVars
  <2>37. QED
    BY <2>1, <2>2, <2>3, <2>4, <2>5, <2>6, <2>7, <2>8, <2>9, <2>10, <2>11, <2>12, <2>13, <2>14, <2>15, <2>16, <2>17, <2>18, <2>19, <2>20, <2>21, <2>22, <2>23, <2>24, <2>25, <2>26, <2>27, <2>28, <2>29, <2>30, <2>31, <2>32, <2>33, <2>34, <2>35, <2>36
    DEF Next, Environment, CallStep, Send, Process, FlushAll
<1>3. QED
  BY <1>1, <1>2, TypeCorrect, PTL DEF Spec

-----------------------------------------------------------------------------

\* No wakeup of a read is lost: whoever queues a frame or a read IRP has still to
\* process the queue.
THEOREM ServeCorrect == Spec => []ServeInv
<1> USE ThreadsAssumption, NblsAssumption, SizesAssumption
        DEF ServeInv, Threads, TypeOK, PcTypeOK, QueueTypeOK
<1>1. Init => ServeInv
  BY DEF Init
<1>2. TypeOK /\ ServeInv /\ [Next]_vars => ServeInv'
  <2> SUFFICES ASSUME TypeOK /\ ServeInv, [Next]_vars PROVE ServeInv'
    OBVIOUS
  <2> USE DEF Goto, Step
  <2>1. ASSUME NEW s \in Senders, NEW n \in Nbls, SendBegin(s, n) PROVE ServeInv'
    BY <2>1 DEF SendBegin, adapterVars, queueVars, nblVars
  <2>2. ASSUME NEW s \in Senders, SendReject(s) PROVE ServeInv'
    BY <2>2 DEF SendReject, SendComplete, adapterVars, queueVars, nblVars
  <2>3. ASSUME NEW s \in Senders, SendAccept(s) PROVE ServeInv'
    BY <2>3 DEF SendAccept, adapterVars, queueVars, nblVars
  <2>4. ASSUME NEW s \in Senders, TransmitDrop(s) PROVE ServeInv'
    BY <2>4 DEF TransmitDrop, NextNb, adapterVars, queueVars, nblVars
  <2>5. ASSUME NEW s \in Senders, TransmitReady(s) PROVE ServeInv'
    BY <2>5 DEF TransmitReady, adapterVars, queueVars, nblVars
  <2>6. ASSUME NEW s \in Senders, InsertTail(s) PROVE ServeInv'
    BY <2>6 DEF InsertTail, NextNb, adapterVars, queueVars, nblVars
  <2>7. ASSUME NEW s \in Senders, FlowComplete(s) PROVE ServeInv'
    BY <2>7 DEF FlowComplete, SendComplete, adapterVars, queueVars, nblVars
  <2>8. ASSUME NEW s \in Senders, FlowExceeded(s) PROVE ServeInv'
    BY <2>8 DEF FlowExceeded, adapterVars, queueVars, nblVars
  <2>9. ASSUME NEW s \in Senders, Defer(s) PROVE ServeInv'
    BY <2>9 DEF Defer, adapterVars, queueVars, nblVars
  <2>10. ASSUME NEW t \in Senders \cup Readers, ProcessBegin(t) PROVE ServeInv'
    BY <2>10 DEF ProcessBegin, adapterVars, queueVars, nblVars
  <2>11. ASSUME NEW t \in Senders \cup Readers, TakeNext(t) PROVE ServeInv'
    BY <2>11 DEF TakeNext, adapterVars, queueVars, nblVars
  <2>12. ASSUME NEW t \in Senders \cup Readers, CompletePendingReadIrp(t) PROVE ServeInv'
    BY <2>12 DEF CompletePendingReadIrp, adapterVars, queueVars, nblVars
  <2>13. ASSUME NEW t \in Senders \cup Readers, ProcessEnd(t) PROVE ServeInv'
    BY <2>13 DEF ProcessEnd, adapterVars, queueVars, nblVars
  <2>14. ASSUME NEW t \in Senders \cup Readers, CheckHasPackets(t) PROVE ServeInv'
    BY <2>14 DEF CheckHasPackets, adapterVars, queueVars, nblVars
  <2>15. ASSUME NEW t \in Senders \cup Readers, CheckTotalBytes(t) PROVE ServeInv'
    BY <2>15 DEF CheckTotalBytes, adapterVars, queueVars, nblVars
  <2>16. ASSUME NEW t \in Threads, TakeFlowControlList(t) PROVE ServeInv'
    BY <2>16 DEF TakeFlowControlList, adapterVars, queueVars, nblVars
  <2>17. ASSUME NEW t \in Threads, CompleteFlowControlPackets(t) PROVE ServeInv'
    BY <2>17 DEF CompleteFlowControlPackets, ReturnLabel, adapterVars, queueVars, nblVars
  <2>18. ASSUME NEW r \in Readers, ReadReady(r) PROVE ServeInv'
    BY <2>18 DEF ReadReady, adapterVars, queueVars, nblVars
  <2>19. ASSUME NEW r \in Readers, InsertIrp(r) PROVE ServeInv'
    BY <2>19 DEF InsertIrp, adapterVars, queueVars, nblVars
  <2>20. ASSUME NEW r \in Readers, CancelIrp(r) PROVE ServeInv'
    BY <2>20 DEF CancelIrp, adapterVars, queueVars, nblVars
  <2>21. ASSUME NEW t \in {App, Halter}, FlushPackets(t) PROVE ServeInv'
    BY <2>21 DEF FlushPackets, adapterVars, queueVars, nblVars
  <2>22. ASSUME NEW t \in {App, Halter}, AssertPackets(t) PROVE ServeInv'
    BY <2>22 DEF AssertPackets, adapterVars, queueVars, nblVars
  <2>23. ASSUME NEW t \in {App, Halter}, FlushIrp(t) PROVE ServeInv'
    BY <2>23 DEF FlushIrp, adapterVars, queueVars, nblVars
  <2>24. ASSUME NEW t \in {App, Halter}, FlushIrpsDone(t) PROVE ServeInv'
    BY <2>24 DEF FlushIrpsDone, adapterVars, queueVars, nblVars
  <2>25. ASSUME NEW t \in {App, Halter}, AssertIrps(t) PROVE ServeInv'
    BY <2>25 DEF AssertIrps, adapterVars, queueVars, nblVars
  <2>26. ASSUME Open PROVE ServeInv'
    BY <2>26 DEF Open, adapterVars, queueVars, nblVars
  <2>27. ASSUME OpenFinish PROVE ServeInv'
    BY <2>27 DEF OpenFinish, adapterVars, queueVars, nblVars
  <2>28. ASSUME CleanupBegin PROVE ServeInv'
    BY <2>28 DEF CleanupBegin, adapterVars, queueVars, nblVars
  <2>29. ASSUME CleanupMedia PROVE ServeInv'
    BY <2>29 DEF CleanupMedia, adapterVars, queueVars, nblVars
  <2>30. ASSUME Close PROVE ServeInv'
    BY <2>30 DEF Close, adapterVars, queueVars, nblVars
  <2>31. ASSUME SetMedia PROVE ServeInv'
    BY <2>31 DEF SetMedia, adapterVars, queueVars, nblVars
  <2>32. ASSUME SetPower PROVE ServeInv'
    BY <2>32 DEF SetPower, adapterVars, queueVars, nblVars
  <2>33. ASSUME PauseRestart PROVE ServeInv'
    BY <2>33 DEF PauseRestart, adapterVars, queueVars, nblVars
  <2>34. ASSUME Halt PROVE ServeInv'
    BY <2>34 DEF Halt, adapterVars, queueVars, nblVars
  <2>35. ASSUME DestroyTapDevice PROVE ServeInv'
    BY <2>35 DEF DestroyTapDevice, adapterVars, queueVars, nblVars
  <2>36. CASE UNCHANGED vars
    BY <2>36 DEF vars, adapterVars, queueVars, nblVars
  <2>37. QED
    BY <2>1, <2>2, <2>3, <2>4, <2>5, <2>6, <2>7, <2>8, <2>9, <2>10, <2>11, <2>12, <2>13, <2>14, <2>15, <2>16, <2>17, <2>18, <2>19, <2>20, <2>21, <2>22, <2>23, <2>24, <2>25, <2>26, <2>27, <2>28, <2>29, <2>30, <2>31, <2>32, <2>33, <2>34, <2>35, <2>36
    DEF Next, Environment, CallStep, Send, Process, FlushAll
<1>3. QED
  BY <1>1, <1>2, TypeCorrect, PTL DEF Spec

-----------------------------------------------------------------------------

\* No release of parked NBLs is lost: a thread that finds nothing to release has
\* read FlowControlHasPackets when the list was empty, or TotalBytes when it was
\* not below the threshold.
THEOREM ReleaseCorrect == Spec => []ReleaseInv
<1> USE ThreadsAssumption, NblsAssumption, SizesAssumption
        DEF ReleaseInv, TotalBytes, Threads, TypeOK, PcTypeOK, QueueTypeOK, NblTypeOK
<1>1. Init => ReleaseInv
  BY DEF Init
<1>2. TypeOK /\ HoldsInv /\ ReleaseInv /\ [Next]_vars => ReleaseInv'
  <2> SUFFICES ASSUME TypeOK /\ HoldsInv /\ ReleaseInv, [Next]_vars PROVE ReleaseInv'
    OBVIOUS
  <2> USE DEF Goto, Step
  <2>1. ASSUME NEW s \in Senders, NEW n \in Nbls, SendBegin(s, n) PROVE ReleaseInv'
    BY <2>1 DEF SendBegin, adapterVars, queueVars, nblVars
  <2>2. ASSUME NEW s \in Senders, SendReject(s) PROVE ReleaseInv'
    BY <2>2 DEF SendReject, SendComplete, adapterVars, queueVars, nblVars
  <2>3. ASSUME NEW s \in Senders, SendAccept(s) PROVE ReleaseInv'
    BY <2>3 DEF SendAccept, adapterVars, queueVars, nblVars
  <2>4. ASSUME NEW s \in Senders, TransmitDrop(s) PROVE ReleaseInv'
    BY <2>4 DEF TransmitDrop, NextNb, adapterVars, queueVars, nblVars
  <2>5. ASSUME NEW s \in Senders, TransmitReady(s) PROVE ReleaseInv'
    BY <2>5 DEF TransmitReady, adapterVars, queueVars, nblVars
  <2>6. ASSUME NEW s \in Senders, InsertTail(s) PROVE ReleaseInv'
    BY <2>6 DEF InsertTail, NextNb, adapterVars, queueVars, nblVars
  <2>7. ASSUME NEW s \in Senders, FlowComplete(s) PROVE ReleaseInv'
    BY <2>7 DEF FlowComplete, SendComplete, adapterVars, queueVars, nblVars
  <2>8. ASSUME NEW s \in Senders, FlowExceeded(s) PROVE ReleaseInv'
    BY <2>8 DEF FlowExceeded, adapterVars, queueVars, nblVars
  <2>9. ASSUME NEW s \in Senders, Defer(s) PROVE ReleaseInv'
    BY <2>9 DEF Defer, adapterVars, queueVars, nblVars
  <2>10. ASSUME NEW t \in Senders \cup Readers, ProcessBegin(t) PROVE ReleaseInv'
    BY <2>10 DEF ProcessBegin, adapterVars, queueVars, nblVars
  <2>11. ASSUME NEW t \in Senders \cup Readers, TakeNext(t) PROVE ReleaseInv'
    BY <2>11 DEF TakeNext, adapterVars, queueVars, nblVars
  <2>12. ASSUME NEW t \in Senders \cup Readers, CompletePendingReadIrp(t) PROVE ReleaseInv'
    BY <2>12 DEF CompletePendingReadIrp, adapterVars, queueVars, nblVars
  <2>13. ASSUME NEW t \in Senders \cup Readers, ProcessEnd(t) PROVE ReleaseInv'
    BY <2>13 DEF ProcessEnd, adapterVars, queueVars, nblVars
  <2>14. ASSUME NEW t \in Senders \cup Readers, CheckHasPackets(t) PROVE ReleaseInv'
    <3>1. CASE flowControlHasPackets
      BY <2>14, <3>1 DEF CheckHasPackets, adapterVars, queueVars, nblVars
    <3>2. CASE ~flowControlHasPackets
      BY <2>14, <3>2 DEF CheckHasPackets, HoldsInv, adapterVars, queueVars, nblVars
    <3> QED
      BY <3>1, <3>2
  <2>15. ASSUME NEW t \in Senders \cup Readers, CheckTotalBytes(t) PROVE ReleaseInv'
    BY <2>15 DEF CheckTotalBytes, adapterVars, queueVars, nblVars
  <2>16. ASSUME NEW t \in Threads, TakeFlowControlList(t) PROVE ReleaseInv'
    BY <2>16 DEF TakeFlowControlList, adapterVars, queueVars, nblVars
  <2>17. ASSUME NEW t \in Threads, CompleteFlowControlPackets(t) PROVE ReleaseInv'
    BY <2>17 DEF CompleteFlowControlPackets, ReturnLabel, adapterVars, queueVars, nblVars
  <2>18. ASSUME NEW r \in Readers, ReadReady(r) PROVE ReleaseInv'
    BY <2>18 DEF ReadReady, adapterVars, queueVars, nblVars
  <2>19. ASSUME NEW r \in Readers, InsertIrp(r) PROVE ReleaseInv'
    BY <2>19 DEF InsertIrp, adapterVars, queueVars, nblVars
  <2>20. ASSUME NEW r \in Readers, CancelIrp(r) PROVE ReleaseInv'
    BY <2>20 DEF CancelIrp, adapterVars, queueVars, nblVars
  <2>21. ASSUME NEW t \in {App, Halter}, FlushPackets(t) PROVE ReleaseInv'
    BY <2>21 DEF FlushPackets, adapterVars, queueVars, nblVars
  <2>22. ASSUME NEW t \in {App, Halter}, AssertPackets(t) PROVE ReleaseInv'
    BY <2>22 DEF AssertPackets, adapterVars, queueVars, nblVars
  <2>23. ASSUME NEW t \in {App, Halter}, FlushIrp(t) PROVE ReleaseInv'
    BY <2>23 DEF FlushIrp, adapterVars, queueVars, nblVars
  <2>24. ASSUME NEW t \in {App, Halter}, FlushIrpsDone(t) PROVE ReleaseInv'
    BY <2>24 DEF FlushIrpsDone, adapterVars, queueVars, nblVars
  <2>25. ASSUME NEW t \in {App, Halter}, AssertIrps(t) PROVE ReleaseInv'
    BY <2>25 DEF AssertIrps, adapterVars, queueVars, nblVars
  <2>26. ASSUME Open PROVE ReleaseInv'
    BY <2>26 DEF Open, adapterVars, queueVars, nblVars
  <2>27. ASSUME OpenFinish PROVE ReleaseInv'
    BY <2>27 DEF OpenFinish, adapterVars, queueVars, nblVars
  <2>28. ASSUME CleanupBegin PROVE ReleaseInv'
    BY <2>28 DEF CleanupBegin, adapterVars, queueVars, nblVars
  <2>29. ASSUME CleanupMedia PROVE ReleaseInv'
    BY <2>29 DEF CleanupMedia, adapterVars, queueVars, nblVars
  <2>30. ASSUME Close PROVE ReleaseInv'
    BY <2>30 DEF Close, adapterVars, queueVars, nblVars
  <2>31. ASSUME SetMedia PROVE ReleaseInv'
    BY <2>31 DEF SetMedia, adapterVars, queueVars, nblVars
  <2>32. ASSUME SetPower PROVE ReleaseInv'
    BY <2>32 DEF SetPower, adapterVars, queueVars, nblVars
  <2>33. ASSUME PauseRestart PROVE ReleaseInv'
    BY <2>33 DEF PauseRestart, adapterVars, queueVars, nblVars
  <2>34. ASSUME Halt PROVE ReleaseInv'
    BY <2>34 DEF Halt, adapterVars, queueVars, nblVars
  <2>35. ASSUME DestroyTapDevice PROVE ReleaseInv'
    BY <2>35 DEF DestroyTapDevice, adapterVars, queueVars, nblVars
  <2>36. CASE UNCHANGED vars
    BY <2>36 DEF vars, adapterVars, queueVars, nblVars
  <2>37. QED
    BY <2>1, <2>2, <2>3, <2>4, <2>5, <2>6, <2>7, <2>8, <2>9, <2>10, <2>11, <2>12, <2>13, <2>14, <2>15, <2>16, <2>17, <2>18, <2>19, <2>20, <2>21, <2>22, <2>23, <2>24, <2>25, <2>26, <2>27, <2>28, <2>29, <2>30, <2>31, <2>32, <2>33, <2>34, <2>35, <2>36
    DEF Next, Environment, CallStep, Send, Process, FlushAll
<1>3. QED
  BY <1>1, <1>2, TypeCorrect, HoldsCorrect, PTL DEF Spec

-----------------------------------------------------------------------------

\* After AdapterHalt no sender moves and the flushed queue stays empty.
THEOREM HaltCorrect == Spec => []HaltInv
<1> USE ThreadsAssumption, NblsAssumption, SizesAssumption
        DEF HaltInv, Threads, TypeOK, PcTypeOK, HalterLabels, FlushLabels, SenderLabels, ProcessLabels, HoldingLabels
<1>1. Init => HaltInv
  BY DEF Init
<1>2. TypeOK /\ HaltInv /\ [Next]_vars => HaltInv'
  <2> SUFFICES ASSUME TypeOK /\ HaltInv, [Next]_vars PROVE HaltInv'
    OBVIOUS
  <2> USE DEF Goto, Step
  <2>1. ASSUME NEW s \in Senders, NEW n \in Nbls, SendBegin(s, n) PROVE HaltInv'
    BY <2>1 DEF SendBegin, adapterVars, queueVars, nblVars
  <2>2. ASSUME NEW s \in Senders, SendReject(s) PROVE HaltInv'
    BY <2>2 DEF SendReject, SendComplete, adapterVars, queueVars, nblVars
  <2>3. ASSUME NEW s \in Senders, SendAccept(s) PROVE HaltInv'
    BY <2>3 DEF SendAccept, adapterVars, queueVars, nblVars
  <2>4. ASSUME NEW s \in Senders, TransmitDrop(s) PROVE HaltInv'
    BY <2>4 DEF TransmitDrop, NextNb, adapterVars, queueVars, nblVars
  <2>5. ASSUME NEW s \in Senders, TransmitReady(s) PROVE HaltInv'
    BY <2>5 DEF TransmitReady, adapterVars, queueVars, nblVars
  <2>6. ASSUME NEW s \in Senders, InsertTail(s) PROVE HaltInv'
    BY <2>6 DEF InsertTail, NextNb, adapterVars, queueVars, nblVars
  <2>7. ASSUME NEW s \in Senders, FlowComplete(s) PROVE HaltInv'
    BY <2>7 DEF FlowComplete, SendComplete, adapterVars, queueVars, nblVars
  <2>8. ASSUME NEW s \in Senders, FlowExceeded(s) PROVE HaltInv'
    BY <2>8 DEF FlowExceeded, adapterVars, queueVars, nblVars
  <2>9. ASSUME NEW s \in Senders, Defer(s) PROVE HaltInv'
    BY <2>9 DEF Defer, adapterVars, queueVars, nblVars
  <2>10. ASSUME NEW t \in Senders \cup Readers, ProcessBegin(t) PROVE HaltInv'
    BY <2>10 DEF ProcessBegin, adapterVars, queueVars, nblVars
  <2>11. ASSUME NEW t \in Senders \cup Readers, TakeNext(t) PROVE HaltInv'
    BY <2>11 DEF TakeNext, adapterVars, queueVars, nblVars
  <2>12. ASSUME NEW t \in Senders \cup Readers, CompletePendingReadIrp(t) PROVE HaltInv'
    BY <2>12 DEF CompletePendingReadIrp, adapterVars, queueVars, nblVars
  <2>13. ASSUME NEW t \in Senders \cup Readers, ProcessEnd(t) PROVE HaltInv'
    BY <2>13 DEF ProcessEnd, adapterVars, queueVars, nblVars
  <2>14. ASSUME NEW t \in Senders \cup Readers, CheckHasPackets(t) PROVE HaltInv'
    BY <2>14 DEF CheckHasPackets, adapterVars, queueVars, nblVars
  <2>15. ASSUME NEW t \in Senders \cup Readers, CheckTotalBytes(t) PROVE HaltInv'
    BY <2>15 DEF CheckTotalBytes, adapterVars, queueVars, nblVars
  <2>16. ASSUME NEW t \in Threads, TakeFlowControlList(t) PROVE HaltInv'
    BY <2>16 DEF TakeFlowControlList, adapterVars, queueVars, nblVars
  <2>17. ASSUME NEW t \in Threads, CompleteFlowControlPackets(t) PROVE HaltInv'
    BY <2>17 DEF CompleteFlowControlPackets, ReturnLabel, adapterVars, queueVars, nblVars
  <2>18. ASSUME NEW r \in Readers, ReadReady(r) PROVE HaltInv'
    BY <2>18 DEF ReadReady, adapterVars, queueVars, nblVars
  <2>19. ASSUME NEW r \in Readers, InsertIrp(r) PROVE HaltInv'
    BY <2>19 DEF InsertIrp, adapterVars, queueVars, nblVars
  <2>20. ASSUME NEW r \in Readers, CancelIrp(r) PROVE HaltInv'
    BY <2>20 DEF CancelIrp, adapterVars, queueVars, nblVars
  <2>21. ASSUME NEW t \in {App, Halter}, FlushPackets(t) PROVE HaltInv'
    BY <2>21 DEF FlushPackets, adapterVars, queueVars, nblVars
  <2>22. ASSUME NEW t \in {App, Halter}, AssertPackets(t) PROVE HaltInv'
    BY <2>22 DEF AssertPackets, adapterVars, queueVars, nblVars
  <2>23. ASSUME NEW t \in {App, Halter}, FlushIrp(t) PROVE HaltInv'
    BY <2>23 DEF FlushIrp, adapterVars, queueVars, nblVars
  <2>24. ASSUME NEW t \in {App, Halter}, FlushIrpsDone(t) PROVE HaltInv'
    BY <2>24 DEF FlushIrpsDone, adapterVars, queueVars, nblVars
  <2>25. ASSUME NEW t \in {App, Halter}, AssertIrps(t) PROVE HaltInv'
    BY <2>25 DEF AssertIrps, adapterVars, queueVars, nblVars
  <2>26. ASSUME Open PROVE HaltInv'
    BY <2>26 DEF Open, adapterVars, queueVars, nblVars
  <2>27. ASSUME OpenFinish PROVE HaltInv'
    BY <2>27 DEF OpenFinish, adapterVars, queueVars, nblVars
  <2>28. ASSUME CleanupBegin PROVE HaltInv'
    BY <2>28 DEF CleanupBegin, adapterVars, queueVars, nblVars
  <2>29. ASSUME CleanupMedia PROVE HaltInv'
    BY <2>29 DEF CleanupMedia, adapterVars, queueVars, nblVars
  <2>30. ASSUME Close PROVE HaltInv'
    BY <2>30 DEF Close, adapterVars, queueVars, nblVars
  <2>31. ASSUME SetMedia PROVE HaltInv'
    BY <2>31 DEF SetMedia, adapterVars, queueVars, nblVars
  <2>32. ASSUME SetPower PROVE HaltInv'
    BY <2>32 DEF SetPower, adapterVars, queueVars, nblVars
  <2>33. ASSUME PauseRestart PROVE HaltInv'
    BY <2>33 DEF PauseRestart, adapterVars, queueVars, nblVars
  <2>34. ASSUME Halt PROVE HaltInv'
    BY <2>34 DEF Halt, adapterVars, queueVars, nblVars
  <2>35. ASSUME DestroyTapDevice PROVE HaltInv'
    BY <2>35 DEF DestroyTapDevice, adapterVars, queueVars, nblVars
  <2>36. CASE UNCHANGED vars
    BY <2>36 DEF vars, adapterVars, queueVars, nblVars
  <2>37. QED
    BY <2>1, <2>2, <2>3, <2>4, <2>5, <2>6, <2>7, <2>8, <2>9, <2>10, <2>11, <2>12, <2>13, <2>14, <2>15, <2>16, <2>17, <2>18, <2>19, <2>20, <2>21, <2>22, <2>23, <2>24, <2>25, <2>26, <2>27, <2>28, <2>29, <2>30, <2>31, <2>32, <2>33, <2>34, <2>35, <2>36
    DEF Next, Environment, CallStep, Send, Process, FlushAll
<1>3. QED
  BY <1>1, <1>2, TypeCorrect, PTL DEF Spec

-----------------------------------------------------------------------------

\* When no call is running, a frame and a read IRP do not both wait.
THEOREM ReadsNotLost == Spec => []NoLostRead
<1>1. TypeOK /\ ServeInv => NoLostRead
  BY DEF NoLostRead, ServeInv, Quiescent
<1> QED
  BY <1>1, TypeCorrect, ServeCorrect, PTL

\* When no call is running, NBLs are parked only behind a full queue.
THEOREM ReleasesNotLost == Spec => []NoLostRelease
<1>1. TypeOK /\ ReleaseInv => NoLostRelease
  <2> SUFFICES ASSUME TypeOK, ReleaseInv, Quiescent, flowControlList # {}
               PROVE  TotalBytes >= TAP_BUFFER_SIZE
    BY DEF NoLostRelease
  <2>1. TotalBytes \in Nat /\ TAP_BUFFER_SIZE \in Nat
    BY SizesAssumption, LenProperties DEF TotalBytes, TypeOK, QueueTypeOK
  <2>2. \A t \in Threads : pc[t] \notin
          {"process", "loop", "deliver", "checkHas", "checkBytes", "take"}
    BY DEF Threads, Quiescent
  <2> QED
    BY <2>1, <2>2 DEF ReleaseInv
<1> QED
  BY <1>1, TypeCorrect, ReleaseCorrect, PTL

\* The assertion of DestroyTapDevice on the packet queue never fails.
THEOREM DestroyFlushesPackets == Spec => []DestroyFlushedPackets
<1>1. HaltInv => DestroyFlushedPackets
  BY DEF HaltInv, DestroyFlushedPackets
<1> QED
  BY <1>1, HaltCorrect, PTL

-----------------------------------------------------------------------------

\* Every chain NDIS has passed down is in one place.
THEOREM NblsInCustody == Spec => []NblCustody
<1>1. Init => NblCustody
  BY NblsAssumption DEF Init, NblCustody, WithSender, Parked, BeingCompleted
<1>2. TypeOK /\ HoldsInv /\ NblCustody /\ [Next]_vars => NblCustody'
  <2> SUFFICES ASSUME TypeOK, HoldsInv, NblCustody, [Next]_vars PROVE NblCustody'
    OBVIOUS
  <2> USE NblsAssumption
  <2>a. /\ nbl \in [Senders -> Nbls \cup {NoNbl}]
        /\ completing \in [Threads -> SUBSET Nbls]
        /\ flowControlList \subseteq Nbls
        /\ owned \subseteq Nbls
    BY DEF TypeOK, NblTypeOK
  <2>1. ASSUME NEW s \in Senders, NEW n \in Nbls, SendBegin(s, n) PROVE NblCustody'
    <3>1. /\ owned' = owned \cup {n} /\ n \notin owned
          /\ \A x \in Senders : nbl'[x] = IF x = s THEN n ELSE nbl[x]
          /\ nbl[s] = NoNbl
          /\ UNCHANGED <<flowControlList, completing>>
      BY <2>a, <2>1 DEF SendBegin, Step, HoldsInv, HoldingLabels
    <3>2. ~Parked(n) /\ ~WithSender(n) /\ ~BeingCompleted(n)
      BY <3>1 DEF NblCustody
    <3>3. \A m \in Nbls :
            /\ WithSender(m)' <=> m = n \/ WithSender(m)
            /\ Parked(m)' <=> Parked(m)
            /\ BeingCompleted(m)' <=> BeingCompleted(m)
      BY <2>a, <3>1 DEF WithSender, Parked, BeingCompleted
    <3> QED
      BY <3>1, <3>2, <3>3 DEF NblCustody, WithSender
  <2>2. ASSUME NEW s \in Senders, SendComplete(s), nbl[s] \in Nbls,
               UNCHANGED <<flowControlList, completing>>
        PROVE  NblCustody'
    <3>1. /\ owned' = owned \ {nbl[s]}
          /\ \A x \in Senders : nbl'[x] = IF x = s THEN NoNbl ELSE nbl[x]
      BY <2>a, <2>2 DEF SendComplete
    <3>2. WithSender(nbl[s]) /\ \A x \in Senders : nbl[x] = nbl[s] => x = s
      BY <2>2 DEF NblCustody, WithSender
    <3>3. \A m \in Nbls :
            /\ WithSender(m)' <=> m # nbl[s] /\ WithSender(m)
            /\ Parked(m)' <=> Parked(m)
            /\ BeingCompleted(m)' <=> BeingCompleted(m)
      BY <2>a, <2>2, <3>1, <3>2 DEF WithSender, Parked, BeingCompleted
    <3> QED
      BY <2>2, <3>1, <3>2, <3>3 DEF NblCustody
  <2>3. ASSUME NEW s \in Senders, Defer(s) PROVE NblCustody'
    <3>1. /\ nbl[s] \in Nbls
          /\ \A x \in Senders : nbl'[x] = IF x = s THEN NoNbl ELSE nbl[x]
          /\ flowControlList' = flowControlList \cup {nbl[s]}
          /\ UNCHANGED <<owned, completing>>
      BY <2>a, <2>3 DEF Defer, Step, HoldsInv, TypeOK, NblTypeOK, HoldingLabels
    <3>2. WithSender(nbl[s]) /\ \A x \in Senders : nbl[x] = nbl[s] => x = s
      BY <3>1 DEF NblCustody, WithSender
    <3>3. \A m \in Nbls :
            /\ WithSender(m)' <=> m # nbl[s] /\ WithSender(m)
            /\ Parked(m)' <=> m = nbl[s] \/ Parked(m)
            /\ BeingCompleted(m)' <=> BeingCompleted(m)
      BY <2>a, <3>1, <3>2 DEF WithSender, Parked, BeingCompleted
    <3> QED
      BY <3>1, <3>2, <3>3 DEF NblCustody
  <2>4. ASSUME NEW t \in Threads, TakeFlowControlList(t) PROVE NblCustody'
    <3>1. /\ completing[t] = {}
          /\ \A x \in Threads : completing'[x] = IF x = t THEN flowControlList ELSE completing[x]
          /\ flowControlList' = {}
          /\ UNCHANGED <<owned, nbl>>
      BY <2>a, <2>4 DEF TakeFlowControlList, Step, HoldsInv
    <3>2. \A m \in Nbls :
            /\ WithSender(m)' <=> WithSender(m)
            /\ ~Parked(m)'
            /\ BeingCompleted(m)' <=> Parked(m) \/ BeingCompleted(m)
      BY <2>a, <3>1 DEF WithSender, Parked, BeingCompleted
    <3>3. \A x \in Threads : completing[x] \cap flowControlList = {}
      BY <2>a DEF NblCustody, Parked, BeingCompleted
    <3> QED
      BY <3>1, <3>2, <3>3 DEF NblCustody
  <2>5. ASSUME NEW t \in Threads, CompleteFlowControlPackets(t) PROVE NblCustody'
    <3>1. /\ owned' = owned \ completing[t]
          /\ \A x \in Threads : completing'[x] = IF x = t THEN {} ELSE completing[x]
          /\ UNCHANGED <<flowControlList, nbl>>
      BY <2>a, <2>5 DEF CompleteFlowControlPackets
    <3>2. \A m \in Nbls : m \in completing[t] =>
            BeingCompleted(m) /\ \A x \in Threads : m \in completing[x] => x = t
      BY <2>a DEF NblCustody, BeingCompleted
    <3>3. \A m \in Nbls :
            /\ WithSender(m)' <=> WithSender(m)
            /\ Parked(m)' <=> Parked(m)
            /\ BeingCompleted(m)' <=> m \notin completing[t] /\ BeingCompleted(m)
      BY <2>a, <3>1, <3>2 DEF WithSender, Parked, BeingCompleted
    <3> QED
      BY <3>1, <3>2, <3>3 DEF NblCustody
  <2>6. CASE UNCHANGED <<owned, flowControlList, nbl, completing>>
    BY <2>6 DEF NblCustody, WithSender, Parked, BeingCompleted
  <2>7. ASSUME NEW s \in Senders, SendReject(s) \/ FlowComplete(s) PROVE NblCustody'
    BY <2>2, <2>7 DEF SendReject, FlowComplete, Step, HoldsInv, TypeOK, NblTypeOK, HoldingLabels
  <2>8. QED
    BY <2>1, <2>3, <2>4, <2>5, <2>6, <2>7
    DEF Next, Environment, CallStep, Send, Process, FlushAll, vars, adapterVars, queueVars, nblVars,
        SendAccept, TransmitDrop, TransmitReady, InsertTail, FlowExceeded,
        ProcessBegin, TakeNext, CompletePendingReadIrp, ProcessEnd, CheckHasPackets, CheckTotalBytes,
        ReadReady, InsertIrp, CancelIrp, FlushPackets, AssertPackets, FlushIrp, FlushIrpsDone,
        AssertIrps, Open, OpenFinish, CleanupBegin, CleanupMedia, Close, SetMedia, SetPower,
        PauseRestart, Halt, DestroyTapDevice
<1>3. QED
  BY <1>1, <1>2, TypeCorrect, HoldsCorrect, PTL DEF Spec

-----------------------------------------------------------------------------

\* Every read IRP is in one place, once.
THEOREM IrpsInCustody == Spec => []IrpCustody
<1> USE ThreadsAssumption
        DEF Threads, TypeOK, QueueTypeOK, PcTypeOK
<1>1. Init => IrpCustody
  BY DEF Init, IrpCustody, IsInjective
<1>2. TypeOK /\ HoldsInv /\ IrpCustody /\ [Next]_vars => IrpCustody'
  <2> SUFFICES ASSUME TypeOK, HoldsInv, IrpCustody, [Next]_vars PROVE IrpCustody'
    OBVIOUS
  <2> USE DEF Goto, Step
  <2> DEFINE queue == pendingReadIrpQueue
  <2>0. queue \in Seq(Readers) /\ IsInjective(queue)
    BY DEF IrpCustody
  <2>1. ASSUME NEW t \in Senders \cup Readers, TakeNext(t) PROVE IrpCustody'
    <3>1. \A x \in Threads : inHand[x] = <<>>
      BY <2>1 DEF TakeNext, HoldsInv
    <3>2. /\ queue # <<>>
          /\ queue' = Tail(queue)
          /\ \A x \in Threads : inHand'[x] = IF x = t THEN <<Head(queue), Head(sendPacketQueue)>> ELSE <<>>
      BY <2>1, <3>1 DEF TakeNext
    <3>3. Head(queue) \notin ToSet(queue') /\ IsInjective(queue')
      BY <2>0, <3>2, QueueInjective
    <3> QED
      BY <3>2, <3>3 DEF IrpCustody
  <2>2. ASSUME NEW t \in Senders \cup Readers, CompletePendingReadIrp(t) PROVE IrpCustody'
    BY <2>2 DEF CompletePendingReadIrp, IrpCustody
  <2>3. ASSUME NEW r \in Readers, InsertIrp(r) PROVE IrpCustody'
    <3>1. r \notin ToSet(queue) /\ \A x \in Threads : inHand[x] # <<>> => inHand[x][1] # r
      BY <2>3 DEF InsertIrp, HoldsInv, IrpOutstanding
    <3>2. queue' = Append(queue, r) /\ UNCHANGED inHand
      BY <2>3 DEF InsertIrp
    <3>3. ToSet(queue') = ToSet(queue) \cup {r} /\ IsInjective(queue')
      BY <2>0, <3>1, <3>2, QueueSets, QueueInjective
    <3> QED
      BY <3>1, <3>2, <3>3 DEF IrpCustody
  <2>4. ASSUME ToSet(queue') \subseteq ToSet(queue), IsInjective(queue'), UNCHANGED inHand
        PROVE  IrpCustody'
    BY <2>4 DEF IrpCustody
  <2>5. ASSUME NEW r \in Readers, CancelIrp(r) PROVE IrpCustody'
    BY <2>0, <2>4, <2>5, QueueSets, QueueInjective DEF CancelIrp
  <2>6. ASSUME NEW t \in {App, Halter}, FlushIrp(t) PROVE IrpCustody'
    BY <2>0, <2>4, <2>6, QueueSets, QueueInjective DEF FlushIrp
  <2>7. CASE UNCHANGED <<pendingReadIrpQueue, inHand>>
    BY <2>7 DEF IrpCustody
  <2>8. QED
    BY <2>1, <2>2, <2>3, <2>5, <2>6, <2>7
    DEF Next, Environment, CallStep, Send, Process, FlushAll, vars, adapterVars, queueVars, nblVars,
        SendBegin, SendReject, SendAccept, TransmitDrop, TransmitReady, InsertTail, FlowComplete,
        FlowExceeded, Defer, ProcessBegin, ProcessEnd, CheckHasPackets, CheckTotalBytes,
        TakeFlowControlList, CompleteFlowControlPackets, ReadReady, FlushPackets, AssertPackets,
        FlushIrpsDone, AssertIrps, Open, OpenFinish, CleanupBegin, CleanupMedia, Close, SetMedia,
        SetPower, PauseRestart, Halt, DestroyTapDevice
<1>3. QED
  BY <1>1, <1>2, TypeCorrect, HoldsCorrect, PTL DEF Spec

-----------------------------------------------------------------------------

\* Only the thread that holds the queue lock has a frame and an IRP in its hands, which
\* are then the first of the tunnel.
LEMMA OneDeliverer ==
  ASSUME TypeOK, HoldsInv
  PROVE  /\ queueLock = NoThread => DeliveringThreads = {}
         /\ \A t \in Threads : queueLock = t =>
              IF pc[t] = "deliver"
              THEN /\ DeliveringThreads = {t} /\ InHand = inHand[t]
                   /\ inHand[t][1] \in Readers /\ inHand[t][2] \in Frames
              ELSE DeliveringThreads = {}
         /\ DeliveringThreads = {} \/ \E t \in Threads : queueLock = t /\ pc[t] = "deliver"
<1>1. \A t \in Threads : t \in DeliveringThreads <=> pc[t] = "deliver"
  BY DEF HoldsInv, DeliveringThreads
<1>2. \A t \in Threads : pc[t] = "deliver" => queueLock = t
  BY DEF HoldsInv
<1>3. DeliveringThreads \subseteq Threads /\ NoThread \notin Threads
  BY ThreadsAssumption DEF DeliveringThreads, Threads
<1>4. ASSUME NEW t \in Threads, pc[t] = "deliver"
      PROVE  /\ DeliveringThreads = {t} /\ InHand = inHand[t]
             /\ inHand[t][1] \in Readers /\ inHand[t][2] \in Frames
  <2>1. DeliveringThreads = {t}
    BY <1>1, <1>2, <1>3, <1>4
  <2>2. InHand = inHand[t]
    BY <2>1 DEF InHand
  <2>3. inHand[t] \in Readers \X Frames
    BY <1>4 DEF HoldsInv, TypeOK, QueueTypeOK
  <2> QED
    BY <2>1, <2>2, <2>3
<1>5. ASSUME \A t \in Threads : pc[t] # "deliver" PROVE DeliveringThreads = {}
  BY <1>1, <1>3, <1>5
<1> QED
  BY <1>1, <1>2, <1>3, <1>4, <1>5

\* The send path implements the tunnel: what a thread has in its hands is still first in
\* both queues, so that taking the two out is a stutter and completing the IRP the
\* delivery; a flush, which needs the queue lock, finds nobody with a frame in hand.
THEOREM TunnelImplemented == Spec => TunnelRefinement
<1>1. Init => Tunnel!TunnelInit
  <2> SUFFICES ASSUME Init PROVE Tunnel!TunnelInit
    OBVIOUS
  <2>1. DeliveringThreads = {}
    BY DEF Init, DeliveringThreads
  <2>2. <<>> \o <<>> = <<>>
    BY ConcatEmptySeq, EmptySeq
  <2> QED
    BY <2>1, <2>2 DEF Init, Tunnel!TunnelInit, TunnelChan, TunnelWaiting
<1>2. TypeOK /\ HoldsInv /\ IrpCustody /\ TypeOK' /\ HoldsInv' /\ [Next]_vars
        => [Tunnel!TunnelNext]_(Tunnel!tunnelVars)
  <2> SUFFICES ASSUME TypeOK, HoldsInv, IrpCustody, TypeOK', HoldsInv', [Next]_vars
               PROVE  Tunnel!TunnelNext \/ UNCHANGED Tunnel!tunnelVars
    OBVIOUS
  <2> DEFINE frames == sendPacketQueue
             irps == pendingReadIrpQueue
             Same == TunnelChan' = TunnelChan /\ TunnelWaiting' = TunnelWaiting
             Goal == Tunnel!TunnelNext \/ Same
  <2>0. /\ frames \in Seq(Frames) /\ irps \in Seq(Readers)
        /\ <<>> \o frames = frames /\ <<>> \o irps = irps
    BY ConcatEmptySeq DEF TypeOK, QueueTypeOK
  <2>1. Same => UNCHANGED Tunnel!tunnelVars
    BY DEF Tunnel!tunnelVars
  <2>2. DeliveringThreads = {} => TunnelChan = frames /\ TunnelWaiting = irps
    BY <2>0 DEF TunnelChan, TunnelWaiting
  <2>3. \A t : DeliveringThreads = {t} /\ InHand = inHand[t] =>
          TunnelChan = <<inHand[t][2]>> \o frames /\ TunnelWaiting = <<inHand[t][1]>> \o irps
    BY DEF TunnelChan, TunnelWaiting
  <2>4. ASSUME UNCHANGED inHand
        PROVE  /\ DeliveringThreads' = DeliveringThreads /\ InHand' = InHand
               /\ UNCHANGED frames => TunnelChan' = TunnelChan
               /\ UNCHANGED irps => TunnelWaiting' = TunnelWaiting
    BY <2>4 DEF DeliveringThreads, InHand, TunnelChan, TunnelWaiting
  <2>5. ASSUME UNCHANGED <<sendPacketQueue, pendingReadIrpQueue, inHand>> PROVE Goal
    BY <2>4, <2>5
  <2>6. ASSUME NEW s \in Senders, InsertTail(s) PROVE Goal
    <3>1. UNCHANGED <<pendingReadIrpQueue, inHand>> /\ queueLock = NoThread
          /\ frames' = Append(frames, <<nbl[s], nb[s]>>)
      BY <2>6 DEF InsertTail
    <3>2. <<nbl[s], nb[s]>> \in Frames
      BY <2>6 DEF InsertTail, TypeOK, NblTypeOK, HoldingLabels, Frames
    <3>3. DeliveringThreads = {} /\ DeliveringThreads' = {}
      BY <2>4, <3>1, OneDeliverer
    <3>4. TunnelChan' = frames'
      <4>1. frames' \in Seq(Frames)
        BY DEF TypeOK, QueueTypeOK
      <4> QED
        BY <3>3, <4>1, ConcatEmptySeq DEF TunnelChan
    <3>5. Tunnel!Transmit(<<nbl[s], nb[s]>>)
      BY <2>2, <2>4, <3>1, <3>3, <3>4 DEF Tunnel!Transmit
    <3> QED
      BY <3>2, <3>5 DEF Tunnel!TunnelNext
  <2>7. ASSUME NEW r \in Readers, InsertIrp(r) PROVE Goal
    <3>1. UNCHANGED <<sendPacketQueue, inHand>> /\ irps' = Append(irps, r)
      BY <2>7 DEF InsertIrp
    <3>2. /\ r \notin ToSet(irps)
          /\ \A t \in Threads : inHand[t] # <<>> => inHand[t][1] # r
      BY <2>7 DEF InsertIrp, Step, HoldsInv, IrpOutstanding
    <3>3. r \notin ToSet(TunnelWaiting) /\ TunnelWaiting' = Append(TunnelWaiting, r)
      <4>1. CASE DeliveringThreads = {}
        <5>1. irps' \in Seq(Readers)
          BY DEF TypeOK, QueueTypeOK
        <5>2. TunnelWaiting' = irps'
          BY <2>4, <3>1, <4>1, <5>1, ConcatEmptySeq DEF TunnelWaiting
        <5> QED
          BY <2>2, <3>1, <3>2, <4>1, <5>2
      <4>2. CASE DeliveringThreads # {}
        <5>1. PICK t \in Threads : /\ DeliveringThreads = {t} /\ InHand = inHand[t]
                                   /\ inHand[t][1] \in Readers /\ inHand[t] # <<>>
          BY <4>2, OneDeliverer DEF DeliveringThreads
        <5>2. TunnelWaiting = <<inHand[t][1]>> \o irps
          BY <2>3, <5>1
        <5>3. TunnelWaiting' = <<inHand[t][1]>> \o irps'
          BY <2>4, <3>1, <5>1 DEF TunnelWaiting
        <5>4. /\ ToSet(TunnelWaiting) = {inHand[t][1]} \cup ToSet(irps)
              /\ <<inHand[t][1]>> \o Append(irps, r) = Append(<<inHand[t][1]>> \o irps, r)
          BY <2>0, <5>1, <5>2, FrontSet, FrontProperties
        <5> QED
          BY <3>1, <3>2, <5>1, <5>2, <5>3, <5>4
      <4> QED
        BY <4>1, <4>2
    <3>4. Tunnel!Read(r)
      BY <2>4, <3>1, <3>3 DEF Tunnel!Read, Tunnel!ToSet, ToSet
    <3> QED
      BY <3>4 DEF Tunnel!TunnelNext
  <2>8. ASSUME NEW t \in Senders \cup Readers, TakeNext(t) PROVE Goal
    <3>1. /\ t \in Threads /\ pc[t] = "loop" /\ pc'[t] = "deliver"
          /\ frames # <<>> /\ frames' = Tail(frames)
          /\ irps # <<>> /\ irps' = Tail(irps)
          /\ inHand'[t] = <<Head(irps), Head(frames)>>
      BY <2>8 DEF TakeNext, Step, Goto, Threads, TypeOK, PcTypeOK, QueueTypeOK
    <3>2. DeliveringThreads = {}
      BY <3>1, OneDeliverer DEF HoldsInv
    <3>3. DeliveringThreads' = {t} /\ InHand' = inHand'[t]
      <4>1. \A x \in Threads : inHand'[x] # <<>> <=> x = t
        BY <3>1, <3>2, <2>8 DEF TakeNext, DeliveringThreads, TypeOK, QueueTypeOK
      <4>2. DeliveringThreads' = {t}
        BY <3>1, <4>1 DEF DeliveringThreads
      <4> QED
        BY <4>2 DEF InHand
    <3>4. TunnelChan' = <<Head(frames)>> \o Tail(frames) /\ TunnelWaiting' = <<Head(irps)>> \o Tail(irps)
      BY <3>1, <3>3 DEF TunnelChan, TunnelWaiting
    <3>5. Head(frames) \in Frames /\ Head(irps) \in Readers
      BY <2>0, <3>1, HeadTailProperties
    <3>6. <<Head(frames)>> \o Tail(frames) = frames /\ <<Head(irps)>> \o Tail(irps) = irps
      BY <2>0, <3>1, <3>5, FrontProperties
    <3> QED
      BY <2>2, <3>2, <3>4, <3>6
  <2>9. ASSUME NEW t \in Senders \cup Readers, CompletePendingReadIrp(t) PROVE Goal
    <3>1. /\ t \in Threads /\ pc[t] = "deliver" /\ inHand'= [inHand EXCEPT ![t] = <<>>]
          /\ UNCHANGED <<sendPacketQueue, pendingReadIrpQueue>>
      BY <2>9 DEF CompletePendingReadIrp, Step, Threads
    <3>2. /\ DeliveringThreads = {t} /\ InHand = inHand[t]
          /\ inHand[t][1] \in Readers /\ inHand[t][2] \in Frames
      BY <3>1, OneDeliverer DEF HoldsInv
    <3>3. DeliveringThreads' = {}
      BY <3>1, <3>2 DEF DeliveringThreads, TypeOK, QueueTypeOK
    <3>4. TunnelChan' = frames /\ TunnelWaiting' = irps
      BY <2>0, <3>1, <3>3 DEF TunnelChan, TunnelWaiting
    <3>5. /\ TunnelChan # <<>> /\ Tail(TunnelChan) = frames
          /\ TunnelWaiting # <<>> /\ Tail(TunnelWaiting) = irps
      <4>1. \A x \in Frames : <<x>> \o frames # <<>> /\ Tail(<<x>> \o frames) = frames
        BY <2>0, FrontProperties
      <4>2. \A x \in Readers : <<x>> \o irps # <<>> /\ Tail(<<x>> \o irps) = irps
        BY <2>0, FrontProperties
      <4> QED
        BY <2>3, <3>2, <4>1, <4>2
    <3> QED
      BY <3>4, <3>5 DEF Tunnel!Deliver, Tunnel!TunnelNext
  <2>10. ASSUME NEW i \in DOMAIN irps, irps' = RemoveAt(irps, i), UNCHANGED <<sendPacketQueue, inHand>>
         PROVE  Goal
    <3>1. irps[i] \in Readers
      BY <2>0
    <3>2. ASSUME NEW k \in DOMAIN TunnelWaiting, TunnelWaiting[k] = irps[i],
                 TunnelWaiting' = RemoveAt(TunnelWaiting, k)
          PROVE  Goal
      <4>1. Tunnel!Withdraw(irps[i])
        BY <2>4, <2>10, <3>2 DEF Tunnel!Withdraw, Tunnel!RemoveAt, RemoveAt
      <4> QED
        BY <3>1, <4>1 DEF Tunnel!TunnelNext
    <3>3. CASE DeliveringThreads = {}
      <4>1. irps' \in Seq(Readers)
        BY DEF TypeOK, QueueTypeOK
      <4>2. TunnelWaiting' = irps'
        BY <2>4, <2>10, <3>3, <4>1, ConcatEmptySeq DEF TunnelWaiting
      <4> QED
        BY <2>2, <2>10, <3>2, <3>3, <4>2
    <3>4. CASE DeliveringThreads # {}
      <4>1. PICK t \in Threads : /\ DeliveringThreads = {t} /\ InHand = inHand[t]
                                 /\ inHand[t][1] \in Readers
        BY <3>4, OneDeliverer
      <4>2. TunnelWaiting = <<inHand[t][1]>> \o irps
        BY <2>3, <4>1
      <4>3. TunnelWaiting' = <<inHand[t][1]>> \o irps'
        BY <2>4, <2>10, <4>1 DEF TunnelWaiting
      <4>4. /\ i + 1 \in DOMAIN TunnelWaiting /\ TunnelWaiting[i + 1] = irps[i]
            /\ RemoveAt(TunnelWaiting, i + 1) = <<inHand[t][1]>> \o RemoveAt(irps, i)
        <5> DEFINE r == inHand[t][1]
        <5>1. r \in Readers /\ irps \in Seq(Readers) /\ i \in DOMAIN irps
          BY <2>0, <4>1, <2>10
        <5> HIDE DEF r, irps
        <5>2. /\ i + 1 \in DOMAIN (<<r>> \o irps) /\ (<<r>> \o irps)[i + 1] = irps[i]
              /\ RemoveAt(<<r>> \o irps, i + 1) = <<r>> \o RemoveAt(irps, i)
          BY <5>1, FrontRemoveAt
        <5> QED
          BY <4>2, <5>2 DEF r, irps
      <4> QED
        BY <2>10, <3>2, <4>3, <4>4
    <3> QED
      BY <3>3, <3>4
  <2>11. ASSUME NEW r \in Readers, CancelIrp(r) PROVE Goal
    BY <2>10, <2>11 DEF CancelIrp
  <2>12. ASSUME NEW t \in {App, Halter}, FlushIrp(t) PROVE Goal
    <3>1. irps # <<>> /\ irps' = Tail(irps) /\ UNCHANGED <<sendPacketQueue, inHand>>
      BY <2>12 DEF FlushIrp
    <3>2. 1 \in DOMAIN irps /\ Tail(irps) = RemoveAt(irps, 1)
      <4>1. Tail(irps) = SubSeq(irps, 2, Len(irps))
        BY <2>0, <3>1, TailIsSubSeq
      <4>2. SubSeq(irps, 1, 0) = <<>>
        BY SubSeqEmpty
      <4>3. Tail(irps) \in Seq(Readers)
        BY <2>0, <3>1, HeadTailProperties
      <4>4. <<>> \o Tail(irps) = Tail(irps)
        BY <4>3, ConcatEmptySeq
      <4>5. 1 \in DOMAIN irps
        BY <2>0, <3>1, LenProperties, EmptySeq
      <4> QED
        BY <4>1, <4>2, <4>4, <4>5 DEF RemoveAt
    <3> QED
      BY <2>10, <3>1, <3>2
  <2>13. ASSUME NEW t \in {App, Halter}, FlushPackets(t) PROVE Goal
    <3>1. queueLock = NoThread /\ frames' = <<>> /\ UNCHANGED <<pendingReadIrpQueue, inHand>>
      BY <2>13 DEF FlushPackets
    <3>2. DeliveringThreads' = {}
      BY <2>4, <3>1, OneDeliverer
    <3>3. TunnelChan' = <<>>
      BY <3>1, <3>2, ConcatEmptySeq, EmptySeq DEF TunnelChan
    <3> QED
      BY <2>4, <3>1, <3>3 DEF Tunnel!Flush, Tunnel!TunnelNext
  <2>14. Goal
    BY <2>5, <2>6, <2>7, <2>8, <2>9, <2>11, <2>12, <2>13
    DEF Next, Environment, CallStep, Send, Process, FlushAll, vars, adapterVars, queueVars, nblVars,
        SendBegin, SendReject, SendAccept, TransmitDrop, TransmitReady, FlowComplete,
        FlowExceeded, Defer, ProcessBegin, ProcessEnd, CheckHasPackets, CheckTotalBytes,
        TakeFlowControlList, CompleteFlowControlPackets, ReadReady, AssertPackets,
        FlushIrpsDone, AssertIrps, Open, OpenFinish, CleanupBegin, CleanupMedia, Close, SetMedia,
        SetPower, PauseRestart, Halt, DestroyTapDevice
  <2> QED
    BY <2>1, <2>14
<1> QED
  BY <1>1, <1>2, TypeCorrect, HoldsCorrect, IrpsInCustody, PTL
  DEF Spec, TunnelRefinement, Tunnel!TunnelSpec

-----------------------------------------------------------------------------

\* The senders that found the device ready and have yet to queue their frame.
Inserting == {s \in Senders : pc[s] = "insert"}

CleanedLabels == {"take", "complete", "assertPackets", "flushIrps", "assertIrps", "cleaned", "closed"}

\* From the flush of a cleanup to the next open, a sender that was found ready before can
\* queue one frame, and no other is found ready.
CleanupInv ==
  /\ pc[App] \in CleanedLabels \cup {"opening", "mediaOff", "flush"} => ~tapFileIsOpen
  /\ pc[App] \in CleanedLabels => Len(sendPacketQueue) + Cardinality(Inserting) <= Cardinality(Senders)

\* So the frames queued after a cleanup are fewer than the threshold when the senders
\* are, and what is parked is released.
THEOREM ReturnedAfterCleanup == Spec => []NblsReturnedAfterCleanup
<1> USE ThreadsAssumption, NblsAssumption, SendersFinite
<1>0. /\ Inserting \subseteq Senders
      /\ IsFiniteSet(Inserting) /\ Cardinality(Inserting) \in Nat /\ Cardinality(Senders) \in Nat
      /\ Cardinality(Inserting) <= Cardinality(Senders)
  BY FS_Subset, FS_CardinalityType DEF Inserting
<1>1. Init => CleanupInv
  <2> SUFFICES ASSUME Init PROVE CleanupInv
    OBVIOUS
  <2>1. Inserting = {} /\ sendPacketQueue = <<>> /\ ~tapFileIsOpen
    BY DEF Init, Inserting, Threads
  <2>2. Len(<<>>) = 0 /\ Cardinality({}) = 0
    BY EmptySeq, FS_EmptySet
  <2> QED
    BY <1>0, <2>1, <2>2 DEF CleanupInv
<1>2. TypeOK /\ CleanupInv /\ [Next]_vars => CleanupInv'
  <2> SUFFICES ASSUME TypeOK, CleanupInv, [Next]_vars PROVE CleanupInv'
    OBVIOUS
  <2> USE DEF Goto, Step, CleanedLabels
  <2> DEFINE len == Len(sendPacketQueue)
             Room == len + Cardinality(Inserting) <= Cardinality(Senders)
  <2>1. /\ sendPacketQueue \in Seq(Frames) /\ len \in Nat
        /\ pc \in [Threads -> Labels] /\ App \in Threads /\ Senders \subseteq Threads
    BY LenProperties DEF TypeOK, QueueTypeOK, PcTypeOK, Threads
  <2>2. /\ Inserting' \subseteq Senders
        /\ IsFiniteSet(Inserting') /\ Cardinality(Inserting') \in Nat
        /\ Cardinality(Inserting') <= Cardinality(Senders)
    BY FS_Subset, FS_CardinalityType DEF Inserting
  <2>3. ASSUME UNCHANGED sendPacketQueue, Inserting' \subseteq Inserting PROVE Room => Room'
    <3>1. Cardinality(Inserting') <= Cardinality(Inserting)
      BY <1>0, <2>3, FS_Subset
    <3> QED
      BY <1>0, <2>1, <2>2, <2>3, <3>1
  <2>4. ASSUME UNCHANGED <<sendPacketQueue, tapFileIsOpen>>, pc'[App] = pc[App],
               Inserting' \subseteq Inserting
        PROVE  CleanupInv'
    BY <2>3, <2>4 DEF CleanupInv
  <2>5. ASSUME NEW t \in Senders \cup Readers \cup {Halter}, UNCHANGED <<sendPacketQueue, tapFileIsOpen>>,
               NEW label, label # "insert", Goto(t, label)
        PROVE  CleanupInv'
    <3>1. pc'[App] = pc[App] /\ Inserting' \subseteq Inserting
      BY <2>1, <2>5 DEF Inserting, Threads
    <3> QED
      BY <2>4, <2>5, <3>1
  <2>6. ASSUME NEW s \in Senders, TransmitReady(s) PROVE CleanupInv'
    <3>1. tapFileIsOpen /\ tapFileIsOpen' /\ pc'[App] = pc[App]
      BY <2>1, <2>6 DEF TransmitReady, ReadAndWriteReady, adapterVars
    <3> QED
      BY <3>1 DEF CleanupInv
  <2>7. ASSUME NEW s \in Senders, InsertTail(s) PROVE CleanupInv'
    <3>1. /\ pc[s] = "insert" /\ UNCHANGED tapFileIsOpen
          /\ sendPacketQueue' = Append(sendPacketQueue, <<nbl[s], nb[s]>>)
          /\ pc' = [pc EXCEPT ![s] = "transmit"] \/ pc' = [pc EXCEPT ![s] = "flowCheck"]
      BY <2>7 DEF InsertTail, NextNb, adapterVars
    <3>2. pc'[App] = pc[App] /\ Inserting' = Inserting \ {s} /\ s \in Inserting
      BY <2>1, <3>1 DEF Inserting
    <3>3. Cardinality(Inserting') = Cardinality(Inserting) - 1
      BY <1>0, <3>2, FS_RemoveElement
    <3>4. len' = len + 1
      BY <2>1, <3>1
    <3>5. Room => Room'
      BY <1>0, <2>1, <3>3, <3>4
    <3> QED
      BY <3>1, <3>2, <3>5 DEF CleanupInv
  <2>8. ASSUME NEW t \in {App, Halter}, FlushPackets(t) PROVE CleanupInv'
    <3>1. /\ sendPacketQueue' = <<>> /\ UNCHANGED tapFileIsOpen
          /\ pc[t] = "flush" /\ pc' = [pc EXCEPT ![t] = "take"]
      BY <2>8 DEF FlushPackets, adapterVars
    <3>2. Room'
      BY <2>2, <3>1, EmptySeq
    <3>3. pc'[App] = pc[App] \/ pc[App] = "flush"
      BY <2>1, <3>1
    <3> QED
      BY <3>1, <3>2, <3>3 DEF CleanupInv
  <2>9. ASSUME UNCHANGED <<sendPacketQueue>>, NEW label, Goto(App, label)
        PROVE  Room => Room'
    BY <2>1, <2>3, <2>9 DEF Inserting
  <2>10. ASSUME Open \/ OpenFinish \/ CleanupBegin \/ CleanupMedia \/ Close PROVE CleanupInv'
    BY <2>1, <2>9, <2>10
    DEF CleanupInv, Open, OpenFinish, CleanupBegin, CleanupMedia, Close, queueVars
  <2>11. ASSUME NEW t \in Threads,
                TakeFlowControlList(t) \/ CompleteFlowControlPackets(t)
                \/ AssertPackets(t) \/ FlushIrp(t) \/ FlushIrpsDone(t) \/ AssertIrps(t)
         PROVE  CleanupInv'
    <3>1. UNCHANGED <<sendPacketQueue, tapFileIsOpen>>
      BY <2>11 DEF TakeFlowControlList, CompleteFlowControlPackets, AssertPackets, FlushIrp,
                   FlushIrpsDone, AssertIrps, adapterVars, queueVars
    <3>2. Inserting' \subseteq Inserting
      BY <2>1, <2>11 DEF TakeFlowControlList, CompleteFlowControlPackets, AssertPackets, FlushIrp,
                   FlushIrpsDone, AssertIrps, ReturnLabel, Inserting
    <3>3. pc'[App] \in CleanedLabels => pc[App] \in CleanedLabels
      BY <2>1, <2>11 DEF TakeFlowControlList, CompleteFlowControlPackets, AssertPackets, FlushIrp,
                   FlushIrpsDone, AssertIrps
    <3>4. pc'[App] \in {"opening", "mediaOff", "flush"} => pc'[App] = pc[App]
      BY <2>1, <2>11 DEF TakeFlowControlList, CompleteFlowControlPackets, AssertPackets, FlushIrp,
                   FlushIrpsDone, AssertIrps, ReturnLabel
    <3> QED
      BY <2>3, <3>1, <3>2, <3>3, <3>4 DEF CleanupInv
  <2>12. ASSUME UNCHANGED <<sendPacketQueue, tapFileIsOpen, pc>> PROVE CleanupInv'
    BY <2>4, <2>12 DEF Inserting
  <2>13. ASSUME NEW s \in Senders,
                (\E n \in Nbls : SendBegin(s, n)) \/ SendReject(s) \/ SendAccept(s)
                \/ FlowComplete(s) \/ FlowExceeded(s) \/ Defer(s)
         PROVE  CleanupInv'
    BY <2>5, <2>13 DEF SendBegin, SendReject, SendAccept, FlowComplete, FlowExceeded, Defer,
                       adapterVars, queueVars
  <2>14. ASSUME NEW s \in Senders, TransmitDrop(s) PROVE CleanupInv'
    BY <2>5, <2>14 DEF TransmitDrop, NextNb, adapterVars, queueVars
  <2>15. ASSUME NEW t \in Senders \cup Readers, Process(t) PROVE CleanupInv'
    <3>1. ASSUME TakeNext(t) PROVE CleanupInv'
      <4>1. /\ sendPacketQueue # <<>> /\ sendPacketQueue' = Tail(sendPacketQueue)
            /\ UNCHANGED tapFileIsOpen /\ pc' = [pc EXCEPT ![t] = "deliver"]
        BY <3>1 DEF TakeNext, adapterVars
      <4>2. len' = len - 1
        BY <2>1, <4>1, HeadTailProperties
      <4>3. pc'[App] = pc[App] /\ Inserting' \subseteq Inserting
        BY <2>1, <4>1 DEF Inserting
      <4>4. Cardinality(Inserting') <= Cardinality(Inserting)
        BY <1>0, <4>3, FS_Subset
      <4>5. Room => Room'
        BY <1>0, <2>1, <2>2, <4>2, <4>4
      <4> QED
        BY <4>1, <4>3, <4>5 DEF CleanupInv
    <3>2. ASSUME ~TakeNext(t) PROVE CleanupInv'
      BY <2>5, <2>15, <3>2 DEF Process, ProcessBegin, CompletePendingReadIrp, ProcessEnd,
         CheckHasPackets, CheckTotalBytes, adapterVars, queueVars
    <3> QED
      BY <3>1, <3>2
  <2>16. ASSUME NEW r \in Readers, ReadReady(r) PROVE CleanupInv'
    <3>1. pc'[App] = "open"
      BY <2>1, <2>16 DEF ReadReady
    <3> QED
      BY <3>1 DEF CleanupInv
  <2>17. ASSUME NEW r \in Readers, InsertIrp(r) PROVE CleanupInv'
    BY <2>5, <2>17 DEF InsertIrp, adapterVars
  <2>18. ASSUME Halt \/ DestroyTapDevice PROVE CleanupInv'
    BY <2>5, <2>18 DEF Halt, DestroyTapDevice, queueVars
  <2> QED
    BY <2>6, <2>7, <2>8, <2>10, <2>11, <2>12, <2>13, <2>14, <2>15, <2>16, <2>17, <2>18
    DEF Next, Environment, CallStep, Send, FlushAll, vars, adapterVars, queueVars, CancelIrp,
        SetMedia, SetPower, PauseRestart, Threads
<1>3. TypeOK /\ HoldsInv /\ NblCustody /\ ReleaseInv /\ CleanupInv => NblsReturnedAfterCleanup
  <2> SUFFICES ASSUME TypeOK, HoldsInv, NblCustody, ReleaseInv, CleanupInv, Quiescent,
                      pc[App] \in {"cleaned", "closed"}, Cardinality(Senders) < TAP_BUFFER_SIZE
               PROVE  owned = {}
    BY DEF NblsReturnedAfterCleanup
  <2>1. Len(sendPacketQueue) \in Nat
    BY LenProperties DEF TypeOK, QueueTypeOK
  <2>2. Inserting = {} /\ Cardinality({}) = 0
    BY FS_EmptySet DEF Quiescent, Inserting
  <2>3. TotalBytes < TAP_BUFFER_SIZE
    BY <1>0, <2>1, <2>2, SizesAssumption DEF CleanupInv, CleanedLabels, TotalBytes
  <2>4. \A t \in Threads : pc[t] \notin {"process", "loop", "deliver", "checkHas", "checkBytes", "take", "complete"}
    BY DEF Quiescent, Threads
  <2>5. flowControlList = {}
    BY <2>3, <2>4 DEF ReleaseInv
  <2>6. \A n \in Nbls : ~Parked(n) /\ ~WithSender(n) /\ ~BeingCompleted(n)
    <3>1. \A s \in Senders : nbl[s] = NoNbl
      BY DEF Quiescent, HoldsInv, HoldingLabels
    <3>2. \A t \in Threads : completing[t] = {}
      BY <2>4 DEF HoldsInv
    <3> QED
      BY <2>5, <3>1, <3>2 DEF Parked, WithSender, BeingCompleted
  <2> QED
    BY <2>6 DEF NblCustody, TypeOK, NblTypeOK
<1> QED
  BY <1>1, <1>2, <1>3, TypeCorrect, HoldsCorrect, NblsInCustody, ReleaseCorrect, PTL DEF Spec
=============================================================================
