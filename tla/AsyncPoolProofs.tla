----------------------------- MODULE AsyncPoolProofs -----------------------------
(* What holds of AsyncPool for every set of futures and every size of the pool. *)
EXTENDS AsyncPool, SequenceLemmas

\* TypeOK without the bounds that follow from the accounting.
Shape ==
    /\ idle \in Seq(Connections) /\ total \in Int /\ total <= MaxSize
    /\ permits \in Nat /\ queue \in Seq(Callers)
    /\ pc \in [Callers -> PcStates]
    /\ kind \in [Callers -> Kinds]
    /\ attempt \in [Callers -> {1, 2}]
    /\ conn \in [Callers -> Connections \union {None}]
    /\ had_error \in [Callers -> BOOLEAN]
    /\ opened \in 0 .. MaxConnections
    /\ broken \subseteq Connections /\ orphans \subseteq Connections
    /\ strays \in Nat /\ lost \in Nat

\* Where a future has a connection, where it owns a unit of the count, and where it
\* holds a permit.
Using == {"use", "sql", "health", "return", "retry"}
Owning == Using \union {"connect", "failed"}
HasPermit == PcStates \ {"out", "permit", "failed"}

Owners == {c \in Callers : pc[c] \in Owning}

HeldInUse == \A c \in Callers : conn[c] # None <=> pc[c] \in Using

\* A connection was opened, and is in one place: once in the stack, or with one future.
OnePlace ==
    /\ IsInjective(idle) /\ Range(idle) \subseteq 1 .. opened
    /\ \A c \in Callers : conn[c] \in 0 .. opened /\ conn[c] \notin Range(idle)
    /\ \A c, d \in Callers : conn[c] # None /\ conn[c] = conn[d] => c = d

\* SlotsAccounted, with one set of owners: the part of the count that is neither idle
\* nor lost.
Owned == total - Len(idle) - lost
OwnersAccounted == Owned = Cardinality(Owners)

\* Every task that was left alone has cost the pool a slot.
TasksPaidFor == IsFiniteSet(orphans) /\ Cardinality(orphans) + strays <= lost

\* The inductive invariant.
IInv ==
    /\ Shape /\ HeldInUse /\ OnePlace
    /\ OwnersAccounted /\ PermitsConserved /\ TasksPaidFor

--------------------------------------------------------------------------------
(* The stack, and the sets of futures that are counted. *)

\* An eviction leaves the youngest entries.
LEMMA KeptFacts ==
    ASSUME idle \in Seq(Connections), IsInjective(idle), NEW k \in 0 .. Len(idle)
    PROVE  /\ Kept(k) \in Seq(Connections) /\ Len(Kept(k)) = Len(idle) - k
           /\ IsInjective(Kept(k)) /\ Range(Kept(k)) \subseteq Range(idle)
BY SuffixFacts DEF Kept

\* What is left of the stack after a pop, and who is popped.
LEMMA PoppedFacts ==
    ASSUME NEW s \in Seq(Connections), IsInjective(s), s # <<>>
    PROVE  /\ Popped(s) \in Seq(Connections) /\ Len(Popped(s)) = Len(s) - 1
           /\ IsInjective(Popped(s)) /\ Range(Popped(s)) \subseteq Range(s) \ {Last(s)}
           /\ Last(s) \in Range(s) /\ Last(s) \in Connections
BY FrontFacts DEF Popped

\* All sets that are counted are finite.
LEMMA Finite ==
    /\ IsFiniteSet(Owners) /\ IsFiniteSet(Permitted)
    /\ IsFiniteSet(Owners') /\ IsFiniteSet(Permitted')
<1>1. /\ Owners \subseteq Callers /\ Permitted \subseteq Callers
      /\ Owners' \subseteq Callers /\ Permitted' \subseteq Callers
  BY DEF Owners, Permitted
<1> QED BY <1>1, CallersAssumption, FS_Subset

\* One future's step keeps the invariant if it keeps the two balances.
LEMMA OneCaller ==
    ASSUME IInv, NEW c \in Callers, Shape', OnePlace', TasksPaidFor',
           \A d \in Callers \ {c} : pc'[d] = pc[d] /\ conn'[d] = conn[d],
           conn'[c] # None <=> pc'[c] \in Using,
           Owned' - (IF pc'[c] \in Owning THEN 1 ELSE 0)
             = Owned - (IF pc[c] \in Owning THEN 1 ELSE 0),
           permits' = permits + (IF pc[c] \in HasPermit THEN 1 ELSE 0)
                              - (IF pc'[c] \in HasPermit THEN 1 ELSE 0)
    PROVE  IInv'
<1>0. /\ Len(idle) \in Nat /\ Len(idle') \in Nat /\ total \in Int /\ total' \in Int
      /\ lost \in Nat /\ lost' \in Nat /\ permits \in Nat /\ permits' \in Nat
  BY LenProperties DEF IInv, Shape
<1>1. HeldInUse'
  BY DEF IInv, HeldInUse
<1>2. OwnersAccounted'
  <2>1. Owners \ {c} = Owners' \ {c}
    BY DEF Owners
  <2>2. /\ Cardinality(Owners) \in Nat /\ Cardinality(Owners') \in Nat
        /\ Cardinality(Owners') = Cardinality(Owners) + (IF c \in Owners' THEN 1 ELSE 0)
                                                      - (IF c \in Owners THEN 1 ELSE 0)
    BY <2>1, Finite, OneMoves
  <2>3. (c \in Owners <=> pc[c] \in Owning) /\ (c \in Owners' <=> pc'[c] \in Owning)
    BY DEF Owners
  <2>4. Owned = Cardinality(Owners) /\ Owned' \in Int
    <3>1. Owned' \in Int
      BY <1>0 DEF Owned
    <3> QED BY <3>1 DEF IInv, OwnersAccounted
  <2> DEFINE before == IF pc[c] \in Owning THEN 1 ELSE 0
             after == IF pc'[c] \in Owning THEN 1 ELSE 0
  <2>5. /\ before \in Int /\ after \in Int
        /\ Owned' - after = Owned - before
    OBVIOUS
  <2>6. /\ Cardinality(Owners) \in Int /\ Cardinality(Owners') \in Int
        /\ Cardinality(Owners') = Cardinality(Owners) + after - before
    <3>1. /\ after = (IF c \in Owners' THEN 1 ELSE 0)
          /\ before = (IF c \in Owners THEN 1 ELSE 0)
      BY <2>3
    <3> QED BY <2>2, <3>1
  <2> HIDE DEF before, after
  <2>7. Owned' = Cardinality(Owners')
    BY <2>4, <2>5, <2>6
  <2> QED BY <2>7 DEF OwnersAccounted
<1>3. PermitsConserved'
  <2>1. Permitted \ {c} = Permitted' \ {c}
    BY DEF Permitted
  <2>2. /\ Cardinality(Permitted) \in Nat /\ Cardinality(Permitted') \in Nat
        /\ Cardinality(Permitted') = Cardinality(Permitted)
              + (IF c \in Permitted' THEN 1 ELSE 0) - (IF c \in Permitted THEN 1 ELSE 0)
    BY <2>1, Finite, OneMoves
  <2>3. (c \in Permitted <=> pc[c] \in HasPermit) /\ (c \in Permitted' <=> pc'[c] \in HasPermit)
    <3>1. pc[c] \in PcStates /\ pc'[c] \in PcStates
      BY DEF IInv, Shape
    <3> QED BY <3>1 DEF Permitted, HasPermit
  <2>4. permits + Cardinality(Permitted) = MaxSize /\ permits \in Int /\ permits' \in Int
    BY <1>0 DEF IInv, PermitsConserved
  <2> DEFINE before == IF pc[c] \in HasPermit THEN 1 ELSE 0
             after == IF pc'[c] \in HasPermit THEN 1 ELSE 0
  <2>5. /\ before \in Int /\ after \in Int
        /\ permits' = permits + before - after
    OBVIOUS
  <2>6. /\ Cardinality(Permitted) \in Int /\ Cardinality(Permitted') \in Int
        /\ Cardinality(Permitted') = Cardinality(Permitted) + after - before
    <3>1. /\ after = (IF c \in Permitted' THEN 1 ELSE 0)
          /\ before = (IF c \in Permitted THEN 1 ELSE 0)
      BY <2>3
    <3> QED BY <2>2, <3>1
  <2> HIDE DEF before, after
  <2>7. permits' + Cardinality(Permitted') = MaxSize
    BY <2>4, <2>5, <2>6
  <2> QED BY <2>7 DEF PermitsConserved
<1> QED BY <1>1, <1>2, <1>3 DEF IInv

\* A step of one future that touches neither stack, count, connections nor tasks.
LEMMA PoolUntouched ==
    ASSUME IInv, NEW c \in Callers, NEW where \in PcStates, Goto(c, where), Shape',
           UNCHANGED <<idle, total, conn, opened, tasks>>,
           where \in Using <=> pc[c] \in Using,
           where \in Owning <=> pc[c] \in Owning,
           permits' = permits + (IF pc[c] \in HasPermit THEN 1 ELSE 0)
                              - (IF where \in HasPermit THEN 1 ELSE 0)
    PROVE  IInv'
<1>1. pc'[c] = where /\ \A d \in Callers \ {c} : pc'[d] = pc[d]
  BY DEF Goto, IInv, Shape
<1>2. OnePlace' /\ TasksPaidFor'
  <2>1. OnePlace'
    BY DEF IInv, OnePlace
  <2>2. TasksPaidFor'
    BY DEF IInv, TasksPaidFor, tasks
  <2> QED BY <2>1, <2>2
<1>3. conn'[c] # None <=> pc'[c] \in Using
  BY <1>1 DEF IInv, HeldInUse
<1>4. Owned' - (IF pc'[c] \in Owning THEN 1 ELSE 0)
        = Owned - (IF pc[c] \in Owning THEN 1 ELSE 0)
  <2>1. Owned' = Owned
    BY DEF Owned, tasks
  <2> QED BY <1>1, <2>1
<1>5. permits' = permits + (IF pc[c] \in HasPermit THEN 1 ELSE 0)
                         - (IF pc'[c] \in HasPermit THEN 1 ELSE 0)
  BY <1>1
<1>6. \A d \in Callers \ {c} : pc'[d] = pc[d] /\ conn'[d] = conn[d]
  BY <1>1
<1> QED BY <1>2, <1>3, <1>4, <1>5, <1>6, OneCaller

--------------------------------------------------------------------------------
(* Every connection is in one place. *)

\* A future gives up its connection, which is closed or goes on in a task.
LEMMA PlaceGivenUp ==
    ASSUME IInv, NEW c \in Callers, conn' = [conn EXCEPT ![c] = None],
           idle' = idle, opened' = opened
    PROVE  OnePlace'
<1>1. conn'[c] = None /\ \A d \in Callers \ {c} : conn'[d] = conn[d]
  BY DEF IInv, Shape
<1>2. /\ \A d \in Callers : conn[d] \in 0 .. opened /\ conn[d] \notin Range(idle)
      /\ Range(idle) \subseteq 1 .. opened /\ IsInjective(idle)
      /\ opened \in 0 .. MaxConnections
      /\ \A d, e \in Callers : conn[d] # None /\ conn[d] = conn[e] => d = e
  BY DEF IInv, OnePlace, Shape
<1>3. None \in 0 .. opened /\ None \notin Range(idle)
  BY <1>2 DEF None
<1>4. \A d \in Callers : conn'[d] \in 0 .. opened /\ conn'[d] \notin Range(idle)
  BY <1>1, <1>2, <1>3
<1>5. \A d, e \in Callers : conn'[d] # None /\ conn'[d] = conn'[e] => d = e
  BY <1>1, <1>2
<1> QED BY <1>2, <1>4, <1>5 DEF OnePlace

\* A future pushes its connection on what an eviction has left.
LEMMA PlacePushed ==
    ASSUME IInv, NEW c \in Callers, conn[c] # None, conn' = [conn EXCEPT ![c] = None],
           NEW k \in 0 .. Len(idle), idle' = Append(Kept(k), conn[c]), opened' = opened
    PROVE  /\ OnePlace' /\ idle' \in Seq(Connections) /\ Len(idle') = Len(idle) - k + 1
           /\ Range(idle') \subseteq Range(idle) \union {conn[c]}
<1>1. /\ conn'[c] = None /\ \A d \in Callers \ {c} : conn'[d] = conn[d]
      /\ conn[c] \in Connections
  BY DEF IInv, Shape
<1>2. /\ \A d \in Callers : conn[d] \in 0 .. opened /\ conn[d] \notin Range(idle)
      /\ Range(idle) \subseteq 1 .. opened /\ IsInjective(idle)
      /\ opened \in 0 .. MaxConnections /\ idle \in Seq(Connections)
      /\ \A d, e \in Callers : conn[d] # None /\ conn[d] = conn[e] => d = e
  BY DEF IInv, OnePlace, Shape
<1>3. /\ Kept(k) \in Seq(Connections) /\ Len(Kept(k)) = Len(idle) - k
      /\ IsInjective(Kept(k)) /\ Range(Kept(k)) \subseteq Range(idle)
  BY <1>2, KeptFacts
<1>4. conn[c] \notin Range(Kept(k)) /\ conn[c] \in 1 .. opened
  BY <1>1, <1>2, <1>3 DEF Connections
<1>5. /\ idle' \in Seq(Connections) /\ Len(idle') = Len(Kept(k)) + 1
      /\ IsInjective(idle') /\ Range(idle') = Range(Kept(k)) \union {conn[c]}
  BY <1>1, <1>3, <1>4, PushedFacts
<1>6. None \in 0 .. opened /\ None \notin Range(idle') /\ Range(idle') \subseteq 1 .. opened
  BY <1>2, <1>3, <1>4, <1>5 DEF None
<1>7. \A d \in Callers : conn'[d] \in 0 .. opened /\ conn'[d] \notin Range(idle')
  BY <1>1, <1>2, <1>3, <1>5, <1>6
<1>8. \A d, e \in Callers : conn'[d] # None /\ conn'[d] = conn'[e] => d = e
  BY <1>1, <1>2
<1>9. OnePlace'
  BY <1>5, <1>6, <1>7, <1>8 DEF OnePlace
<1> QED BY <1>3, <1>5, <1>9

\* A future pops a connection from what an eviction has left.
LEMMA PlacePopped ==
    ASSUME IInv, NEW c \in Callers, conn[c] = None, NEW k \in 0 .. Len(idle),
           Kept(k) # <<>>, idle' = Popped(Kept(k)),
           conn' = [conn EXCEPT ![c] = Last(Kept(k))], opened' = opened
    PROVE  /\ OnePlace' /\ idle' \in Seq(Connections) /\ Len(idle') = Len(idle) - k - 1
           /\ conn' \in [Callers -> Connections \union {None}] /\ conn'[c] # None
           /\ Last(Kept(k)) \in Range(idle)
           /\ Range(idle') \subseteq Range(idle) \ {Last(Kept(k))}
<1>1. /\ \A d \in Callers : conn[d] \in 0 .. opened /\ conn[d] \notin Range(idle)
      /\ Range(idle) \subseteq 1 .. opened /\ IsInjective(idle)
      /\ opened \in 0 .. MaxConnections /\ idle \in Seq(Connections)
      /\ \A d, e \in Callers : conn[d] # None /\ conn[d] = conn[e] => d = e
      /\ conn \in [Callers -> Connections \union {None}]
  BY DEF IInv, OnePlace, Shape
<1>2. /\ Kept(k) \in Seq(Connections) /\ Len(Kept(k)) = Len(idle) - k
      /\ IsInjective(Kept(k)) /\ Range(Kept(k)) \subseteq Range(idle)
  BY <1>1, KeptFacts
<1>3. /\ idle' \in Seq(Connections) /\ Len(idle') = Len(Kept(k)) - 1
      /\ IsInjective(idle') /\ Range(idle') \subseteq Range(Kept(k)) \ {Last(Kept(k))}
      /\ Last(Kept(k)) \in Range(Kept(k)) /\ Last(Kept(k)) \in Connections
  BY <1>2, PoppedFacts
<1> DEFINE x == Last(Kept(k))
<1>4. /\ x \in Connections /\ x \in Range(idle) /\ x \notin Range(idle')
      /\ Range(idle') \subseteq Range(idle) /\ x \in 1 .. opened /\ x # None
  BY <1>1, <1>2, <1>3 DEF Connections, None
<1> HIDE DEF x
<1>5. conn'[c] = x /\ \A d \in Callers \ {c} : conn'[d] = conn[d]
  BY <1>1 DEF x
<1>6. \A d \in Callers : conn'[d] \in 0 .. opened /\ conn'[d] \notin Range(idle')
  BY <1>1, <1>4, <1>5
<1>7. \A d, e \in Callers : conn'[d] # None /\ conn'[d] = conn'[e] => d = e
  BY <1>1, <1>4, <1>5
<1>8. OnePlace'
  BY <1>1, <1>3, <1>4, <1>6, <1>7 DEF OnePlace
<1>9. conn' \in [Callers -> Connections \union {None}]
  BY <1>1, <1>4 DEF x
<1> QED BY <1>2, <1>3, <1>4, <1>5, <1>8, <1>9 DEF x

\* A new connection is nowhere yet.
LEMMA PlaceOpened ==
    ASSUME IInv, NEW c \in Callers, conn[c] = None, idle' = idle, opened < MaxConnections,
           opened' = opened + 1, conn' = [conn EXCEPT ![c] = opened + 1]
    PROVE  /\ OnePlace' /\ opened' \in 0 .. MaxConnections
           /\ conn' \in [Callers -> Connections \union {None}] /\ conn'[c] # None
<1>1. /\ \A d \in Callers : conn[d] \in 0 .. opened /\ conn[d] \notin Range(idle)
      /\ Range(idle) \subseteq 1 .. opened /\ IsInjective(idle)
      /\ opened \in Nat /\ MaxConnections \in Nat
      /\ \A d, e \in Callers : conn[d] # None /\ conn[d] = conn[e] => d = e
      /\ conn \in [Callers -> Connections \union {None}]
  BY BoundAssumption DEF IInv, OnePlace, Shape
<1>2. /\ conn'[c] = opened + 1 /\ \A d \in Callers \ {c} : conn'[d] = conn[d]
      /\ opened + 1 \in Connections /\ opened + 1 # None
  BY <1>1 DEF Connections, None
<1>3. /\ opened + 1 \notin Range(idle) /\ Range(idle) \subseteq 1 .. opened'
      /\ \A d \in Callers : conn[d] # opened + 1
  BY <1>1
<1>4. \A d \in Callers : conn'[d] \in 0 .. opened' /\ conn'[d] \notin Range(idle')
  BY <1>1, <1>2, <1>3
<1>5. \A d, e \in Callers : conn'[d] # None /\ conn'[d] = conn'[e] => d = e
  BY <1>1, <1>2, <1>3
<1>6. OnePlace'
  BY <1>1, <1>3, <1>4, <1>5 DEF OnePlace
<1>7. opened' \in 0 .. MaxConnections /\ conn' \in [Callers -> Connections \union {None}]
  BY <1>1, <1>2
<1> QED BY <1>2, <1>6, <1>7

\* Evicting everything leaves nothing to be in two places.
LEMMA PlaceEmptied ==
    ASSUME IInv, idle' = <<>>, UNCHANGED <<conn, opened>>
    PROVE  OnePlace' /\ idle' \in Seq(Connections) /\ Len(idle') = 0
BY EmptyFacts DEF IInv, OnePlace

--------------------------------------------------------------------------------
(* The steps. *)

\* Leaving the queue at its head or in the middle.
LEMMA LeavesQueue ==
    ASSUME queue \in Seq(Callers)
    PROVE  /\ queue # <<>> => Tail(queue) \in Seq(Callers)
           /\ \A i \in DOMAIN queue : RemoveAt(queue, i) \in Seq(Callers)
<1>1. queue # <<>> => Tail(queue) \in Seq(Callers)
  BY HeadTailProperties
<1>2. ASSUME NEW i \in DOMAIN queue PROVE RemoveAt(queue, i) \in Seq(Callers)
  <2>1. /\ Len(queue) \in Nat /\ i \in 1 .. Len(queue)
        /\ \A j \in 1 .. Len(queue) : queue[j] \in Callers
    BY LenProperties, ElementOfSeq
  <2>2. SubSeq(queue, 1, i - 1) \in Seq(Callers)
    <3>1. 1 \in Int /\ i - 1 \in Int /\ \A j \in 1 .. i - 1 : queue[j] \in Callers
      BY <2>1
    <3> QED BY <3>1, SubSeqProperties
  <2>3. SubSeq(queue, i + 1, Len(queue)) \in Seq(Callers)
    <3>1. i + 1 \in Int /\ Len(queue) \in Int
          /\ \A j \in i + 1 .. Len(queue) : queue[j] \in Callers
      BY <2>1
    <3> QED BY <3>1, SubSeqProperties
  <2> QED BY <2>2, <2>3, ConcatProperties DEF RemoveAt
<1> QED BY <1>1, <1>2

\* The critical section of acquire_connection.
LEMMA TakeSlotStep ==
    ASSUME IInv, NEW c \in Callers, TakeSlot(c)
    PROVE  IInv'
<1>1. /\ Shape /\ pc[c] = "slot" /\ conn[c] = None /\ UNCHANGED <<queue, driver, tasks>>
      /\ idle \in Seq(Connections) /\ IsInjective(idle) /\ Len(idle) \in Nat
      /\ total \in Int /\ total <= MaxSize /\ permits \in Nat /\ lost \in Nat
  BY LenProperties DEF TakeSlot, IInv, Shape, OnePlace, HeldInUse, Using
<1>2. PICK k \in 0 .. Len(idle) :
        \/ /\ Kept(k) # <<>>
           /\ idle' = Popped(Kept(k)) /\ total' = total - k
           /\ conn' = [conn EXCEPT ![c] = Last(Kept(k))]
           /\ Goto(c, "use") /\ UNCHANGED <<permits, kind, attempt, had_error>>
        \/ /\ Kept(k) = <<>> /\ HasRoom(total - k)
           /\ idle' = <<>> /\ total' = total - k + 1
           /\ Goto(c, "connect") /\ UNCHANGED <<permits, kind, attempt, conn, had_error>>
        \/ /\ Kept(k) = <<>>
           /\ idle' = <<>> /\ total' = total - k
           /\ permits' = permits + 1
           /\ Leave(c) /\ UNCHANGED conn
  BY DEF TakeSlot
<1>3. /\ Kept(k) \in Seq(Connections) /\ Len(Kept(k)) = Len(idle) - k /\ k \in Nat
      /\ Kept(k) = <<>> => k = Len(idle)
  BY <1>1, KeptFacts, EmptySeq
<1>4. opened' = opened /\ lost' = lost /\ TasksPaidFor'
  BY <1>1 DEF driver, tasks, IInv, TasksPaidFor
<1>5. CASE /\ Kept(k) # <<>>
           /\ idle' = Popped(Kept(k)) /\ total' = total - k
           /\ conn' = [conn EXCEPT ![c] = Last(Kept(k))]
           /\ Goto(c, "use") /\ UNCHANGED <<permits, kind, attempt, had_error>>
  <2>1. /\ OnePlace' /\ idle' \in Seq(Connections) /\ Len(idle') = Len(idle) - k - 1
        /\ conn' \in [Callers -> Connections \union {None}] /\ conn'[c] # None
    BY <1>1, <1>4, <1>5, PlacePopped
  <2>2. /\ pc'[c] = "use" /\ pc' \in [Callers -> PcStates]
        /\ \A d \in Callers \ {c} : pc'[d] = pc[d] /\ conn'[d] = conn[d]
    BY <1>1, <1>5 DEF Shape, Goto, PcStates
  <2>3. total' \in Int /\ total' <= MaxSize
    BY <1>1, <1>3, <1>5, SizeAssumption
  <2>4. Shape'
    BY <1>1, <1>5, <2>1, <2>2, <2>3 DEF Shape, driver, tasks
  <2>5. Owned' = Owned + 1
    BY <1>1, <1>3, <1>4, <1>5, <2>1 DEF Owned
  <2>6. Owned \in Int
    BY <1>1 DEF Owned
  <2>7. /\ "use" \in Owning /\ "slot" \notin Owning /\ "use" \in Using
        /\ "use" \in HasPermit /\ "slot" \in HasPermit
    BY DEF Owning, Using, HasPermit, PcStates
  <2>8. /\ Owned' - (IF pc'[c] \in Owning THEN 1 ELSE 0)
             = Owned - (IF pc[c] \in Owning THEN 1 ELSE 0)
        /\ permits' = permits + (IF pc[c] \in HasPermit THEN 1 ELSE 0)
                              - (IF pc'[c] \in HasPermit THEN 1 ELSE 0)
    BY <1>1, <1>5, <2>2, <2>5, <2>6, <2>7
  <2>9. conn'[c] # None <=> pc'[c] \in Using
    BY <2>1, <2>2, <2>7
  <2> QED BY <1>4, <2>1, <2>2, <2>4, <2>8, <2>9, OneCaller
<1>6. CASE /\ Kept(k) = <<>> /\ HasRoom(total - k)
           /\ idle' = <<>> /\ total' = total - k + 1
           /\ Goto(c, "connect") /\ UNCHANGED <<permits, kind, attempt, conn, had_error>>
  <2>1. OnePlace' /\ idle' \in Seq(Connections) /\ Len(idle') = 0
    BY <1>4, <1>6, PlaceEmptied
  <2>2. /\ pc'[c] = "connect" /\ pc' \in [Callers -> PcStates]
        /\ \A d \in Callers \ {c} : pc'[d] = pc[d] /\ conn'[d] = conn[d]
    BY <1>1, <1>6 DEF Shape, Goto, PcStates
  <2>3. total' \in Int /\ total' <= MaxSize
    BY <1>1, <1>3, <1>6, SizeAssumption DEF HasRoom
  <2>4. Shape'
    BY <1>1, <1>6, <2>1, <2>2, <2>3 DEF Shape, driver, tasks
  <2>5. Owned' = Owned + 1
    BY <1>1, <1>3, <1>4, <1>6, <2>1 DEF Owned
  <2>6. Owned \in Int
    BY <1>1 DEF Owned
  <2>7. /\ "connect" \in Owning /\ "slot" \notin Owning /\ "connect" \notin Using
        /\ "connect" \in HasPermit /\ "slot" \in HasPermit
    BY DEF Owning, Using, HasPermit, PcStates
  <2>8. /\ Owned' - (IF pc'[c] \in Owning THEN 1 ELSE 0)
             = Owned - (IF pc[c] \in Owning THEN 1 ELSE 0)
        /\ permits' = permits + (IF pc[c] \in HasPermit THEN 1 ELSE 0)
                              - (IF pc'[c] \in HasPermit THEN 1 ELSE 0)
    BY <1>1, <1>6, <2>2, <2>5, <2>6, <2>7
  <2>9. conn'[c] # None <=> pc'[c] \in Using
    BY <1>1, <1>6, <2>2, <2>7
  <2> QED BY <1>4, <2>1, <2>2, <2>4, <2>8, <2>9, OneCaller
<1>7. CASE /\ Kept(k) = <<>>
           /\ idle' = <<>> /\ total' = total - k
           /\ permits' = permits + 1
           /\ Leave(c) /\ UNCHANGED conn
  <2>1. OnePlace' /\ idle' \in Seq(Connections) /\ Len(idle') = 0
    BY <1>4, <1>7, PlaceEmptied
  <2>2. /\ pc'[c] = "out" /\ pc' \in [Callers -> PcStates]
        /\ \A d \in Callers \ {c} : pc'[d] = pc[d] /\ conn'[d] = conn[d]
    BY <1>1, <1>7 DEF Shape, Leave, Goto, PcStates
  <2>3. total' \in Int /\ total' <= MaxSize
    BY <1>1, <1>3, <1>7, SizeAssumption
  <2>4. Shape'
    <3>1. /\ kind' \in [Callers -> Kinds] /\ attempt' \in [Callers -> {1, 2}]
          /\ had_error' \in [Callers -> BOOLEAN]
      BY <1>1, <1>7 DEF Shape, Leave, Forget, Kinds
    <3> QED BY <1>1, <1>7, <2>1, <2>2, <2>3, <3>1 DEF Shape, driver, tasks
  <2>5. Owned' = Owned
    BY <1>1, <1>3, <1>4, <1>7, <2>1 DEF Owned
  <2>6. Owned \in Int
    BY <1>1 DEF Owned
  <2>7. /\ "out" \notin Owning /\ "slot" \notin Owning /\ "out" \notin Using
        /\ "out" \notin HasPermit /\ "slot" \in HasPermit
    BY DEF Owning, Using, HasPermit, PcStates
  <2>8. /\ Owned' - (IF pc'[c] \in Owning THEN 1 ELSE 0)
             = Owned - (IF pc[c] \in Owning THEN 1 ELSE 0)
        /\ permits' = permits + (IF pc[c] \in HasPermit THEN 1 ELSE 0)
                              - (IF pc'[c] \in HasPermit THEN 1 ELSE 0)
    BY <1>1, <1>7, <2>2, <2>5, <2>6, <2>7
  <2>9. conn'[c] # None <=> pc'[c] \in Using
    BY <1>1, <1>7, <2>2, <2>7
  <2> QED BY <1>4, <2>1, <2>2, <2>4, <2>8, <2>9, OneCaller
<1> QED BY <1>2, <1>5, <1>6, <1>7

\* An attempt to connect, whatever comes of it.
LEMMA ConnectStep ==
    ASSUME IInv, NEW c \in Callers, Connect(c)
    PROVE  IInv'
<1>1. /\ Shape /\ pc[c] = "connect" /\ conn[c] = None
      /\ UNCHANGED <<idle, queue, broken, tasks>> /\ Len(idle) \in Nat
      /\ total \in Int /\ total <= MaxSize /\ permits \in Nat /\ lost \in Nat
  BY LenProperties DEF Connect, IInv, Shape, HeldInUse, Using
<1>2. /\ lost' = lost /\ TasksPaidFor' /\ Owned \in Int
      /\ "connect" \in Owning /\ "use" \in Owning /\ "use" \in Using
      /\ "out" \notin Owning /\ "out" \notin Using
      /\ "connect" \in HasPermit /\ "use" \in HasPermit /\ "out" \notin HasPermit
  BY <1>1 DEF tasks, IInv, TasksPaidFor, Owned, Owning, Using, HasPermit, PcStates
<1>3. CASE /\ opened < MaxConnections /\ opened' = opened + 1
           /\ conn' = [conn EXCEPT ![c] = opened + 1]
           /\ Goto(c, "use") /\ UNCHANGED <<total, permits, kind, attempt, had_error>>
  <2>1. /\ OnePlace' /\ opened' \in 0 .. MaxConnections
        /\ conn' \in [Callers -> Connections \union {None}] /\ conn'[c] # None
    BY <1>1, <1>3, PlaceOpened
  <2>2. /\ pc'[c] = "use" /\ pc' \in [Callers -> PcStates]
        /\ \A d \in Callers \ {c} : pc'[d] = pc[d] /\ conn'[d] = conn[d]
    BY <1>1, <1>3 DEF Shape, Goto, PcStates
  <2>3. Shape'
    BY <1>1, <1>3, <2>1, <2>2 DEF Shape, tasks
  <2>4. Owned' = Owned
    BY <1>1, <1>2, <1>3 DEF Owned
  <2>5. /\ Owned' - (IF pc'[c] \in Owning THEN 1 ELSE 0)
             = Owned - (IF pc[c] \in Owning THEN 1 ELSE 0)
        /\ permits' = permits + (IF pc[c] \in HasPermit THEN 1 ELSE 0)
                              - (IF pc'[c] \in HasPermit THEN 1 ELSE 0)
    BY <1>1, <1>2, <1>3, <2>2, <2>4
  <2>6. conn'[c] # None <=> pc'[c] \in Using
    BY <1>2, <2>1, <2>2
  <2> QED BY <1>2, <2>1, <2>2, <2>3, <2>5, <2>6, OneCaller
<1>4. CASE /\ total' = GiveUpSlot(total) /\ permits' = permits + 1
           /\ Leave(c) /\ UNCHANGED <<conn, opened>>
  <2>1. OnePlace'
    BY <1>1, <1>4 DEF IInv, OnePlace
  <2>2. /\ pc'[c] = "out" /\ pc' \in [Callers -> PcStates]
        /\ \A d \in Callers \ {c} : pc'[d] = pc[d] /\ conn'[d] = conn[d]
    BY <1>1, <1>4 DEF Shape, Leave, Goto, PcStates
  <2>3. total' \in Int /\ total' <= MaxSize /\ total' = total - 1
    BY <1>1, <1>4, SizeAssumption DEF GiveUpSlot
  <2>4. Shape'
    <3>1. /\ kind' \in [Callers -> Kinds] /\ attempt' \in [Callers -> {1, 2}]
          /\ had_error' \in [Callers -> BOOLEAN]
      BY <1>1, <1>4 DEF Shape, Leave, Forget, Kinds
    <3> QED BY <1>1, <1>4, <2>2, <2>3, <3>1 DEF Shape, tasks
  <2>5. Owned' = Owned - 1
    BY <1>1, <1>2, <2>3 DEF Owned
  <2>6. /\ Owned' - (IF pc'[c] \in Owning THEN 1 ELSE 0)
             = Owned - (IF pc[c] \in Owning THEN 1 ELSE 0)
        /\ permits' = permits + (IF pc[c] \in HasPermit THEN 1 ELSE 0)
                              - (IF pc'[c] \in HasPermit THEN 1 ELSE 0)
    BY <1>1, <1>2, <1>4, <2>2, <2>5
  <2>7. conn'[c] # None <=> pc'[c] \in Using
    BY <1>1, <1>2, <1>4, <2>2
  <2> QED BY <1>2, <2>1, <2>2, <2>4, <2>6, <2>7, OneCaller
<1> QED BY <1>3, <1>4 DEF Connect

\* A panicked task: its future keeps the unit of the count, and gives back the permit.
LEMMA PanicStep ==
    ASSUME IInv, NEW c \in Callers, Panic(c)
    PROVE  IInv'
<1>1. /\ Shape /\ pc[c] \in {"sql", "health"} /\ conn' = [conn EXCEPT ![c] = None]
      /\ permits' = permits + 1 /\ Goto(c, "failed")
      /\ UNCHANGED <<idle, total, queue, kind, attempt, had_error, opened, broken, tasks>>
      /\ permits \in Nat
  BY DEF Panic, IInv, Shape, pool, driver
<1>2. /\ TasksPaidFor' /\ Owned' = Owned
      /\ "failed" \in Owning /\ pc[c] \in Owning /\ "failed" \notin Using
      /\ "failed" \notin HasPermit /\ pc[c] \in HasPermit
  BY <1>1 DEF tasks, IInv, TasksPaidFor, Owned, Owning, Using, HasPermit, PcStates
<1>3. OnePlace'
  BY <1>1, PlaceGivenUp
<1>4. /\ pc'[c] = "failed" /\ pc' \in [Callers -> PcStates] /\ conn'[c] = None
      /\ conn' \in [Callers -> Connections \union {None}]
      /\ \A d \in Callers \ {c} : pc'[d] = pc[d] /\ conn'[d] = conn[d]
  BY <1>1 DEF Shape, Goto, PcStates
<1>5. Shape'
  BY <1>1, <1>4 DEF Shape, tasks
<1>6. /\ Owned' - (IF pc'[c] \in Owning THEN 1 ELSE 0)
           = Owned - (IF pc[c] \in Owning THEN 1 ELSE 0)
      /\ permits' = permits + (IF pc[c] \in HasPermit THEN 1 ELSE 0)
                            - (IF pc'[c] \in HasPermit THEN 1 ELSE 0)
  BY <1>1, <1>2, <1>4
<1>7. conn'[c] # None <=> pc'[c] \in Using
  BY <1>2, <1>4
<1> QED BY <1>2, <1>3, <1>4, <1>5, <1>6, <1>7, OneCaller

\* Then the unit of the count.
LEMMA JoinErrorStep ==
    ASSUME IInv, NEW c \in Callers, JoinError(c)
    PROVE  IInv'
<1>1. /\ Shape /\ pc[c] = "failed" /\ conn[c] = None /\ total' = total - 1
      /\ UNCHANGED <<idle, permits, conn, opened, broken, tasks>>
      /\ Len(idle) \in Nat /\ total \in Int /\ total <= MaxSize
      /\ permits \in Nat /\ lost \in Nat /\ queue \in Seq(Callers)
  BY LenProperties DEF JoinError, IInv, Shape, HeldInUse, Using, driver
<1>2. PICK where \in {"permit", "out"} :
        /\ Goto(c, where)
        /\ kind' \in [Callers -> Kinds] /\ attempt' \in [Callers -> {1, 2}]
        /\ had_error' \in [Callers -> BOOLEAN] /\ queue' \in Seq(Callers)
  <2>1. CASE /\ attempt' = [attempt EXCEPT ![c] = 2]
             /\ Goto(c, "permit") /\ queue' = Append(queue, c)
             /\ UNCHANGED <<kind, had_error>>
    <3>1. queue' \in Seq(Callers)
      BY <1>1, <2>1, AppendProperties
    <3> QED BY <1>1, <2>1, <3>1 DEF Shape
  <2>2. CASE Leave(c) /\ UNCHANGED queue
    BY <1>1, <2>2 DEF Shape, Leave, Forget, Kinds
  <2> QED BY <2>1, <2>2 DEF JoinError
<1>3. /\ TasksPaidFor' /\ OnePlace' /\ Owned \in Int /\ Owned' = Owned - 1
      /\ "failed" \in Owning /\ where \notin Owning /\ where \notin Using
      /\ "failed" \notin HasPermit /\ where \notin HasPermit /\ where \in PcStates
  <2>1. TasksPaidFor' /\ OnePlace'
    BY <1>1 DEF tasks, IInv, TasksPaidFor, OnePlace
  <2>2. Owned \in Int /\ Owned' = Owned - 1
    BY <1>1 DEF Owned, tasks
  <2> QED BY <2>1, <2>2 DEF Owning, Using, HasPermit, PcStates
<1>4. /\ pc'[c] = where /\ pc' \in [Callers -> PcStates]
      /\ \A d \in Callers \ {c} : pc'[d] = pc[d] /\ conn'[d] = conn[d]
  BY <1>1, <1>2, <1>3 DEF Shape, Goto
<1>5. Shape'
  <2>1. total' \in Int /\ total' <= MaxSize
    BY <1>1, SizeAssumption
  <2> QED BY <1>1, <1>2, <1>4, <2>1 DEF Shape, tasks
<1>6. /\ Owned' - (IF pc'[c] \in Owning THEN 1 ELSE 0)
           = Owned - (IF pc[c] \in Owning THEN 1 ELSE 0)
      /\ permits' = permits + (IF pc[c] \in HasPermit THEN 1 ELSE 0)
                            - (IF pc'[c] \in HasPermit THEN 1 ELSE 0)
  BY <1>1, <1>3, <1>4
<1>7. conn'[c] # None <=> pc'[c] \in Using
  BY <1>1, <1>3, <1>4
<1> QED BY <1>3, <1>4, <1>5, <1>6, <1>7, OneCaller

\* The drop of a handle keeps the permit, and gives up the unit of the count unless
\* the connection goes back to the stack.
LEMMA ReturnStep ==
    ASSUME IInv, NEW c \in Callers, Return(c)
    PROVE  IInv'
<1>1. /\ Shape /\ pc[c] \in {"return", "retry"} /\ conn[c] # None
      /\ conn' = [conn EXCEPT ![c] = None]
      /\ UNCHANGED <<permits, queue, kind, attempt, had_error, opened, broken, tasks>>
      /\ Len(idle) \in Nat /\ total \in Int /\ total <= MaxSize
      /\ permits \in Nat /\ lost \in Nat
  BY LenProperties DEF Return, IInv, Shape, HeldInUse, Using, semaphore, driver
<1>2. PICK where \in {"release", "requeue"} : Goto(c, where)
  BY DEF Return
<1>3. /\ OnePlace' /\ idle' \in Seq(Connections)
      /\ total' \in Int /\ total' <= MaxSize /\ Owned \in Int /\ Owned' = Owned - 1
  <2>1. CASE idle' = idle /\ total' = total - 1
    <3>1. OnePlace'
      BY <1>1, <2>1, PlaceGivenUp
    <3>2. total' \in Int /\ total' <= MaxSize
      BY <1>1, <2>1, SizeAssumption
    <3>3. Owned \in Int /\ Owned' = Owned - 1
      BY <1>1, <2>1 DEF Owned, tasks
    <3> QED BY <1>1, <2>1, <3>1, <3>2, <3>3 DEF Shape
  <2>2. ASSUME NEW k \in 0 .. Len(idle), idle' = Append(Kept(k), conn[c]), total' = total - k
        PROVE  /\ OnePlace' /\ idle' \in Seq(Connections) /\ Owned \in Int
               /\ total' \in Int /\ total' <= MaxSize /\ Owned' = Owned - 1
    <3>1. OnePlace' /\ idle' \in Seq(Connections) /\ Len(idle') = Len(idle) - k + 1
      BY <1>1, <2>2, PlacePushed
    <3>2. total' \in Int /\ total' <= MaxSize /\ k \in Nat
      BY <1>1, <2>2, SizeAssumption
    <3>3. Owned \in Int /\ Owned' = Owned - 1
      BY <1>1, <2>2, <3>1, <3>2 DEF Owned, tasks
    <3> QED BY <3>1, <3>2, <3>3
  <2> QED BY <2>1, <2>2 DEF Return
<1>4. /\ TasksPaidFor' /\ pc[c] \in Owning /\ where \notin Owning /\ where \notin Using
      /\ pc[c] \in HasPermit /\ where \in HasPermit /\ where \in PcStates
  BY <1>1 DEF tasks, IInv, TasksPaidFor, Owning, Using, HasPermit, PcStates
<1>5. /\ pc'[c] = where /\ pc' \in [Callers -> PcStates] /\ conn'[c] = None
      /\ conn' \in [Callers -> Connections \union {None}]
      /\ \A d \in Callers \ {c} : pc'[d] = pc[d] /\ conn'[d] = conn[d]
  BY <1>1, <1>2, <1>4 DEF Shape, Goto
<1>6. Shape'
  BY <1>1, <1>3, <1>5 DEF Shape, tasks
<1>7. /\ Owned' - (IF pc'[c] \in Owning THEN 1 ELSE 0)
           = Owned - (IF pc[c] \in Owning THEN 1 ELSE 0)
      /\ permits' = permits + (IF pc[c] \in HasPermit THEN 1 ELSE 0)
                            - (IF pc'[c] \in HasPermit THEN 1 ELSE 0)
  BY <1>1, <1>3, <1>4, <1>5
<1>8. conn'[c] # None <=> pc'[c] \in Using
  BY <1>4, <1>5
<1> QED BY <1>3, <1>4, <1>5, <1>6, <1>7, <1>8, OneCaller

\* A future that is dropped while a task has its slot turns the slot into a lost one.
LEMMA DropFutureStep ==
    ASSUME IInv, NEW c \in Callers, DropFuture(c)
    PROVE  IInv'
<1>1. /\ Shape /\ lost' = lost + 1 /\ Goto(c, "release")
      /\ UNCHANGED <<idle, total, permits, queue, kind, attempt, had_error, opened, broken>>
      /\ Len(idle) \in Nat /\ total \in Int /\ permits \in Nat
      /\ lost \in Nat /\ strays \in Nat /\ orphans \subseteq Connections
  BY LenProperties DEF DropFuture, IInv, Shape, pool, semaphore, driver
<1>2. IsFiniteSet(orphans) /\ Cardinality(orphans) \in Nat /\ Cardinality(orphans) + strays <= lost
  BY FS_CardinalityType DEF IInv, TasksPaidFor
<1>3. /\ OnePlace' /\ TasksPaidFor' /\ orphans' \subseteq Connections /\ strays' \in Nat
      /\ pc[c] \in {"connect", "sql", "health"} /\ conn'[c] = None
      /\ conn' \in [Callers -> Connections \union {None}]
      /\ \A d \in Callers \ {c} : conn'[d] = conn[d]
  <2>1. CASE pc[c] = "connect" /\ strays' = strays + 1 /\ UNCHANGED <<conn, orphans>>
    <3>1. OnePlace'
      BY <1>1, <2>1 DEF IInv, OnePlace
    <3>2. TasksPaidFor'
      BY <1>1, <1>2, <2>1 DEF TasksPaidFor
    <3>3. conn[c] = None
      BY <2>1 DEF IInv, HeldInUse, Using
    <3> QED BY <1>1, <2>1, <3>1, <3>2, <3>3 DEF Shape
  <2>2. CASE /\ pc[c] \in {"sql", "health"} /\ orphans' = orphans \union {conn[c]}
             /\ conn' = [conn EXCEPT ![c] = None] /\ UNCHANGED strays
    <3>1. conn[c] \in Connections
      BY <1>1, <2>2 DEF IInv, HeldInUse, Using, Shape
    <3>2. OnePlace'
      BY <1>1, <2>2, PlaceGivenUp
    <3>3. /\ IsFiniteSet(orphans') /\ Cardinality(orphans') \in Nat
          /\ Cardinality(orphans') <= Cardinality(orphans) + 1
      <4>1. /\ IsFiniteSet(orphans \union {conn[c]})
            /\ \/ Cardinality(orphans \union {conn[c]}) = Cardinality(orphans)
               \/ Cardinality(orphans \union {conn[c]}) = Cardinality(orphans) + 1
        BY <1>2, FS_AddElement
      <4> QED BY <1>2, <2>2, <4>1
    <3>4. TasksPaidFor'
      BY <1>1, <1>2, <2>2, <3>3 DEF TasksPaidFor
    <3> QED BY <1>1, <2>2, <3>1, <3>2, <3>4 DEF Shape
  <2> QED BY <2>1, <2>2 DEF DropFuture
<1>4. /\ pc[c] \in Owning /\ "release" \notin Owning /\ "release" \notin Using
      /\ pc[c] \in HasPermit /\ "release" \in HasPermit
  BY <1>3 DEF Owning, Using, HasPermit, PcStates
<1>5. /\ pc'[c] = "release" /\ pc' \in [Callers -> PcStates]
      /\ \A d \in Callers \ {c} : pc'[d] = pc[d] /\ conn'[d] = conn[d]
  BY <1>1, <1>3 DEF Shape, Goto, PcStates
<1>6. Shape'
  BY <1>1, <1>3, <1>5 DEF Shape
<1>7. Owned \in Int /\ Owned' = Owned - 1
  BY <1>1 DEF Owned
<1>8. /\ Owned' - (IF pc'[c] \in Owning THEN 1 ELSE 0)
           = Owned - (IF pc[c] \in Owning THEN 1 ELSE 0)
      /\ permits' = permits + (IF pc[c] \in HasPermit THEN 1 ELSE 0)
                            - (IF pc'[c] \in HasPermit THEN 1 ELSE 0)
  BY <1>1, <1>4, <1>5, <1>7
<1>9. conn'[c] # None <=> pc'[c] \in Using
  BY <1>3, <1>4, <1>5
<1> QED BY <1>3, <1>5, <1>6, <1>8, <1>9, OneCaller

\* A task that was left alone ends, or a connection breaks.
LEMMA ElsewhereStep ==
    ASSUME IInv,
           \/ \E k \in Connections : OrphanEnds(k) \/ Break(k)
           \/ StrayEnds
    PROVE  IInv'
<1>1. /\ Shape /\ UNCHANGED <<pool, semaphore, caller, opened, lost>>
      /\ IsFiniteSet(orphans) /\ Cardinality(orphans) \in Nat
      /\ Cardinality(orphans) + strays <= lost /\ strays \in Nat /\ lost \in Nat
  BY FS_CardinalityType DEF OrphanEnds, Break, StrayEnds, IInv, Shape, TasksPaidFor,
                            driver, tasks
<1>2. /\ IsFiniteSet(orphans') /\ Cardinality(orphans') \in Nat
      /\ Cardinality(orphans') <= Cardinality(orphans)
      /\ orphans' \subseteq orphans /\ broken' \subseteq Connections
      /\ strays' \in Nat /\ strays' <= strays
  <2>1. ASSUME NEW k \in Connections, OrphanEnds(k)
        PROVE  /\ orphans' \subseteq orphans /\ broken' \subseteq Connections
               /\ strays' \in Nat /\ strays' <= strays
    BY <1>1, <2>1 DEF OrphanEnds, driver, Shape
  <2>2. ASSUME NEW k \in Connections, Break(k)
        PROVE  /\ orphans' \subseteq orphans /\ broken' \subseteq Connections
               /\ strays' \in Nat /\ strays' <= strays
    BY <1>1, <2>2 DEF Break, tasks, Shape
  <2>3. ASSUME StrayEnds
        PROVE  /\ orphans' \subseteq orphans /\ broken' \subseteq Connections
               /\ strays' \in Nat /\ strays' <= strays
    BY <1>1, <2>3 DEF StrayEnds, driver, Shape
  <2>4. /\ orphans' \subseteq orphans /\ broken' \subseteq Connections
        /\ strays' \in Nat /\ strays' <= strays
    BY <2>1, <2>2, <2>3
  <2> QED BY <1>1, <2>4, FS_Subset, FS_CardinalityType
<1>3. Shape'
  BY <1>1, <1>2 DEF Shape, pool, semaphore, caller
<1>4. TasksPaidFor'
  BY <1>1, <1>2 DEF TasksPaidFor
<1>5. HeldInUse' /\ OnePlace'
  <2>1. HeldInUse'
    BY <1>1 DEF IInv, HeldInUse, caller
  <2>2. OnePlace'
    BY <1>1 DEF IInv, OnePlace, pool, caller
  <2> QED BY <2>1, <2>2
<1>6. OwnersAccounted'
  <2>1. Owners' = Owners
    BY <1>1 DEF Owners, caller
  <2>2. Owned' = Owned
    BY <1>1 DEF Owned, pool
  <2> QED BY <2>1, <2>2 DEF IInv, OwnersAccounted
<1>7. PermitsConserved'
  <2>1. Permitted' = Permitted
    BY <1>1 DEF Permitted, caller
  <2> QED BY <1>1, <2>1 DEF IInv, PermitsConserved, semaphore
<1> QED BY <1>3, <1>4, <1>5, <1>6, <1>7 DEF IInv

\* The invariant holds of the empty pool.
LEMMA IInvInit == Init => IInv
<1> SUFFICES ASSUME Init PROVE IInv
  OBVIOUS
<1>1. /\ MinIdle \in Nat /\ MinIdle <= MaxSize /\ MinIdle <= MaxConnections
      /\ MaxConnections \in Nat /\ MaxSize \in Nat
  BY SizeAssumption, BoundAssumption
<1>2. idle \in Seq(Connections) /\ Len(idle) = MinIdle
  BY <1>1 DEF Init, Connections
<1>3. <<>> \in Seq(Callers) /\ queue = <<>>
  BY EmptySeq DEF Init
<1>4. Shape
  BY <1>1, <1>2, <1>3 DEF Init, Shape, PcStates, Kinds, Connections
<1>5. HeldInUse
  BY DEF Init, HeldInUse, Using
<1>6. OnePlace
  <2>1. Range(idle) = 1 .. MinIdle /\ IsInjective(idle)
    BY DEF Init, Range, IsInjective
  <2> QED BY <1>1, <2>1 DEF Init, OnePlace, None
<1>7. Owners = {} /\ Permitted = {}
  BY DEF Init, Owners, Permitted, Owning, Using
<1>8. OwnersAccounted
  <2>1. Owned = 0
    BY <1>1, <1>2 DEF Init, Owned
  <2> QED BY <1>7, <2>1, FS_EmptySet DEF OwnersAccounted
<1>9. PermitsConserved
  BY <1>1, <1>7, FS_EmptySet DEF Init, PermitsConserved
<1>10. TasksPaidFor
  BY FS_EmptySet DEF Init, TasksPaidFor
<1> QED BY <1>4, <1>5, <1>6, <1>8, <1>9, <1>10 DEF IInv

\* Every step keeps the invariant, one case per action.
LEMMA IInvStep == IInv /\ [Next]_vars => IInv'
<1> SUFFICES ASSUME IInv, [Next]_vars PROVE IInv'
  OBVIOUS
<1>0. Shape /\ queue \in Seq(Callers) /\ permits \in Nat
  BY DEF IInv, Shape
<1> USE DEF Owning, Using, HasPermit, PcStates
<1>1. ASSUME NEW c \in Callers, call(c) PROVE IInv'
  <2>1. pc[c] = "out" /\ Goto(c, "permit") /\ "permit" \in PcStates
        /\ UNCHANGED <<idle, total, conn, opened, tasks, permits>>
    BY <1>1 DEF call, pool, driver
  <2>2. queue' \in Seq(Callers)
    BY <1>0, <1>1, AppendProperties DEF call
  <2>3. Shape'
    BY <1>0, <1>1, <2>1, <2>2 DEF call, Shape, Goto, Kinds, driver, tasks
  <2> QED BY <1>0, <2>1, <2>3, PoolUntouched
<1>2. ASSUME NEW c \in Callers, acquire_owned(c) PROVE IInv'
  <2>1. pc[c] = "permit" /\ Goto(c, "slot") /\ "slot" \in PcStates
        /\ UNCHANGED <<idle, total, conn, opened, tasks>> /\ permits' = permits - 1
        /\ permits' \in Nat
    BY <1>0, <1>2 DEF acquire_owned, pool, driver
  <2>2. queue' \in Seq(Callers)
    BY <1>0, <1>2, LeavesQueue DEF acquire_owned
  <2>3. Shape'
    BY <1>0, <1>2, <2>1, <2>2 DEF acquire_owned, Shape, Goto, driver, tasks
  <2> QED BY <1>0, <2>1, <2>3, PoolUntouched
<1>3. ASSUME NEW c \in Callers, PermitTimesOut(c) PROVE IInv'
  <2>1. pc[c] = "permit" /\ Goto(c, "out") /\ "out" \in PcStates
        /\ UNCHANGED <<idle, total, conn, opened, tasks, permits>>
    BY <1>3 DEF PermitTimesOut, Leave, pool, driver
  <2>2. queue' \in Seq(Callers)
    BY <1>0, <1>3, LeavesQueue DEF PermitTimesOut
  <2>3. Shape'
    BY <1>0, <1>3, <2>1, <2>2 DEF PermitTimesOut, Leave, Forget, Shape, Goto, Kinds, driver, tasks
  <2> QED BY <1>0, <2>1, <2>3, PoolUntouched
<1>4. ASSUME NEW c \in Callers, Start(c) \/ Finish(c) \/ Healthcheck(c) \/ DropHandle(c)
      PROVE  IInv'
  <2>1. PICK where \in Using : Goto(c, where)
    BY <1>4 DEF Start, Finish, Healthcheck, DropHandle
  <2>2. pc[c] \in Using /\ UNCHANGED <<idle, total, conn, opened, tasks, permits>>
    BY <1>4 DEF Start, Finish, Healthcheck, DropHandle, pool, driver, semaphore
  <2>3. Shape'
    BY <1>0, <1>4, <2>1, <2>2
       DEF Start, Finish, Healthcheck, DropHandle, Shape, Goto, semaphore, driver, tasks
  <2> QED BY <1>0, <2>1, <2>2, <2>3, PoolUntouched
<1>5. ASSUME NEW c \in Callers, ReleasePermit(c) PROVE IInv'
  <2>1. PICK where \in {"out", "permit"} : Goto(c, where)
    BY <1>5 DEF ReleasePermit, Leave
  <2>2. /\ pc[c] \in {"release", "requeue"} /\ permits' = permits + 1
        /\ UNCHANGED <<idle, total, conn, opened, tasks>>
    BY <1>5 DEF ReleasePermit, Released, pool, driver
  <2>3. queue' \in Seq(Callers)
    BY <1>0, <1>5, AppendProperties DEF ReleasePermit
  <2>4. /\ kind' \in [Callers -> Kinds] /\ attempt' \in [Callers -> {1, 2}]
        /\ had_error' \in [Callers -> BOOLEAN]
    BY <1>0, <1>5 DEF ReleasePermit, Leave, Forget, Shape, Kinds
  <2>5. Shape'
    <3>1. UNCHANGED <<pool, conn, driver, tasks>> /\ permits' \in Nat
      BY <1>0, <1>5, <2>2 DEF ReleasePermit
    <3>2. pc' \in [Callers -> PcStates]
      BY <1>0, <2>1 DEF Shape, Goto
    <3> QED BY <1>0, <2>3, <2>4, <3>1, <3>2 DEF Shape, pool, driver, tasks
  <2> QED BY <1>0, <2>1, <2>2, <2>5, PoolUntouched
<1>6. CASE UNCHANGED vars
  <2>1. Shape'
    BY <1>0, <1>6 DEF Shape, vars, pool, semaphore, caller, driver, tasks
  <2>2. HeldInUse' /\ OnePlace' /\ TasksPaidFor'
    BY <1>6 DEF IInv, HeldInUse, OnePlace, TasksPaidFor, vars, pool, caller, driver, tasks
  <2>3. OwnersAccounted'
    BY <1>6 DEF IInv, OwnersAccounted, Owned, Owners, vars, pool, caller, tasks
  <2>4. PermitsConserved'
    BY <1>6 DEF IInv, PermitsConserved, Permitted, vars, semaphore, caller
  <2> QED BY <2>1, <2>2, <2>3, <2>4 DEF IInv
<1> QED BY <1>1, <1>2, <1>3, <1>4, <1>5, <1>6, TakeSlotStep, ConnectStep, PanicStep,
           JoinErrorStep, ReturnStep, DropFutureStep, ElsewhereStep DEF Next, Continue

\* The invariant holds in every state of the pool.
THEOREM Inductive == Spec => []IInv
BY IInvInit, IInvStep, PTL DEF Spec

--------------------------------------------------------------------------------
(* What follows from it. *)

\* The owners are those that have a connection, open one, or have lost one to a panic.
LEMMA OwnersAre ==
    ASSUME IInv
    PROVE  /\ Cardinality(Holders) \in Nat /\ Cardinality(Connecting) \in Nat
           /\ Cardinality(Failing) \in Nat /\ Cardinality(Owners) \in Nat
           /\ Cardinality(Owners)
                = Cardinality(Holders) + Cardinality(Connecting) + Cardinality(Failing)
<1>1. /\ Holders \subseteq Callers /\ Connecting \subseteq Callers /\ Failing \subseteq Callers
  BY DEF Holders, Connecting, Failing
<1>2. /\ IsFiniteSet(Holders) /\ IsFiniteSet(Connecting) /\ IsFiniteSet(Failing)
  BY <1>1, CallersAssumption, FS_Subset
<1>3. /\ Owners = (Holders \union Connecting) \union Failing
      /\ Holders \intersect Connecting = {}
      /\ (Holders \union Connecting) \intersect Failing = {}
  BY DEF IInv, HeldInUse, Owners, Holders, Connecting, Failing, Owning, Using
<1>4. /\ IsFiniteSet(Holders \union Connecting)
      /\ Cardinality(Holders \union Connecting) = Cardinality(Holders) + Cardinality(Connecting)
  <2>1. /\ IsFiniteSet(Holders \union Connecting)
        /\ Cardinality(Holders \union Connecting)
             = Cardinality(Holders) + Cardinality(Connecting)
                  - Cardinality(Holders \intersect Connecting)
    BY <1>2, FS_Union
  <2>2. Cardinality(Holders) \in Nat /\ Cardinality(Connecting) \in Nat
    BY <1>2, FS_CardinalityType
  <2>3. Cardinality(Holders \intersect Connecting) = 0
    BY <1>3, FS_EmptySet
  <2> QED BY <2>1, <2>2, <2>3
<1>5. Cardinality(Owners) = Cardinality(Holders \union Connecting) + Cardinality(Failing)
  <2>1. Cardinality(Owners)
          = Cardinality(Holders \union Connecting) + Cardinality(Failing)
               - Cardinality((Holders \union Connecting) \intersect Failing)
    BY <1>2, <1>3, <1>4, FS_Union
  <2>2. Cardinality(Holders \union Connecting) \in Nat /\ Cardinality(Failing) \in Nat
    BY <1>2, <1>4, FS_CardinalityType
  <2>3. Cardinality((Holders \union Connecting) \intersect Failing) = 0
    BY <1>3, FS_EmptySet
  <2> QED BY <2>1, <2>2, <2>3
<1> QED BY <1>2, <1>4, <1>5, Finite, FS_CardinalityType

\* The invariant counts each owner's slot.
LEMMA SlotsFollow == IInv => SlotsAccounted
<1> SUFFICES ASSUME IInv PROVE SlotsAccounted
  OBVIOUS
<1>1. total \in Int /\ Len(idle) \in Nat /\ lost \in Nat
  BY LenProperties DEF IInv, Shape
<1>2. total - Len(idle) - lost = Cardinality(Owners)
  BY DEF IInv, OwnersAccounted, Owned
<1>3. total = Len(idle) + Cardinality(Owners) + lost
  BY <1>1, <1>2, OwnersAre
<1> QED BY <1>1, <1>3, OwnersAre DEF SlotsAccounted

\* The count of connections is exact: but for futures dropped while a task has their
\* slot, no failure, panic, retry or eviction leaks a slot or gives one back twice.
THEOREM NoSlotLeak == Spec => []SlotsAccounted
BY SlotsFollow, Inductive, PTL

\* Every permit is in the semaphore or with exactly one future on its way.
THEOREM NoPermitLeak == Spec => []PermitsConserved
<1>1. IInv => PermitsConserved
  BY DEF IInv
<1> QED BY <1>1, Inductive, PTL

\* Every variable keeps its type; total and permits stay between 0 and max_size.
THEOREM TypeCorrect == Spec => []TypeOK
<1>1. IInv => TypeOK
  <2> SUFFICES ASSUME IInv PROVE TypeOK
    OBVIOUS
  <2>1. /\ Cardinality(Permitted) \in Nat /\ Cardinality(Owners) \in Nat
    BY Finite, FS_CardinalityType
  <2>2. permits \in 0 .. MaxSize
    BY <2>1, SizeAssumption DEF IInv, Shape, PermitsConserved
  <2>3. total \in 0 .. MaxSize
    <3>1. total \in Int /\ total <= MaxSize /\ Len(idle) \in Nat /\ lost \in Nat
      BY LenProperties DEF IInv, Shape
    <3>2. total - Len(idle) - lost = Cardinality(Owners)
      BY DEF IInv, OwnersAccounted, Owned
    <3> QED BY <2>1, <3>1, <3>2, SizeAssumption
  <2> QED BY <2>2, <2>3 DEF IInv, Shape, TypeOK
<1> QED BY <1>1, Inductive, PTL

\* A permit stands for a connection: the count has room for whoever holds a permit,
\* unless a slot was lost or a panicked task still has one.
THEOREM PermitsAreSlots == Spec => PermitMeansSlot
<1>1. IInv /\ [Next]_vars
        => \A c \in Callers : pc[c] = "slot" /\ pc'[c] = "out" => lost > 0 \/ Failing # {}
  <2> SUFFICES ASSUME IInv, [Next]_vars, NEW c \in Callers, pc[c] = "slot", pc'[c] = "out",
                      lost = 0, Failing = {}
               PROVE  FALSE
    BY DEF IInv, Shape
  <2>1. /\ Shape /\ IsInjective(idle) /\ Len(idle) \in Nat /\ total \in Int
        /\ permits \in Nat
    BY LenProperties DEF IInv, Shape, OnePlace
  <2>2. TakeSlot(c)
    <3>1. ASSUME NEW d \in Callers, NEW where, Goto(d, where), d # c
          PROVE  FALSE
      BY <2>1, <3>1 DEF Goto, Shape
    <3>2. ASSUME NEW d \in Callers,
                 \/ call(d) \/ PermitTimesOut(d) \/ Continue(d) \/ Panic(d)
                 \/ DropHandle(d) \/ DropFuture(d)
          PROVE  \E where : Goto(d, where)
      <4>1. CASE TakeSlot(d)
        BY <4>1 DEF TakeSlot, Leave
      <4>2. CASE Connect(d)
        BY <4>2 DEF Connect, Leave
      <4>3. CASE Finish(d) \/ JoinError(d) \/ ReleasePermit(d)
        BY <4>3 DEF Finish, JoinError, ReleasePermit, Leave
      <4>4. CASE \/ call(d) \/ PermitTimesOut(d) \/ acquire_owned(d) \/ Start(d)
                 \/ Healthcheck(d) \/ Return(d) \/ Panic(d) \/ DropHandle(d) \/ DropFuture(d)
        BY <4>4 DEF call, PermitTimesOut, acquire_owned, Start, Healthcheck, Return, Panic,
                    DropHandle, DropFuture, Leave
      <4> QED BY <3>2, <4>1, <4>2, <4>3, <4>4 DEF Continue
    <3>3. pc' # pc
      OBVIOUS
    <3>4. \/ call(c) \/ PermitTimesOut(c) \/ Continue(c) \/ Panic(c)
          \/ DropHandle(c) \/ DropFuture(c)
      BY <3>1, <3>2, <3>3 DEF Next, OrphanEnds, Break, StrayEnds, vars, caller
    <3> QED BY <3>4 DEF call, PermitTimesOut, Continue, Panic, DropHandle, DropFuture,
                        acquire_owned, Connect, Start, Finish, Healthcheck, JoinError,
                        Return, ReleasePermit
  <2>3. PICK k \in 0 .. Len(idle) : Kept(k) = <<>> /\ ~ HasRoom(total - k)
    BY <2>1, <2>2 DEF TakeSlot, Goto, Shape
  <2>4. k = Len(idle)
    BY <2>1, <2>3, KeptFacts, EmptySeq DEF Shape
  <2>5. Owners \subseteq Permitted \ {c}
    BY DEF Owners, Permitted, Failing, Owning, Using
  <2>6. /\ Cardinality(Owners) \in Nat /\ Cardinality(Permitted) \in Nat
        /\ Cardinality(Owners) <= Cardinality(Permitted) - 1
    <3>1. c \in Permitted
      BY DEF Permitted
    <3>2. /\ IsFiniteSet(Permitted \ {c})
          /\ Cardinality(Permitted \ {c}) = Cardinality(Permitted) - 1
      BY <3>1, Finite, FS_RemoveElement
    <3> QED BY <2>5, <3>2, Finite, FS_Subset, FS_CardinalityType
  <2>7. total - Len(idle) - 0 = Cardinality(Owners)
    BY DEF IInv, OwnersAccounted, Owned
  <2>8. total - k < MaxSize
    <3>1. permits + Cardinality(Permitted) = MaxSize
      BY DEF IInv, PermitsConserved
    <3> QED BY <2>1, <2>4, <2>6, <2>7, <3>1, SizeAssumption
  <2> QED BY <2>3, <2>8 DEF HasRoom
<1> QED BY <1>1, Inductive, PTL DEF Spec, PermitMeansSlot

--------------------------------------------------------------------------------
(* The pool keeps its contract. *)

\* The contract's module counts as this one does.
LEMMA SameCount == \A S : Contract!Cardinality(S) = Cardinality(S)
BY DEF Cardinality, Contract!Cardinality

\* Idle, acquired and abandoned connections: no more than the slots they take.
LEMMA OpenBound ==
    ASSUME IInv
    PROVE  /\ Cardinality(Contract!Open) \in Nat
           /\ Cardinality(Contract!Open) <= Len(idle) + Cardinality(Holders) + lost
<1>1. idle \in Seq(Connections) /\ Len(idle) \in Nat /\ lost \in Nat /\ strays \in Nat
  BY LenProperties DEF IInv, Shape
<1>2. /\ IsFiniteSet(Range(idle)) /\ Cardinality(Range(idle)) \in Nat
      /\ Cardinality(Range(idle)) <= Len(idle)
  BY <1>1, RangeBound
<1>3. /\ IsFiniteSet(Contract!InUse) /\ Cardinality(Contract!InUse) \in Nat
      /\ Cardinality(Contract!InUse) <= Cardinality(Holders) /\ Cardinality(Holders) \in Nat
  <2> DEFINE f == [c \in Holders |-> conn[c]]
  <2>1. \A y \in Contract!InUse : \E c \in Holders : f[c] = y
    BY DEF Contract!InUse, Holders, None
  <2>2. f \in [Holders -> Contract!InUse]
    BY DEF Contract!InUse, Holders, None
  <2>3. f \in Surjection(Holders, Contract!InUse)
    BY <2>1, <2>2 DEF Surjection
  <2>4. IsFiniteSet(Holders)
    <3>1. Holders \subseteq Callers
      BY DEF Holders
    <3> QED BY <3>1, CallersAssumption, FS_Subset
  <2> QED BY <2>3, <2>4, FS_Surjection, FS_CardinalityType
<1>4. /\ IsFiniteSet(orphans) /\ Cardinality(orphans) \in Nat
      /\ Cardinality(orphans) <= lost
  BY <1>1, FS_CardinalityType DEF IInv, TasksPaidFor
<1> DEFINE parkedOrUsed == Range(idle) \union Contract!InUse
<1>5. /\ IsFiniteSet(parkedOrUsed) /\ Cardinality(parkedOrUsed) \in Nat
      /\ Cardinality(parkedOrUsed) <= Cardinality(Range(idle)) + Cardinality(Contract!InUse)
  BY <1>2, <1>3, UnionBound
<1> HIDE DEF parkedOrUsed
<1>6. /\ Cardinality(parkedOrUsed \union orphans) \in Nat
      /\ Cardinality(parkedOrUsed \union orphans)
            <= Cardinality(parkedOrUsed) + Cardinality(orphans)
  BY <1>4, <1>5, UnionBound
<1>7. Contract!Open = parkedOrUsed \union orphans
  BY DEF Contract!Open, parkedOrUsed
<1> QED BY <1>1, <1>2, <1>3, <1>4, <1>5, <1>6, <1>7

\* The empty pool is one of the contract.
LEMMA ContractInit == Init => Contract!Init
<1> SUFFICES ASSUME Init PROVE Contract!Init
  OBVIOUS
<1>1. MinIdle \in Nat /\ MinIdle <= MaxSize /\ MinIdle <= MaxConnections /\ MaxConnections \in Nat
  BY SizeAssumption, BoundAssumption
<1>2. Range(idle) = 1 .. MinIdle
  BY DEF Init, Range
<1>3. Contract!Cardinality(Range(idle)) <= MaxSize
  <2>1. Cardinality(1 .. MinIdle) = MinIdle
    BY <1>1, FS_Interval
  <2>2. Contract!Cardinality(1 .. MinIdle) = Cardinality(1 .. MinIdle)
    BY SameCount
  <2> QED BY <1>1, <1>2, <2>1, <2>2
<1>4. Range(idle) \subseteq Connections
  BY <1>1, <1>2 DEF Connections
<1> QED BY <1>2, <1>3, <1>4 DEF Init, Contract!Init, None

\* A step that leaves the connections where they are is none of the contract's.
LEMMA ContractStutters ==
    ASSUME UNCHANGED <<idle, conn, opened, orphans>>
    PROVE  UNCHANGED <<Range(idle), conn, orphans, 1 .. opened>>
BY DEF Range

\* Taking a slot hands out an idle connection or is a stutter of the contract.
LEMMA ContractTakeSlot ==
    ASSUME IInv, NEW c \in Callers, TakeSlot(c)
    PROVE  Contract!Next
<1>1. /\ conn[c] = None /\ opened' = opened /\ orphans' = orphans
      /\ \/ \E k \in 0 .. Len(idle) :
               /\ Kept(k) # <<>> /\ idle' = Popped(Kept(k))
               /\ conn' = [conn EXCEPT ![c] = Last(Kept(k))]
         \/ idle' = <<>> /\ conn' = conn
  BY DEF TakeSlot, IInv, HeldInUse, Using, driver, tasks
<1>2. CASE idle' = <<>> /\ conn' = conn
  <2>1. Range(idle') = {}
    BY <1>2, EmptyFacts
  <2> QED BY <1>1, <1>2, <2>1 DEF Contract!Next, Contract!Close
<1>3. ASSUME NEW k \in 0 .. Len(idle), Kept(k) # <<>>, idle' = Popped(Kept(k)),
             conn' = [conn EXCEPT ![c] = Last(Kept(k))]
      PROVE  Contract!Next
  <2> DEFINE x == Last(Kept(k))
  <2>1. x \in Range(idle) /\ Range(idle') \subseteq Range(idle) \ {x}
    BY <1>1, <1>3, PlacePopped
  <2>2. conn' = [conn EXCEPT ![c] = x]
    BY <1>3
  <2> HIDE DEF x
  <2>3. x \in 1 .. opened /\ x \in Connections
    <3>1. x \in 1 .. opened /\ opened \in 0 .. MaxConnections
      BY <2>1 DEF IInv, Shape, OnePlace
    <3> QED BY <3>1, BoundAssumption DEF Connections
  <2>4. 1 .. opened' = (1 .. opened) \union {x}
    BY <1>1, <2>3
  <2>5. Contract!Lend(c, x)
    BY <1>1, <2>1, <2>2, <2>4 DEF Contract!Lend, None
  <2> QED BY <2>3, <2>5 DEF Contract!Next
<1> QED BY <1>1, <1>2, <1>3

\* An attempt to connect opens one connection of the contract or is a stutter.
LEMMA ContractConnect ==
    ASSUME IInv, NEW c \in Callers, Connect(c)
    PROVE  Contract!Next \/ UNCHANGED <<Range(idle), conn, orphans, 1 .. opened>>
<1>1. CASE UNCHANGED <<idle, conn, opened, orphans>>
  BY <1>1, ContractStutters
<1>2. CASE /\ opened < MaxConnections /\ opened' = opened + 1
           /\ conn' = [conn EXCEPT ![c] = opened + 1] /\ UNCHANGED <<idle, orphans>>
  <2>1. pc[c] = "connect" /\ conn[c] = None
    BY DEF Connect, IInv, HeldInUse, Using
  <2>2. /\ opened \in Nat /\ MaxConnections \in Nat
        /\ opened + 1 \in Connections \ (1 .. opened)
    BY <1>2, BoundAssumption DEF IInv, Shape, Connections
  <2>3. Cardinality(Contract!Open) < MaxSize
    <3>1. /\ Cardinality(Holders) \in Nat /\ Cardinality(Connecting) \in Nat
          /\ Cardinality(Failing) \in Nat /\ Cardinality(Connecting) >= 1
      <4>1. c \in Connecting /\ IsFiniteSet(Connecting)
        <5>1. Connecting \subseteq Callers
          BY DEF Connecting
        <5> QED BY <2>1, <5>1, CallersAssumption, FS_Subset DEF Connecting
      <4>2. Cardinality(Connecting) # 0
        BY <4>1, FS_EmptySet
      <4> QED BY <4>2, OwnersAre
    <3>2. total = Len(idle) + Cardinality(Holders) + Cardinality(Connecting)
                    + Cardinality(Failing) + lost
      BY SlotsFollow DEF SlotsAccounted
    <3>3. total <= MaxSize /\ Len(idle) \in Nat /\ lost \in Nat
      BY LenProperties DEF IInv, Shape
    <3>4. /\ Cardinality(Contract!Open) \in Nat
          /\ Cardinality(Contract!Open) <= Len(idle) + Cardinality(Holders) + lost
      BY OpenBound
    <3> QED BY <3>1, <3>2, <3>3, <3>4, SizeAssumption
  <2>4. 1 .. opened' = (1 .. opened) \union {opened + 1}
    BY <1>2, <2>2
  <2>5. Range(idle') = Range(idle) /\ opened + 1 \notin Range(idle)
    BY <1>2, <2>2 DEF IInv, OnePlace, Range
  <2>6. Contract!Lend(c, opened + 1)
    BY <1>2, <2>1, <2>2, <2>3, <2>4, <2>5, SameCount DEF Contract!Lend, None
  <2> QED BY <2>2, <2>6 DEF Contract!Next
<1> QED BY <1>1, <1>2 DEF Connect, tasks

\* A connection that is given up, pushed back, or left to its task.
LEMMA ContractReturn ==
    ASSUME NEW c \in Callers, conn[c] # None, conn' = [conn EXCEPT ![c] = None],
           opened' = opened,
           \/ Range(idle') \subseteq Range(idle) \union {conn[c]} /\ orphans' = orphans
           \/ Range(idle') = Range(idle) /\ orphans' = orphans \union {conn[c]}
    PROVE  Contract!Next
<1>1. Contract!Return(c)
  BY DEF Contract!Return, None
<1> QED BY <1>1 DEF Contract!Next

\* A connection that is let go is closed in the contract, returned, or left with a task.
LEMMA ContractGivenUp ==
    ASSUME IInv, NEW c \in Callers, Return(c) \/ Panic(c) \/ DropFuture(c)
    PROVE  Contract!Next \/ UNCHANGED <<Range(idle), conn, orphans, 1 .. opened>>
<1>1. CASE UNCHANGED <<idle, conn, opened, orphans>>
  BY <1>1, ContractStutters
<1>2. CASE /\ pc[c] \in Using /\ conn' = [conn EXCEPT ![c] = None]
           /\ UNCHANGED <<idle, opened>>
           /\ orphans' = orphans \/ orphans' = orphans \union {conn[c]}
  <2>1. conn[c] # None
    BY <1>2 DEF IInv, HeldInUse
  <2>2. Range(idle') = Range(idle)
    BY <1>2
  <2> QED BY <1>2, <2>1, <2>2, ContractReturn
<1>3. ASSUME NEW k \in 0 .. Len(idle), idle' = Append(Kept(k), conn[c]), pc[c] \in Using,
             conn' = [conn EXCEPT ![c] = None], opened' = opened, orphans' = orphans
      PROVE  Contract!Next
  <2>1. conn[c] # None
    BY <1>3 DEF IInv, HeldInUse
  <2>2. Range(idle') \subseteq Range(idle) \union {conn[c]}
    BY <1>3, <2>1, PlacePushed
  <2> QED BY <1>3, <2>1, <2>2, ContractReturn
<1> QED BY <1>1, <1>2, <1>3 DEF Return, Panic, DropFuture, Using, pool, driver, tasks

\* Every step of the pool is a step or a stutter of the contract.
LEMMA ContractStep ==
    IInv /\ [Next]_vars => [Contract!Next]_<<Range(idle), conn, orphans, 1 .. opened>>
<1> SUFFICES ASSUME IInv, [Next]_vars
             PROVE  Contract!Next \/ UNCHANGED <<Range(idle), conn, orphans, 1 .. opened>>
  OBVIOUS
<1>1. CASE UNCHANGED <<idle, conn, opened, orphans>>
  BY <1>1, ContractStutters
<1>2. ASSUME NEW c \in Callers,
             \/ call(c) \/ acquire_owned(c) \/ PermitTimesOut(c) \/ Start(c) \/ Finish(c)
             \/ Healthcheck(c) \/ JoinError(c) \/ DropHandle(c) \/ ReleasePermit(c)
      PROVE  UNCHANGED <<idle, conn, opened, orphans>>
  BY <1>2 DEF call, acquire_owned, PermitTimesOut, Start, Finish, Healthcheck, JoinError,
              DropHandle, ReleasePermit, pool, driver, tasks
<1>3. ASSUME NEW k \in Connections, OrphanEnds(k)
      PROVE  Contract!Next
  <2>1. Contract!Close
    BY <1>3 DEF OrphanEnds, Contract!Close, pool, caller, driver
  <2> QED BY <2>1 DEF Contract!Next
<1>4. ASSUME \/ \E k \in Connections : Break(k)
             \/ StrayEnds
             \/ UNCHANGED vars
      PROVE  UNCHANGED <<idle, conn, opened, orphans>>
  BY <1>4 DEF Break, StrayEnds, vars, pool, caller, driver, tasks
<1> QED BY <1>1, <1>2, <1>3, <1>4, ContractTakeSlot, ContractConnect, ContractGivenUp
        DEF Next, Continue

\* The stack, the count, the semaphore and the tasks implement the contract, whichever
\* futures are dropped: at most max_size connections are open, those in abandoned tasks
\* included, one caller per connection, and what has left the pool is not lent again.
THEOREM KeepsContract == Spec => PoolSpec
<1> USE ContractInit, ContractStep, Inductive
<1> QED BY PTL DEF Spec, PoolSpec, Contract!Spec
================================================================================
