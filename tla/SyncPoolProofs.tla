----------------------------- MODULE SyncPoolProofs -----------------------------
(* What holds of SyncPool for every set of threads and every size of the pool. *)
EXTENDS SyncPool, SequenceLemmas

\* TypeOK without the lower bound of total, which follows from the accounting.
Shape ==
    /\ idle \in Seq(Connections) /\ total \in Int /\ total <= MaxSize
    /\ pc \in [Callers -> PcStates]
    /\ kind \in [Callers -> Kinds]
    /\ attempt \in [Callers -> {1, 2}]
    /\ conn \in [Callers -> Connections \union {None}]
    /\ had_error \in [Callers -> BOOLEAN]
    /\ opened \in 0 .. MaxConnections
    /\ broken \subseteq Connections /\ in_txn \subseteq Connections

\* A thread has a connection exactly while it uses, checks or returns it.
HeldInUse == \A c \in Callers : conn[c] # None <=> pc[c] \in {"use", "check", "return"}

\* A connection was opened, and is in one place: once in the stack, or with one thread.
OnePlace ==
    /\ IsInjective(idle) /\ Range(idle) \subseteq 1 .. opened
    /\ \A c \in Callers : conn[c] \in 0 .. opened /\ conn[c] \notin Range(idle)
    /\ \A c, d \in Callers : conn[c] # None /\ conn[c] = conn[d] => c = d

\* The inductive invariant.
IInv == Shape /\ HeldInUse /\ OnePlace /\ SlotsAccounted

--------------------------------------------------------------------------------
(* The stack, and the sets of threads that are counted. *)

\* An eviction leaves the youngest entries.
LEMMA KeptFacts ==
    ASSUME idle \in Seq(Connections), IsInjective(idle), NEW k \in 0 .. Len(idle)
    PROVE  /\ Kept(k) \in Seq(Connections) /\ Len(Kept(k)) = Len(idle) - k
           /\ IsInjective(Kept(k)) /\ Range(Kept(k)) \subseteq Range(idle)
BY SuffixFacts DEF Kept

\* What is left of the stack after a pop, and who is popped.
LEMMA PoppedFacts ==
    ASSUME NEW s \in Seq(Connections), IsInjective(s), s # <<>>
    PROVE  /\ Popped(s) \in Seq(Connections) /\ Len(Popped(s)) = Len(s) - 1
           /\ IsInjective(Popped(s)) /\ Range(Popped(s)) \subseteq Range(s) \ {Last(s)}
           /\ Last(s) \in Range(s) /\ Last(s) \in Connections
BY FrontFacts DEF Popped

\* All sets that are counted are finite.
LEMMA Finite ==
    /\ IsFiniteSet(Holders) /\ IsFiniteSet(Connecting)
    /\ IsFiniteSet(Waiting) /\ IsFiniteSet(Woken)
<1>1. /\ Holders \subseteq Callers /\ Connecting \subseteq Callers
      /\ Waiting \subseteq Callers /\ Woken \subseteq Callers
  BY DEF Holders, Connecting, Waiting, Woken
<1> QED BY <1>1, CallersAssumption, FS_Subset

\* They are finite after a step.
LEMMA FiniteNext ==
    /\ IsFiniteSet(Holders') /\ IsFiniteSet(Connecting')
    /\ IsFiniteSet(Waiting') /\ IsFiniteSet(Woken')
<1>1. /\ Holders' \subseteq Callers /\ Connecting' \subseteq Callers
      /\ Waiting' \subseteq Callers /\ Woken' \subseteq Callers
  BY DEF Holders, Connecting, Waiting, Woken
<1> QED BY <1>1, CallersAssumption, FS_Subset

\* How one thread's step changes the numbers of holders and connecting threads.
LEMMA Counts ==
    ASSUME NEW c \in Callers,
           \A d \in Callers \ {c} : /\ conn'[d] # None <=> conn[d] # None
                                    /\ pc'[d] = "connect" <=> pc[d] = "connect"
    PROVE  /\ Cardinality(Holders) \in Nat /\ Cardinality(Connecting) \in Nat
           /\ Cardinality(Holders') = Cardinality(Holders)
                 + (IF conn'[c] # None THEN 1 ELSE 0) - (IF conn[c] # None THEN 1 ELSE 0)
           /\ Cardinality(Connecting') = Cardinality(Connecting)
                 + (IF pc'[c] = "connect" THEN 1 ELSE 0) - (IF pc[c] = "connect" THEN 1 ELSE 0)
<1>1. Holders \ {c} = Holders' \ {c} /\ Connecting \ {c} = Connecting' \ {c}
  BY DEF Holders, Connecting
<1>2. /\ c \in Holders <=> conn[c] # None
      /\ c \in Holders' <=> conn'[c] # None
      /\ c \in Connecting <=> pc[c] = "connect"
      /\ c \in Connecting' <=> pc'[c] = "connect"
  BY DEF Holders, Connecting
<1> QED BY <1>1, <1>2, Finite, FiniteNext, OneMoves

--------------------------------------------------------------------------------
(* Every connection is in one place, and every slot is accounted for. *)

Using == {"use", "check", "return"}

\* A step that touches neither stack nor count nor any thread's connection.
LEMMA PoolUntouched ==
    ASSUME IInv, Shape', idle' = idle, total' = total, conn' = conn, opened' = opened,
           \A d \in Callers : /\ pc'[d] \in Using <=> pc[d] \in Using
                              /\ pc'[d] = "connect" <=> pc[d] = "connect"
    PROVE  IInv'
<1>1. Holders' = Holders /\ Connecting' = Connecting
  <2>1. Holders' = Holders
    BY DEF Holders
  <2>2. Connecting' = Connecting
    BY DEF Connecting
  <2> QED BY <2>1, <2>2
<1>2. HeldInUse' /\ OnePlace'
  <2>1. HeldInUse'
    BY DEF IInv, HeldInUse, Using
  <2>2. OnePlace'
    BY DEF IInv, OnePlace
  <2> QED BY <2>1, <2>2
<1>3. SlotsAccounted'
  BY <1>1 DEF IInv, SlotsAccounted
<1> QED BY <1>2, <1>3 DEF IInv

\* One thread gives up its connection, which goes to the stack or is closed,
\* while the oldest entries are evicted.
LEMMA GivenUp ==
    ASSUME IInv, Shape', NEW c \in Callers, conn[c] # None,
           conn' = [conn EXCEPT ![c] = None], opened' = opened,
           pc'[c] \notin Using \union {"connect"},
           \A d \in Callers \ {c} : /\ pc'[d] \in Using <=> pc[d] \in Using
                                    /\ pc'[d] = "connect" <=> pc[d] = "connect",
           \/ idle' = idle /\ total' = total - 1
           \/ \E k \in 0 .. Len(idle) : idle' = Append(Kept(k), conn[c]) /\ total' = total - k
    PROVE  IInv'
<1> USE DEF IInv
<1>1. /\ conn'[c] = None /\ \A d \in Callers \ {c} : conn'[d] = conn[d]
      /\ conn[c] \in Connections
  BY DEF Shape
<1>2. HeldInUse'
  <2>1. pc'[c] \notin Using
    OBVIOUS
  <2>2. \A d \in Callers \ {c} : conn'[d] # None <=> pc'[d] \in Using
    BY <1>1 DEF HeldInUse, Using
  <2> QED BY <1>1, <2>1, <2>2 DEF HeldInUse, Using
<1>3. pc[c] # "connect" /\ pc'[c] # "connect"
  <2>1. pc[c] \in Using
    BY DEF HeldInUse, Using
  <2> QED BY <2>1 DEF Using
<1>4. /\ Cardinality(Holders) \in Nat /\ Cardinality(Connecting) \in Nat
      /\ Cardinality(Holders') = Cardinality(Holders) - 1
      /\ Cardinality(Connecting') = Cardinality(Connecting)
  <2>1. \A d \in Callers \ {c} : /\ conn'[d] # None <=> conn[d] # None
                                 /\ pc'[d] = "connect" <=> pc[d] = "connect"
    BY <1>1
  <2> HIDE DEF IInv
  <2>2. /\ Cardinality(Holders) \in Nat /\ Cardinality(Connecting) \in Nat
        /\ Cardinality(Holders') = Cardinality(Holders)
              + (IF conn'[c] # None THEN 1 ELSE 0) - (IF conn[c] # None THEN 1 ELSE 0)
        /\ Cardinality(Connecting') = Cardinality(Connecting)
              + (IF pc'[c] = "connect" THEN 1 ELSE 0) - (IF pc[c] = "connect" THEN 1 ELSE 0)
    BY <2>1, Counts
  <2> QED BY <1>1, <1>3, <2>2
<1>5. CASE idle' = idle /\ total' = total - 1
  <2>1. OnePlace'
    <3>1. \A d \in Callers : conn'[d] \in {conn[d], None}
      BY <1>1
    <3>2. None \in 0 .. opened /\ None \notin Range(idle)
      BY DEF OnePlace, None, Shape
    <3>3. \A d, e \in Callers : conn'[d] # None /\ conn'[d] = conn'[e] => d = e
      BY <1>1 DEF OnePlace
    <3> QED BY <1>5, <3>1, <3>2, <3>3 DEF OnePlace
  <2>2. SlotsAccounted'
    BY <1>4, <1>5, LenProperties DEF SlotsAccounted, Shape
  <2> QED BY <1>2, <2>1, <2>2
<1>6. ASSUME NEW k \in 0 .. Len(idle), idle' = Append(Kept(k), conn[c]), total' = total - k
      PROVE  IInv'
  <2>1. idle \in Seq(Connections) /\ IsInjective(idle) /\ Len(idle) \in Nat
    BY LenProperties DEF Shape, OnePlace
  <2>2. /\ Kept(k) \in Seq(Connections) /\ Len(Kept(k)) = Len(idle) - k
        /\ IsInjective(Kept(k)) /\ Range(Kept(k)) \subseteq Range(idle)
    BY <2>1, KeptFacts
  <2>3. conn[c] \notin Range(Kept(k))
    BY <2>2 DEF OnePlace
  <2>4. /\ Len(idle') = Len(idle) - k + 1 /\ IsInjective(idle')
        /\ Range(idle') = Range(Kept(k)) \union {conn[c]}
    BY <1>1, <1>6, <2>2, <2>3, PushedFacts
  <2>5. OnePlace'
    <3>1. \A d \in Callers : conn[d] \in 0 .. opened /\ conn[d] \notin Range(idle)
      BY DEF OnePlace
    <3>2. None \notin Range(idle) /\ conn[c] \in 1 .. opened
      BY <3>1, <1>1 DEF OnePlace, None, Connections
    <3>3. Range(idle') \subseteq 1 .. opened'
      BY <2>2, <2>4, <3>2 DEF OnePlace
    <3>4. \A d \in Callers : conn'[d] \in 0 .. opened' /\ conn'[d] \notin Range(idle')
      BY <1>1, <2>2, <2>4, <3>1, <3>2 DEF OnePlace, None, Shape
    <3>5. \A d, e \in Callers : conn'[d] # None /\ conn'[d] = conn'[e] => d = e
      BY <1>1 DEF OnePlace
    <3> QED BY <2>4, <3>3, <3>4, <3>5 DEF OnePlace
  <2>6. SlotsAccounted'
    <3>1. total' = (Len(idle) - k + 1) + (Cardinality(Holders) - 1) + Cardinality(Connecting)
      BY SMTT(30), <1>4, <1>6, <2>1 DEF SlotsAccounted, Shape
    <3> QED BY <1>4, <2>4, <3>1 DEF SlotsAccounted
  <2> QED BY <1>2, <2>5, <2>6
<1> QED BY <1>5, <1>6

\* The critical section of acquire_connection.
LEMMA AcquireStep ==
    ASSUME IInv, NEW c \in Callers, Acquire(c)
    PROVE  IInv'
<1> USE DEF IInv
<1>1. /\ pc[c] \in {"acquire", "woken"} /\ UNCHANGED driver
      /\ idle \in Seq(Connections) /\ IsInjective(idle) /\ Len(idle) \in Nat
      /\ total \in Int
  BY LenProperties DEF Acquire, Shape, OnePlace
<1>2. conn[c] = None /\ pc[c] \notin Using /\ pc[c] # "connect"
  BY <1>1 DEF HeldInUse, Using
<1>3. PICK k \in 0 .. Len(idle) :
        \/ /\ Kept(k) # <<>>
           /\ idle' = Popped(Kept(k)) /\ total' = total - k
           /\ conn' = [conn EXCEPT ![c] = Last(Kept(k))]
           /\ Goto(c, "use") /\ UNCHANGED <<kind, attempt, had_error>>
        \/ /\ Kept(k) = <<>> /\ HasRoom(total - k)
           /\ idle' = <<>> /\ total' = total - k + 1
           /\ Goto(c, "connect") /\ UNCHANGED <<kind, attempt, conn, had_error>>
        \/ /\ Kept(k) = <<>>
           /\ idle' = <<>> /\ total' = total - k /\ UNCHANGED conn
           /\ \/ Goto(c, "waiting") /\ UNCHANGED <<kind, attempt, had_error>>
              \/ Leave(c)
  BY DEF Acquire
<1>4. /\ Kept(k) \in Seq(Connections) /\ Len(Kept(k)) = Len(idle) - k
      /\ IsInjective(Kept(k)) /\ Range(Kept(k)) \subseteq Range(idle)
      /\ k \in Nat /\ k <= Len(idle)
  BY <1>1, KeptFacts
<1>5. /\ Kept(k) = <<>> => k = Len(idle)
      /\ Kept(k) # <<>> => k < Len(idle)
  BY <1>1, <1>4, EmptySeq
<1>6. CASE /\ Kept(k) # <<>>
           /\ idle' = Popped(Kept(k)) /\ total' = total - k
           /\ conn' = [conn EXCEPT ![c] = Last(Kept(k))]
           /\ Goto(c, "use") /\ UNCHANGED <<kind, attempt, had_error>>
  <2>1. /\ idle' \in Seq(Connections) /\ Len(idle') = Len(idle) - k - 1
        /\ IsInjective(idle') /\ Range(idle') \subseteq Range(Kept(k)) \ {Last(Kept(k))}
        /\ Last(Kept(k)) \in Range(Kept(k)) /\ Last(Kept(k)) \in Connections
    BY <1>4, <1>6, PoppedFacts
  <2>2. /\ conn'[c] = Last(Kept(k)) /\ \A d \in Callers \ {c} : conn'[d] = conn[d]
        /\ pc'[c] = "use" /\ \A d \in Callers \ {c} : pc'[d] = pc[d]
    BY <1>6 DEF Shape, Goto
  <2>3. Last(Kept(k)) # None
    BY <2>1 DEF Connections, None
  <2>4. Shape'
    <3>1. total' \in Int /\ total' <= MaxSize
      BY <1>1, <1>4, <1>6, SizeAssumption DEF Shape
    <3>2. pc' \in [Callers -> PcStates] /\ conn' \in [Callers -> Connections \union {None}]
      BY <1>6, <2>1 DEF Shape, Goto, PcStates
    <3> QED BY <1>1, <1>6, <2>1, <3>1, <3>2 DEF Shape, driver
  <2>5. HeldInUse'
    BY <2>2, <2>3 DEF HeldInUse
  <2>6. OnePlace'
    <3>1. opened' = opened
      BY <1>1 DEF driver
    <3>2. /\ Range(idle') \subseteq Range(idle) /\ Range(idle) \subseteq 1 .. opened
          /\ Last(Kept(k)) \in Range(idle) /\ Last(Kept(k)) \notin Range(idle')
      BY <1>4, <2>1 DEF OnePlace
    <3>3. \A d \in Callers : conn[d] # Last(Kept(k))
      BY <3>2 DEF OnePlace
    <3>4. \A d \in Callers : conn'[d] \in 0 .. opened /\ conn'[d] \notin Range(idle')
      BY <2>2, <3>2 DEF OnePlace, Shape
    <3>5. \A d, e \in Callers : conn'[d] # None /\ conn'[d] = conn'[e] => d = e
      BY <2>2, <3>3 DEF OnePlace
    <3> QED BY <2>1, <3>1, <3>2, <3>4, <3>5 DEF OnePlace
  <2>7. SlotsAccounted'
    <3>1. /\ Cardinality(Holders) \in Nat /\ Cardinality(Connecting) \in Nat
          /\ Cardinality(Holders') = Cardinality(Holders) + 1
          /\ Cardinality(Connecting') = Cardinality(Connecting)
      BY <1>2, <2>2, <2>3, Counts
    <3> QED BY SMTT(30), <1>1, <1>4, <1>6, <2>1, <3>1 DEF SlotsAccounted
  <2> QED BY <2>4, <2>5, <2>6, <2>7
<1>7. CASE /\ Kept(k) = <<>> /\ HasRoom(total - k)
           /\ idle' = <<>> /\ total' = total - k + 1
           /\ Goto(c, "connect") /\ UNCHANGED <<kind, attempt, conn, had_error>>
  <2>1. pc'[c] = "connect" /\ \A d \in Callers \ {c} : pc'[d] = pc[d]
    BY <1>7 DEF Shape, Goto
  <2>2. Shape'
    <3>1. total' \in Int /\ total' <= MaxSize
      BY <1>1, <1>4, <1>7, SizeAssumption DEF Shape, HasRoom
    <3> QED BY <1>1, <1>7, <3>1, EmptyFacts DEF Shape, driver, Goto, PcStates
  <2>3. HeldInUse'
    BY <1>2, <1>7, <2>1 DEF HeldInUse, Using
  <2>4. OnePlace'
    BY <1>1, <1>7, EmptyFacts DEF OnePlace, driver
  <2>5. SlotsAccounted'
    <3>1. /\ Cardinality(Holders) \in Nat /\ Cardinality(Connecting) \in Nat
          /\ Cardinality(Holders') = Cardinality(Holders)
          /\ Cardinality(Connecting') = Cardinality(Connecting) + 1
      BY <1>2, <1>7, <2>1, Counts
    <3> QED BY <1>1, <1>4, <1>5, <1>7, <3>1, EmptyFacts DEF SlotsAccounted
  <2> QED BY <2>2, <2>3, <2>4, <2>5
<1>8. CASE /\ Kept(k) = <<>>
           /\ idle' = <<>> /\ total' = total - k /\ UNCHANGED conn
           /\ \/ Goto(c, "waiting") /\ UNCHANGED <<kind, attempt, had_error>>
              \/ Leave(c)
  <2>1. pc'[c] \in {"waiting", "out"} /\ \A d \in Callers \ {c} : pc'[d] = pc[d]
    BY <1>8 DEF Shape, Goto, Leave
  <2>2. Shape'
    <3>1. total' \in Int /\ total' <= MaxSize
      BY <1>1, <1>4, <1>8, SizeAssumption DEF Shape
    <3>2. /\ pc' \in [Callers -> PcStates] /\ kind' \in [Callers -> Kinds]
          /\ attempt' \in [Callers -> {1, 2}] /\ had_error' \in [Callers -> BOOLEAN]
      BY <1>8 DEF Shape, Goto, Leave, Forget, PcStates, Kinds
    <3> QED BY <1>1, <1>8, <3>1, <3>2, EmptyFacts DEF Shape, driver
  <2>3. HeldInUse'
    BY <1>2, <1>8, <2>1 DEF HeldInUse, Using
  <2>4. OnePlace'
    BY <1>1, <1>8, EmptyFacts DEF OnePlace, driver
  <2>5. SlotsAccounted'
    <3>1. /\ Cardinality(Holders) \in Nat /\ Cardinality(Connecting) \in Nat
          /\ Cardinality(Holders') = Cardinality(Holders)
          /\ Cardinality(Connecting') = Cardinality(Connecting)
      BY <1>2, <1>8, <2>1, Counts
    <3> QED BY <1>1, <1>4, <1>5, <1>8, <3>1, EmptyFacts DEF SlotsAccounted
  <2> QED BY <2>2, <2>3, <2>4, <2>5
<1> QED BY <1>3, <1>6, <1>7, <1>8

\* A new connection is nowhere yet.
LEMMA ConnectStep ==
    ASSUME IInv, NEW c \in Callers, Connect(c)
    PROVE  IInv'
<1> USE DEF IInv
<1>1. /\ pc[c] = "connect" /\ conn[c] = None /\ UNCHANGED <<idle, broken, in_txn>>
      /\ opened \in Nat /\ opened <= MaxConnections /\ MaxConnections \in Nat
      /\ total \in Int
  BY BoundAssumption DEF Connect, HeldInUse, Shape
<1>2. CASE /\ opened < MaxConnections /\ opened' = opened + 1
           /\ conn' = [conn EXCEPT ![c] = opened + 1]
           /\ Goto(c, "use") /\ UNCHANGED <<total, kind, attempt, had_error>>
  <2>1. /\ conn'[c] = opened + 1 /\ \A d \in Callers \ {c} : conn'[d] = conn[d]
        /\ pc'[c] = "use" /\ \A d \in Callers \ {c} : pc'[d] = pc[d]
        /\ opened + 1 # None /\ opened + 1 \in Connections
    BY <1>1, <1>2 DEF Shape, Goto, None, Connections
  <2>2. Shape'
    <3>1. pc' \in [Callers -> PcStates] /\ conn' \in [Callers -> Connections \union {None}]
      BY <1>2, <2>1 DEF Shape, Goto, PcStates
    <3>2. opened' \in 0 .. MaxConnections
      BY <1>1, <1>2
    <3> QED BY <1>1, <1>2, <3>1, <3>2 DEF Shape
  <2>3. HeldInUse'
    BY <2>1 DEF HeldInUse
  <2>4. OnePlace'
    <3>1. \A d \in Callers : conn[d] \in 0 .. opened /\ conn[d] \notin Range(idle)
      BY DEF OnePlace
    <3>2. opened + 1 \notin Range(idle) /\ Range(idle) \subseteq 1 .. opened'
      BY <1>1, <1>2 DEF OnePlace
    <3>3. \A d \in Callers : conn[d] # opened + 1
      BY <1>1, <3>1
    <3>4. \A d \in Callers : conn'[d] \in 0 .. opened' /\ conn'[d] \notin Range(idle')
      BY <1>1, <1>2, <2>1, <3>1, <3>2
    <3>5. \A d, e \in Callers : conn'[d] # None /\ conn'[d] = conn'[e] => d = e
      BY <2>1, <3>3 DEF OnePlace
    <3> QED BY <1>1, <3>2, <3>4, <3>5 DEF OnePlace
  <2>5. SlotsAccounted'
    <3>1. /\ Cardinality(Holders) \in Nat /\ Cardinality(Connecting) \in Nat
          /\ Cardinality(Holders') = Cardinality(Holders) + 1
          /\ Cardinality(Connecting') = Cardinality(Connecting) - 1
      BY <1>1, <2>1, Counts
    <3>2. Len(idle) \in Nat
      BY LenProperties DEF Shape
    <3> QED BY <1>1, <1>2, <3>1, <3>2 DEF SlotsAccounted
  <2> QED BY <2>2, <2>3, <2>4, <2>5
<1>3. CASE /\ total' = GiveUpSlot(total)
           /\ Leave(c)
           /\ UNCHANGED <<conn, opened>>
  <2>1. /\ pc'[c] = "out" /\ \A d \in Callers \ {c} : pc'[d] = pc[d]
        /\ total' = total - 1
    BY <1>3 DEF Shape, Goto, Leave, GiveUpSlot
  <2>2. Shape'
    <3>1. /\ pc' \in [Callers -> PcStates] /\ kind' \in [Callers -> Kinds]
          /\ attempt' \in [Callers -> {1, 2}] /\ had_error' \in [Callers -> BOOLEAN]
      BY <1>3 DEF Shape, Goto, Leave, Forget, PcStates, Kinds
    <3>2. total' \in Int /\ total' <= MaxSize
      BY <1>1, <2>1, SizeAssumption DEF Shape
    <3> QED BY <1>1, <1>3, <3>1, <3>2 DEF Shape
  <2>3. HeldInUse'
    BY <1>1, <1>3, <2>1 DEF HeldInUse
  <2>4. OnePlace'
    BY <1>1, <1>3 DEF OnePlace
  <2>5. SlotsAccounted'
    <3>1. /\ Cardinality(Holders) \in Nat /\ Cardinality(Connecting) \in Nat
          /\ Cardinality(Holders') = Cardinality(Holders)
          /\ Cardinality(Connecting') = Cardinality(Connecting) - 1
      BY <1>1, <1>3, <2>1, Counts
    <3>2. Len(idle) \in Nat
      BY LenProperties DEF Shape
    <3> QED BY <1>1, <2>1, <3>1, <3>2 DEF SlotsAccounted
  <2> QED BY <2>2, <2>3, <2>4, <2>5
<1> QED BY <1>1, <1>2, <1>3 DEF Connect

\* Where notify_one leaves the threads.
LEMMA Notified ==
    ASSUME Shape, NEW c \in Callers, pc[c] = "return", notify_one(c)
    PROVE  /\ pc' \in [Callers -> PcStates] /\ pc'[c] = "out"
           /\ \A d \in Callers \ {c} :
                 pc'[d] = pc[d] \/ (pc[d] = "waiting" /\ pc'[d] = "woken")
           /\ Waiting # {} => \E w \in Waiting : w # c /\ pc'[w] = "woken"
<1>1. CASE Waiting = {} /\ Goto(c, "out")
  BY <1>1 DEF Goto, Shape, PcStates
<1>2. CASE \E w \in Waiting : pc' = [pc EXCEPT ![c] = "out", ![w] = "woken"]
  <2>1. PICK w \in Waiting : pc' = [pc EXCEPT ![c] = "out", ![w] = "woken"]
    BY <1>2
  <2>2. w \in Callers /\ pc[w] = "waiting" /\ w # c
    BY DEF Waiting
  <2> QED BY <2>1, <2>2 DEF Shape, PcStates
<1> QED BY <1>1, <1>2 DEF notify_one

\* The stack stays a stack of connections when one is pushed.
LEMMA PushedShape ==
    ASSUME Shape, IsInjective(idle), NEW k \in 0 .. Len(idle),
           NEW x \in Connections, x \notin Range(idle)
    PROVE  Append(Kept(k), x) \in Seq(Connections) /\ total - k \in Int /\ total - k <= MaxSize
<1>1. idle \in Seq(Connections) /\ Len(idle) \in Nat /\ total \in Int /\ total <= MaxSize
  BY LenProperties DEF Shape
<1>2. Kept(k) \in Seq(Connections)
  BY <1>1, KeptFacts
<1> QED BY <1>1, <1>2, SizeAssumption, AppendProperties

\* The drop of a handle.
LEMMA ReleaseStep ==
    ASSUME IInv, NEW c \in Callers, Release(c)
    PROVE  IInv'
<1> USE DEF IInv
<1>1. /\ pc[c] = "return" /\ conn[c] # None /\ conn[c] \in Connections
      /\ conn' = [conn EXCEPT ![c] = None] /\ Forget(c) /\ UNCHANGED driver
      /\ conn[c] \notin Range(idle)
  BY DEF Release, HeldInUse, Shape, OnePlace
<1>2. CASE total' = total - 1 /\ Goto(c, "out") /\ UNCHANGED idle
  <2>1. Shape'
    BY <1>1, <1>2, SizeAssumption DEF Shape, driver, Goto, Forget, PcStates, Kinds
  <2>2. pc'[c] = "out" /\ \A d \in Callers \ {c} : pc'[d] = pc[d]
    BY <1>2 DEF Goto, Shape
  <2> QED BY <1>1, <1>2, <2>1, <2>2, GivenUp DEF driver, Using
<1>3. CASE /\ \E k \in 0 .. Len(idle) : idle' = Append(Kept(k), conn[c]) /\ total' = total - k
           /\ notify_one(c)
  <2>1. PICK k \in 0 .. Len(idle) : idle' = Append(Kept(k), conn[c]) /\ total' = total - k
    BY <1>3
  <2>2. idle' \in Seq(Connections) /\ total' \in Int /\ total' <= MaxSize
    BY <1>1, <2>1, PushedShape DEF OnePlace
  <2>3. /\ pc' \in [Callers -> PcStates] /\ pc'[c] = "out"
        /\ \A d \in Callers \ {c} : pc'[d] = pc[d] \/ (pc[d] = "waiting" /\ pc'[d] = "woken")
    BY <1>1, <1>3, Notified
  <2>4. Shape'
    BY <1>1, <2>2, <2>3 DEF Shape, driver, Forget, Kinds
  <2>5. /\ pc'[c] \notin Using \union {"connect"} /\ opened' = opened
        /\ \A d \in Callers \ {c} : /\ pc'[d] \in Using <=> pc[d] \in Using
                                    /\ pc'[d] = "connect" <=> pc[d] = "connect"
    BY <1>1, <2>3 DEF Using, driver
  <2> QED BY <1>1, <2>1, <2>4, <2>5, GivenUp
<1> QED BY <1>2, <1>3 DEF Release

\* The pool starts with min_idle connections in the stack.
LEMMA IInvInit == Init => IInv
<1> SUFFICES ASSUME Init PROVE IInv
  OBVIOUS
<1>1. MinIdle \in Nat /\ MinIdle <= MaxSize /\ MinIdle <= MaxConnections /\ MaxConnections \in Nat
  BY SizeAssumption, BoundAssumption
<1>2. /\ idle \in Seq(Connections) /\ Len(idle) = MinIdle
      /\ DOMAIN idle = 1 .. MinIdle /\ \A i \in 1 .. MinIdle : idle[i] = i
  BY <1>1 DEF Init, Connections
<1>3. IsInjective(idle) /\ Range(idle) \subseteq 1 .. MinIdle
  BY <1>2 DEF IsInjective, Range
<1>4. Shape
  BY <1>1, <1>2, SizeAssumption DEF Init, Shape, PcStates, Kinds
<1>5. HeldInUse
  BY DEF Init, HeldInUse
<1>6. OnePlace
  BY <1>1, <1>3 DEF Init, OnePlace, None
<1>7. SlotsAccounted
  <2>1. Holders = {} /\ Connecting = {}
    BY DEF Init, Holders, Connecting
  <2> QED BY <1>1, <1>2, <2>1, FS_EmptySet DEF Init, SlotsAccounted
<1> QED BY <1>4, <1>5, <1>6, <1>7 DEF IInv

\* Every step keeps the invariant, one case per action.
LEMMA IInvStep == IInv /\ [Next]_vars => IInv'
<1> SUFFICES ASSUME IInv, [Next]_vars PROVE IInv'
  OBVIOUS
<1>0. Shape
  BY DEF IInv
<1>1. ASSUME NEW c \in Callers, call(c) PROVE IInv'
  <2>1. Shape'
    BY <1>0, <1>1 DEF call, Shape, Goto, PcStates, Kinds, pool, driver
  <2>2. /\ pc[c] = "out" /\ pc'[c] = "acquire" /\ \A d \in Callers \ {c} : pc'[d] = pc[d]
    BY <1>0, <1>1 DEF call, Goto, Shape
  <2> QED BY <1>1, <2>1, <2>2, PoolUntouched DEF call, pool, driver, Using
<1>2. ASSUME NEW c \in Callers, WaitTimesOut(c) PROVE IInv'
  <2>1. Shape'
    BY <1>0, <1>2 DEF WaitTimesOut, Leave, Forget, Shape, Goto, PcStates, Kinds, pool, driver
  <2>2. /\ pc[c] = "waiting" /\ pc'[c] = "out" /\ \A d \in Callers \ {c} : pc'[d] = pc[d]
    BY <1>0, <1>2 DEF WaitTimesOut, Leave, Goto, Shape
  <2> QED BY <1>2, <2>1, <2>2, PoolUntouched DEF WaitTimesOut, pool, driver, Using
<1>3. ASSUME NEW c \in Callers, SpuriousWakeup(c) PROVE IInv'
  <2>1. Shape'
    BY <1>0, <1>3 DEF SpuriousWakeup, Shape, Goto, PcStates, pool, driver
  <2>2. /\ pc[c] = "waiting" /\ pc'[c] = "acquire" /\ \A d \in Callers \ {c} : pc'[d] = pc[d]
    BY <1>0, <1>3 DEF SpuriousWakeup, Goto, Shape
  <2> QED BY <1>3, <2>1, <2>2, PoolUntouched DEF SpuriousWakeup, pool, driver, Using
<1>4. ASSUME NEW c \in Callers, Execute(c) PROVE IInv'
  <2>1. Shape'
    BY <1>0, <1>4 DEF Execute, Shape, Goto, PcStates, pool, driver
  <2>2. /\ pc[c] = "use" /\ pc'[c] \in {"check", "return"}
        /\ \A d \in Callers \ {c} : pc'[d] = pc[d]
    BY <1>0, <1>4 DEF Execute, Goto, Shape
  <2> QED BY <1>4, <2>1, <2>2, PoolUntouched DEF Execute, pool, driver, Using
<1>5. ASSUME NEW c \in Callers, Retry(c) PROVE IInv'
  <2>1. CASE ~ Healthy(c)
    <3>1. /\ pc[c] = "check" /\ UNCHANGED <<idle, driver>>
          /\ total' = total - 1 /\ conn' = [conn EXCEPT ![c] = None]
          /\ attempt' = [attempt EXCEPT ![c] = 2] /\ UNCHANGED <<kind, had_error>>
          /\ Goto(c, "acquire")
      BY <1>5, <2>1 DEF Retry
    <3>2. conn[c] # None
      BY <3>1 DEF IInv, HeldInUse
    <3>3. pc'[c] = "acquire" /\ \A d \in Callers \ {c} : pc'[d] = pc[d]
      BY <1>0, <3>1 DEF Goto, Shape
    <3>4. total' \in Int /\ total' <= MaxSize
      BY <1>0, <3>1, SizeAssumption DEF Shape
    <3>5. Shape'
      BY <1>0, <3>1, <3>4 DEF Shape, Goto, PcStates, driver
    <3> QED BY <3>1, <3>2, <3>3, <3>5, GivenUp DEF driver, Using
  <2>2. CASE Healthy(c)
    <3>1. /\ pc[c] = "check" /\ UNCHANGED <<idle, total, conn, driver>>
          /\ Shape' /\ pc'[c] = "return" /\ \A d \in Callers \ {c} : pc'[d] = pc[d]
      BY <1>0, <1>5, <2>2 DEF Retry, Shape, Goto, PcStates, driver
    <3> QED BY <3>1, PoolUntouched DEF driver, Using
  <2> QED BY <2>1, <2>2
<1>6. ASSUME NEW c \in Callers, DropHandle(c) PROVE IInv'
  <2>1. Shape'
    BY <1>0, <1>6 DEF DropHandle, Shape, Goto, PcStates, pool, driver
  <2>2. /\ pc[c] = "use" /\ pc'[c] = "return" /\ \A d \in Callers \ {c} : pc'[d] = pc[d]
    BY <1>0, <1>6 DEF DropHandle, Goto, Shape
  <2> QED BY <1>6, <2>1, <2>2, PoolUntouched DEF DropHandle, pool, driver, Using
<1>7. ASSUME NEW c \in Callers, begin_transaction(c) \/ end_transaction(c) PROVE IInv'
  <2>1. conn[c] \in Connections
    BY <1>0, <1>7 DEF IInv, HeldInUse, Shape, begin_transaction, end_transaction
  <2>2. Shape'
    BY <1>0, <1>7, <2>1 DEF begin_transaction, end_transaction, Shape, pool, caller
  <2> QED BY <1>7, <2>2, PoolUntouched DEF begin_transaction, end_transaction, pool, caller
<1>8. ASSUME NEW k \in Connections, Break(k) PROVE IInv'
  <2>1. Shape'
    BY <1>0, <1>8 DEF Break, Shape, pool, caller
  <2> QED BY <1>8, <2>1, PoolUntouched DEF Break, pool, caller
<1>9. CASE UNCHANGED vars
  <2>1. Shape'
    BY <1>0, <1>9 DEF vars, pool, caller, driver, Shape
  <2> QED BY <1>9, <2>1, PoolUntouched DEF vars, pool, caller, driver
<1> QED BY <1>1, <1>2, <1>3, <1>4, <1>5, <1>6, <1>7, <1>8, <1>9, AcquireStep, ConnectStep,
           ReleaseStep DEF Next, Continue

\* The invariant holds in every state of the pool.
THEOREM Inductive == Spec => []IInv
BY IInvInit, IInvStep, PTL DEF Spec

\* Every variable keeps its type, and total stays between 0 and max_size.
THEOREM TypeCorrect == Spec => []TypeOK
<1>1. IInv => TypeOK
  <2> SUFFICES ASSUME IInv PROVE TypeOK
    OBVIOUS
  <2>1. /\ Len(idle) \in Nat
        /\ Cardinality(Holders) \in Nat /\ Cardinality(Connecting) \in Nat
    BY Finite, FS_CardinalityType, LenProperties DEF IInv, Shape
  <2>2. total \in Nat
    BY <2>1 DEF IInv, SlotsAccounted
  <2> QED BY <2>2, SizeAssumption DEF IInv, Shape, TypeOK
<1> QED BY <1>1, Inductive, PTL

\* The count of connections is exact: no failure, retry or eviction leaks a slot or
\* gives one back twice.
THEOREM NoSlotLeak == Spec => []SlotsAccounted
<1>1. IInv => SlotsAccounted
  BY DEF IInv
<1> QED BY <1>1, Inductive, PTL

--------------------------------------------------------------------------------
(* Nobody sleeps while a connection lies idle. *)

\* What the critical section of acquire_connection does to the stack.
LEMMA AcquireOutcome ==
    ASSUME IInv, NEW c \in Callers, Acquire(c)
    PROVE  /\ pc[c] \in {"acquire", "woken"} /\ conn[c] = None /\ opened' = opened
           /\ \/ \E x \in Range(idle) :
                    /\ conn' = [conn EXCEPT ![c] = x]
                    /\ Range(idle') \subseteq Range(idle) \ {x}
                    /\ Len(idle') \in Nat /\ Len(idle') < Len(idle)
                    /\ Goto(c, "use")
              \/ idle' = <<>> /\ conn' = conn
<1> USE DEF IInv
<1>1. /\ pc[c] \in {"acquire", "woken"} /\ opened' = opened
      /\ idle \in Seq(Connections) /\ IsInjective(idle) /\ Len(idle) \in Nat
  BY LenProperties DEF Acquire, Shape, OnePlace, driver
<1>2. conn[c] = None
  BY <1>1 DEF HeldInUse
<1>3. PICK k \in 0 .. Len(idle) :
        \/ /\ Kept(k) # <<>>
           /\ idle' = Popped(Kept(k))
           /\ conn' = [conn EXCEPT ![c] = Last(Kept(k))]
           /\ Goto(c, "use")
        \/ idle' = <<>> /\ conn' = conn
  BY DEF Acquire
<1>4. /\ Kept(k) \in Seq(Connections) /\ Len(Kept(k)) = Len(idle) - k
      /\ IsInjective(Kept(k)) /\ Range(Kept(k)) \subseteq Range(idle)
      /\ k \in Nat /\ k <= Len(idle)
  BY <1>1, KeptFacts
<1>5. ASSUME Kept(k) # <<>>, idle' = Popped(Kept(k))
      PROVE  /\ Last(Kept(k)) \in Range(idle)
             /\ Range(idle') \subseteq Range(idle) \ {Last(Kept(k))}
             /\ Len(idle') \in Nat /\ Len(idle') < Len(idle)
  <2>1. /\ idle' \in Seq(Connections) /\ Len(idle') = Len(Kept(k)) - 1
        /\ Range(idle') \subseteq Range(Kept(k)) \ {Last(Kept(k))}
        /\ Last(Kept(k)) \in Range(Kept(k))
    BY <1>4, <1>5, PoppedFacts
  <2>2. Len(idle') \in Nat
    BY <2>1, LenProperties
  <2>3. Len(idle') = Len(idle) - k - 1
    BY <1>4, <2>1
  <2>4. Len(idle') < Len(idle)
    BY <1>1, <1>4, <2>2, <2>3
  <2> QED BY <1>4, <2>1, <2>2, <2>4
<1> QED BY <1>1, <1>2, <1>3, <1>5

\* A step that puts nobody to sleep, pushes nothing and uses up no wake-up.
LEMMA SleepUndisturbed ==
    ASSUME NoSleepWhileIdle, Len(idle) \in Nat, Len(idle') \in Nat, Len(idle') <= Len(idle),
           Waiting' \subseteq Waiting, Woken \subseteq Woken'
    PROVE  NoSleepWhileIdle'
<1>1. /\ Cardinality(Woken) \in Nat /\ Cardinality(Woken') \in Nat
      /\ Cardinality(Woken) <= Cardinality(Woken')
  BY Finite, FiniteNext, FS_CardinalityType, FS_Subset
<1>2. CASE Waiting' = {}
  BY <1>2 DEF NoSleepWhileIdle
<1>3. CASE Waiting' # {}
  <2>1. Waiting # {}
    BY <1>3
  <2> QED BY <1>1, <2>1 DEF NoSleepWhileIdle
<1> QED BY <1>2, <1>3

\* Every step keeps as many threads woken as entries lie idle while others sleep.
LEMMA SleepStep == IInv /\ NoSleepWhileIdle /\ [Next]_vars => NoSleepWhileIdle'
<1> SUFFICES ASSUME IInv, NoSleepWhileIdle, [Next]_vars PROVE NoSleepWhileIdle'
  OBVIOUS
<1>0. /\ Shape /\ IInv' /\ Shape' /\ HeldInUse
      /\ Len(idle) \in Nat /\ Len(idle') \in Nat
  <2>1. Shape /\ IInv' /\ Shape' /\ HeldInUse
    BY IInvStep DEF IInv
  <2> QED BY <2>1, LenProperties DEF Shape
<1>1. ASSUME NEW c \in Callers, idle' = idle, pc[c] # "woken", pc'[c] # "waiting",
             \A d \in Callers \ {c} : pc'[d] = pc[d]
      PROVE  NoSleepWhileIdle'
  <2>1. Waiting' \subseteq Waiting
    BY <1>1 DEF Waiting
  <2>2. Woken \subseteq Woken'
    BY <1>1 DEF Woken
  <2> QED BY <1>0, <1>1, <2>1, <2>2, SleepUndisturbed
<1>2. CASE UNCHANGED <<idle, pc>>
  <2>1. Waiting' = Waiting
    BY <1>2 DEF Waiting
  <2>2. Woken' = Woken
    BY <1>2 DEF Woken
  <2> QED BY <1>0, <1>2, <2>1, <2>2, SleepUndisturbed
<1>3. ASSUME NEW c \in Callers, NEW where \in PcStates \ {"waiting"}, Goto(c, where),
             idle' = idle, pc[c] # "woken"
      PROVE  NoSleepWhileIdle'
  BY <1>0, <1>1, <1>3 DEF Goto, Shape
<1>4. ASSUME NEW c \in Callers,
             \/ call(c) \/ WaitTimesOut(c) \/ SpuriousWakeup(c) \/ Connect(c) \/ Execute(c)
             \/ Retry(c) \/ DropHandle(c)
      PROVE  NoSleepWhileIdle'
  <2>1. idle' = idle /\ pc[c] # "woken"
    BY <1>4 DEF call, WaitTimesOut, SpuriousWakeup, Connect, Execute, Retry, DropHandle, pool
  <2>2. \E where \in PcStates \ {"waiting"} : Goto(c, where)
    BY <1>4 DEF call, WaitTimesOut, SpuriousWakeup, Connect, Execute, Retry, DropHandle,
                Leave, PcStates
  <2> QED BY <1>3, <2>1, <2>2
<1>5. ASSUME NEW c \in Callers, Acquire(c) PROVE NoSleepWhileIdle'
  <2>1. CASE idle' = <<>>
    <3>1. Len(idle') = 0
      BY <2>1, EmptyFacts
    <3> QED BY <3>1, FiniteNext, FS_CardinalityType DEF NoSleepWhileIdle
  <2>2. CASE Goto(c, "use") /\ Len(idle') < Len(idle)
    <3>1. /\ pc'[c] = "use" /\ \A d \in Callers \ {c} : pc'[d] = pc[d]
          /\ pc[c] \in {"acquire", "woken"}
      BY <1>0, <1>5, <2>2, AcquireOutcome DEF Goto, Shape
    <3>2. Waiting' \subseteq Waiting
      BY <3>1 DEF Waiting
    <3>3. Woken \ {c} = Woken' \ {c}
      BY <3>1 DEF Woken
    <3>4. /\ Cardinality(Woken) \in Nat /\ Cardinality(Woken') \in Nat
          /\ Cardinality(Woken') >= Cardinality(Woken) - 1
      <4>1. IsFiniteSet(Woken) /\ IsFiniteSet(Woken')
        BY Finite, FiniteNext
      <4>2. /\ Cardinality(Woken) \in Nat /\ Cardinality(Woken') \in Nat
            /\ Cardinality(Woken') = Cardinality(Woken) + (IF c \in Woken' THEN 1 ELSE 0)
                                                        - (IF c \in Woken THEN 1 ELSE 0)
        BY <3>3, <4>1, OneMoves
      <4> QED BY <4>2
    <3>5. CASE Waiting' # {}
      <4>1. Len(idle) <= Cardinality(Woken)
        BY <3>2, <3>5 DEF NoSleepWhileIdle
      <4> QED BY <1>0, <2>2, <3>4, <4>1 DEF NoSleepWhileIdle
    <3> QED BY <3>5 DEF NoSleepWhileIdle
  <2> QED BY <1>5, <2>1, <2>2, AcquireOutcome
<1>6. ASSUME NEW c \in Callers, Release(c) PROVE NoSleepWhileIdle'
  <2>1. CASE Goto(c, "out") /\ UNCHANGED idle
    <3>1. pc[c] # "woken" /\ "out" \in PcStates \ {"waiting"}
      BY <1>6 DEF Release, PcStates
    <3> QED BY <1>3, <2>1, <3>1
  <2>2. CASE /\ \E k \in 0 .. Len(idle) : idle' = Append(Kept(k), conn[c])
             /\ notify_one(c)
    <3>1. pc[c] = "return" /\ conn[c] \in Connections
      BY <1>0, <1>6 DEF Release, HeldInUse, Shape
    <3>2. /\ pc'[c] = "out"
          /\ \A d \in Callers \ {c} :
                pc'[d] = pc[d] \/ (pc[d] = "waiting" /\ pc'[d] = "woken")
          /\ Waiting # {} => \E w \in Waiting : w # c /\ pc'[w] = "woken"
      BY <1>0, <2>2, <3>1, Notified
    <3>3. Waiting' \subseteq Waiting
      BY <3>2 DEF Waiting
    <3>4. ASSUME Waiting' # {} PROVE Len(idle') <= Cardinality(Woken')
      <4>1. PICK w \in Waiting : w # c /\ pc'[w] = "woken"
        BY <3>2, <3>3, <3>4
      <4>2. w \notin Woken /\ Woken \union {w} \subseteq Woken'
        BY <3>1, <3>2, <4>1 DEF Waiting, Woken
      <4>3. /\ Cardinality(Woken) \in Nat /\ Cardinality(Woken') \in Nat
            /\ Cardinality(Woken) + 1 <= Cardinality(Woken')
        <5>1. IsFiniteSet(Woken) /\ IsFiniteSet(Woken')
          BY Finite, FiniteNext
        <5>2. Cardinality(Woken \union {w}) = Cardinality(Woken) + 1
          BY <4>2, <5>1, FS_AddElement
        <5>3. Cardinality(Woken \union {w}) <= Cardinality(Woken')
          BY <4>2, <5>1, FS_Subset
        <5> QED BY <5>1, <5>2, <5>3, FS_CardinalityType
      <4>4. Len(idle) <= Cardinality(Woken)
        BY <3>3, <3>4 DEF NoSleepWhileIdle
      <4>5. Len(idle') <= Len(idle) + 1
        <5>1. PICK k \in 0 .. Len(idle) : idle' = Append(Kept(k), conn[c])
          BY <2>2
        <5>2. /\ Kept(k) \in Seq(Connections) /\ Len(Kept(k)) = Len(idle) - k
              /\ k \in Nat
          BY <1>0, KeptFacts DEF Shape, IInv, OnePlace
        <5>3. Len(idle') = Len(idle) - k + 1
          BY SMTT(30), <3>1, <5>1, <5>2, AppendProperties
        <5> QED BY <1>0, <5>2, <5>3
      <4> QED BY <1>0, <4>3, <4>4, <4>5
    <3> QED BY <3>4 DEF NoSleepWhileIdle
  <2> QED BY <1>6, <2>1, <2>2 DEF Release
<1>7. ASSUME NEW c \in Callers, begin_transaction(c) \/ end_transaction(c) PROVE NoSleepWhileIdle'
  BY <1>2, <1>7 DEF begin_transaction, end_transaction, pool, caller
<1>8. ASSUME NEW k \in Connections, Break(k) PROVE NoSleepWhileIdle'
  BY <1>2, <1>8 DEF Break, pool, caller
<1>9. CASE UNCHANGED vars
  BY <1>2, <1>9 DEF vars, pool, caller
<1> QED BY <1>4, <1>5, <1>6, <1>7, <1>8, <1>9 DEF Next, Continue

\* No wake-up is lost: a thread sleeps while connections lie idle only if others
\* have been woken for them.
THEOREM NoLostWakeup == Spec => []NoSleepWhileIdle
<1>1. Init => NoSleepWhileIdle
  <2> SUFFICES ASSUME Init PROVE Waiting = {}
    BY DEF NoSleepWhileIdle
  <2> QED BY DEF Init, Waiting
<1> QED BY <1>1, SleepStep, Inductive, PTL DEF Spec

--------------------------------------------------------------------------------
(* The pool keeps its contract. *)

\* The contract's module counts as this one does.
LEMMA SameCount == \A S : Contract!Cardinality(S) = Cardinality(S)
BY DEF Cardinality, Contract!Cardinality

\* Idle and acquired connections: no more than the slots they take.
LEMMA OpenBound ==
    ASSUME IInv
    PROVE  /\ Cardinality(Contract!Open) \in Nat
           /\ Cardinality(Contract!Open) <= Len(idle) + Cardinality(Holders)
<1>1. idle \in Seq(Connections) /\ Len(idle) \in Nat
  BY LenProperties DEF IInv, Shape
<1>2. /\ IsFiniteSet(Range(idle)) /\ Cardinality(Range(idle)) \in Nat
      /\ Cardinality(Range(idle)) <= Len(idle)
  BY <1>1, RangeBound
<1> DEFINE f == [c \in Holders |-> conn[c]]
<1>3. f \in Surjection(Holders, Contract!InUse)
  <2>1. \A y \in Contract!InUse : \E c \in Holders : f[c] = y
    BY DEF Contract!InUse, Holders, None
  <2>2. f \in [Holders -> Contract!InUse]
    BY DEF Contract!InUse, Holders, None
  <2> QED BY <2>1, <2>2 DEF Surjection
<1>4. /\ IsFiniteSet(Contract!InUse) /\ Cardinality(Contract!InUse) \in Nat
      /\ Cardinality(Contract!InUse) <= Cardinality(Holders) /\ Cardinality(Holders) \in Nat
  BY <1>3, Finite, FS_Surjection, FS_CardinalityType
<1>5. Contract!Open = Range(idle) \union Contract!InUse
  BY DEF Contract!Open
<1>6. /\ Cardinality(Range(idle) \union Contract!InUse)
            = Cardinality(Range(idle)) + Cardinality(Contract!InUse)
                 - Cardinality(Range(idle) \intersect Contract!InUse)
      /\ Cardinality(Range(idle) \intersect Contract!InUse) \in Nat
      /\ Cardinality(Range(idle) \union Contract!InUse) \in Nat
  BY <1>2, <1>4, FS_Union, FS_Intersection, FS_CardinalityType
<1> QED BY <1>1, <1>2, <1>4, <1>5, <1>6

\* The empty pool is one of the contract.
LEMMA ContractInit == Init => Contract!Init
<1> SUFFICES ASSUME Init PROVE Contract!Init
  OBVIOUS
<1>1. MinIdle \in Nat /\ MinIdle <= MaxSize /\ MinIdle <= MaxConnections /\ MaxConnections \in Nat
  BY SizeAssumption, BoundAssumption
<1>2. Range(idle) = 1 .. MinIdle
  BY DEF Init, Range
<1>3. Contract!Cardinality(Range(idle)) <= MaxSize
  <2>1. Cardinality(1 .. MinIdle) = MinIdle
    BY <1>1, FS_Interval
  <2>2. Contract!Cardinality(1 .. MinIdle) = Cardinality(1 .. MinIdle)
    BY SameCount
  <2> QED BY <1>1, <1>2, <2>1, <2>2
<1>4. Range(idle) \subseteq Connections
  BY <1>1, <1>2 DEF Connections
<1> QED BY <1>2, <1>3, <1>4 DEF Init, Contract!Init, None

\* A step that leaves the connections where they are is none of the contract's.
LEMMA ContractStutters ==
    ASSUME UNCHANGED <<idle, conn, opened>>
    PROVE  UNCHANGED <<Range(idle), conn, {}, 1 .. opened>>
BY DEF Range

\* Acquiring hands out an idle connection or is a stutter of the contract.
LEMMA ContractAcquire ==
    ASSUME IInv, NEW c \in Callers, Acquire(c)
    PROVE  Contract!Next
<1>1. /\ conn[c] = None /\ opened' = opened
      /\ \/ \E x \in Range(idle) : /\ conn' = [conn EXCEPT ![c] = x]
                                   /\ Range(idle') \subseteq Range(idle) \ {x}
         \/ idle' = <<>> /\ conn' = conn
  BY AcquireOutcome
<1>2. CASE idle' = <<>> /\ conn' = conn
  <2>1. Range(idle') = {}
    BY <1>2, EmptyFacts
  <2> QED BY <1>1, <1>2, <2>1 DEF Contract!Next, Contract!Close
<1>3. ASSUME NEW x \in Range(idle), conn' = [conn EXCEPT ![c] = x],
             Range(idle') \subseteq Range(idle) \ {x}
      PROVE  Contract!Next
  <2>1. x \in 1 .. opened /\ x \in Connections
    <3>1. x \in 1 .. opened /\ opened \in 0 .. MaxConnections
      BY DEF IInv, Shape, OnePlace
    <3> QED BY <3>1, BoundAssumption DEF Connections
  <2>2. 1 .. opened' = (1 .. opened) \union {x}
    BY <1>1, <2>1
  <2>3. Contract!Lend(c, x)
    BY <1>1, <1>3, <2>2 DEF Contract!Lend, None
  <2> QED BY <2>1, <2>3 DEF Contract!Next
<1> QED BY <1>1, <1>2, <1>3

\* An attempt to connect opens one connection of the contract or is a stutter.
LEMMA ContractConnect ==
    ASSUME IInv, NEW c \in Callers, Connect(c)
    PROVE  Contract!Next \/ UNCHANGED <<Range(idle), conn, {}, 1 .. opened>>
<1>1. CASE UNCHANGED <<idle, conn, opened>>
  BY <1>1, ContractStutters
<1>2. CASE /\ opened < MaxConnections /\ opened' = opened + 1
           /\ conn' = [conn EXCEPT ![c] = opened + 1] /\ idle' = idle
  <2>1. pc[c] = "connect" /\ conn[c] = None
    BY DEF Connect, IInv, HeldInUse
  <2>2. /\ opened \in Nat /\ MaxConnections \in Nat
        /\ opened + 1 \in Connections \ (1 .. opened)
    BY <1>2, BoundAssumption DEF IInv, Shape, Connections
  <2>3. Cardinality(Contract!Open) < MaxSize
    <3>1. /\ Cardinality(Holders) \in Nat /\ Cardinality(Connecting) \in Nat
          /\ Cardinality(Connecting) >= 1
      <4>1. c \in Connecting /\ IsFiniteSet(Connecting)
        BY <2>1, Finite DEF Connecting
      <4>2. Cardinality(Connecting) # 0
        BY <4>1, FS_EmptySet
      <4> QED BY <4>1, <4>2, Finite, FS_CardinalityType
    <3>2. total = Len(idle) + Cardinality(Holders) + Cardinality(Connecting)
      BY DEF IInv, SlotsAccounted
    <3>3. total <= MaxSize /\ Len(idle) \in Nat
      BY LenProperties DEF IInv, Shape
    <3>4. /\ Cardinality(Contract!Open) \in Nat
          /\ Cardinality(Contract!Open) <= Len(idle) + Cardinality(Holders)
      BY OpenBound
    <3> QED BY <3>1, <3>2, <3>3, <3>4, SizeAssumption
  <2>4. 1 .. opened' = (1 .. opened) \union {opened + 1}
    BY <1>2, <2>2
  <2>5. Range(idle') = Range(idle) /\ opened + 1 \notin Range(idle)
    BY <1>2, <2>2 DEF IInv, OnePlace, Range
  <2>6. Contract!Lend(c, opened + 1)
    BY <1>2, <2>1, <2>2, <2>3, <2>4, <2>5, SameCount DEF Contract!Lend, None
  <2> QED BY <2>2, <2>6 DEF Contract!Next
<1> QED BY <1>1, <1>2 DEF Connect

\* A connection that is given up or pushed back.
LEMMA ContractReturn ==
    ASSUME NEW c \in Callers, conn[c] # None, conn' = [conn EXCEPT ![c] = None],
           opened' = opened, Range(idle') \subseteq Range(idle) \union {conn[c]}
    PROVE  Contract!Next
<1>1. Contract!Return(c)
  BY DEF Contract!Return, None
<1> QED BY <1>1 DEF Contract!Next

\* A return makes a connection idle in the contract.
LEMMA ContractRelease ==
    ASSUME IInv, NEW c \in Callers, Release(c)
    PROVE  Contract!Next
<1>1. /\ pc[c] = "return" /\ conn[c] # None /\ conn[c] \in Connections
      /\ conn' = [conn EXCEPT ![c] = None] /\ opened' = opened
  BY DEF Release, IInv, HeldInUse, Shape, driver
<1>2. CASE idle' = idle
  BY <1>1, <1>2, ContractReturn DEF Range
<1>3. ASSUME NEW k \in 0 .. Len(idle), idle' = Append(Kept(k), conn[c])
      PROVE  Contract!Next
  <2>1. /\ Kept(k) \in Seq(Connections) /\ IsInjective(Kept(k))
        /\ Range(Kept(k)) \subseteq Range(idle) /\ conn[c] \notin Range(idle)
    BY KeptFacts DEF IInv, Shape, OnePlace
  <2>2. Range(idle') = Range(Kept(k)) \union {conn[c]}
    BY <1>1, <1>3, <2>1, PushedFacts
  <2> QED BY <1>1, <2>1, <2>2, ContractReturn
<1> QED BY <1>2, <1>3 DEF Release

\* Every step of the pool is a step or a stutter of the contract.
LEMMA ContractStep ==
    IInv /\ [Next]_vars => [Contract!Next]_<<Range(idle), conn, {}, 1 .. opened>>
<1> SUFFICES ASSUME IInv, [Next]_vars
             PROVE  Contract!Next \/ UNCHANGED <<Range(idle), conn, {}, 1 .. opened>>
  OBVIOUS
<1>1. ASSUME NEW c \in Callers, Retry(c)
      PROVE  Contract!Next \/ UNCHANGED <<Range(idle), conn, {}, 1 .. opened>>
  <2>1. CASE UNCHANGED <<idle, conn, opened>>
    BY <2>1, ContractStutters
  <2>2. CASE UNCHANGED <<idle, opened>> /\ conn' = [conn EXCEPT ![c] = None]
    <3>1. conn[c] # None
      BY <1>1 DEF Retry, IInv, HeldInUse
    <3>2. Range(idle') \subseteq Range(idle) \union {conn[c]}
      BY <2>2 DEF Range
    <3> QED BY <2>2, <3>1, <3>2, ContractReturn
  <2> QED BY <1>1, <2>1, <2>2 DEF Retry, driver
<1>2. CASE UNCHANGED <<idle, conn, opened>>
  BY <1>2, ContractStutters
<1>3. ASSUME NEW c \in Callers,
             \/ call(c) \/ WaitTimesOut(c) \/ SpuriousWakeup(c) \/ Execute(c)
             \/ begin_transaction(c) \/ end_transaction(c) \/ DropHandle(c)
      PROVE  UNCHANGED <<idle, conn, opened>>
  BY <1>3 DEF call, WaitTimesOut, SpuriousWakeup, Execute, begin_transaction,
              end_transaction, DropHandle, pool, caller, driver
<1>4. ASSUME NEW k \in Connections, Break(k)
      PROVE  UNCHANGED <<idle, conn, opened>>
  BY <1>4 DEF Break, pool, caller
<1>5. CASE UNCHANGED vars
  BY <1>2, <1>5 DEF vars, pool, caller, driver
<1> QED BY <1>1, <1>2, <1>3, <1>4, <1>5, ContractAcquire, ContractConnect, ContractRelease
        DEF Next, Continue

\* The stack, the count, the mutex and the wake-ups implement the contract: at most
\* max_size connections are open, one caller per connection, and what has left the pool
\* is not lent again.
THEOREM KeepsContract == Spec => PoolSpec
<1> USE ContractInit, ContractStep, Inductive
<1> QED BY PTL DEF Spec, PoolSpec, Contract!Spec
================================================================================
