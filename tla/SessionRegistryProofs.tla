------------------------- MODULE SessionRegistryProofs -------------------------
(* What holds of SessionRegistry for every set of ids, requests, subjects and  *)
(* projects, every capacity and every bound on incarnations and restarts.      *)
EXTENDS SessionRegistry, FiniteSetTheorems, TLAPS

\* The nonces: those registered were constructed, an entry has its own id, and a
\* request only holds sessions that were constructed.
NoncesKnown ==
    /\ used \subseteq 1 .. Len(info)
    /\ \A s \in Ids : sessions[s] # None =>
          sessions[s] \in used /\ info[sessions[s]].id = s
    /\ \A l \in Lanes : session[l] # None => session[l] \in 1 .. Len(info)

\* A request owns a session exactly between its construction and registration;
\* it is nobody else's, was never registered, and is bound as the request asked.
OwnIsFresh ==
    /\ \A l \in Lanes : own[l] # None <=> pc[l] = "insert"
    /\ \A l \in Lanes : own[l] # None =>
          /\ own[l] \in (1 .. Len(info)) \ used
          /\ info[own[l]].id = req[l].id
          /\ BoundLike(info[own[l]], req[l])
    /\ \A l, m \in Lanes : own[l] # None /\ own[l] = own[m] => l = m

\* What each check at the gate has established by the time the next one is made.
GateChecks ==
    /\ \A l \in Lanes : pc[l] # "idle" => req[l] \in Request
    /\ \A l \in Lanes : pc[l] \in {"verify", "nonce", "run"} =>
          session[l] # None /\ info[session[l]].id = req[l].id
    /\ \A l \in Lanes : Duckvis /\ pc[l] \in {"nonce", "run"} =>
          Admits(info[session[l]], req[l])
    /\ \A l \in Lanes : pc[l] = "run" => NonceMatches(req[l], session[l])

\* TypeOK without the upper bound of session_permits, which needs conservation.
Shape ==
    /\ sessions \in [Ids -> Nonces \union {None}]
    /\ session_permits \in Nat
    /\ pc \in [Lanes -> PcStates]
    /\ req \in [Lanes -> Request \union {NoRequest}]
    /\ session \in [Lanes -> Nonces \union {None}]
    /\ own \in [Lanes -> Nonces \union {None}]
    /\ idle \subseteq Nonces /\ used \subseteq Nonces
    /\ restarts \in 0 .. MaxRestarts
    /\ info \in Seq(Binding) /\ Len(info) <= MaxIncarnations

IInv == Shape /\ PermitsConserved /\ NoncesKnown /\ OwnIsFresh /\ GateChecks

--------------------------------------------------------------------------------

\* Registered ids and permit holders are finite, and so are the stale ids.
LEMMA Finite ==
    /\ IsFiniteSet(Registered) /\ Cardinality(Registered) \in Nat
    /\ IsFiniteSet(PermitHolders) /\ Cardinality(PermitHolders) \in Nat
    /\ IsFiniteSet(Stale) /\ Cardinality(Stale) \in Nat
<1>1. Registered \in SUBSET Ids /\ PermitHolders \in SUBSET Lanes /\ Stale \in SUBSET Ids
  BY DEF Registered, PermitHolders, Stale
<1> QED BY <1>1, IdsAssumption, FS_Subset, FS_CardinalityType

\* The permits never exceed the capacity, so the two type invariants agree.
LEMMA PermitBound == Shape /\ PermitsConserved => TypeOK
<1> SUFFICES ASSUME Shape, PermitsConserved PROVE TypeOK
  OBVIOUS
<1>1. session_permits \in 0 .. MaxSessions
  BY Finite, BoundsAssumption DEF Shape, PermitsConserved
<1> QED BY <1>1 DEF Shape, TypeOK

\* Leaving the gate clears the lane and touches no other.
LEMMA LeaveType ==
    ASSUME Shape, NEW l \in Lanes, Leave(l)
    PROVE  /\ pc' \in [Lanes -> PcStates]
           /\ req' \in [Lanes -> Request \union {NoRequest}]
           /\ session' \in [Lanes -> Nonces \union {None}]
           /\ own' \in [Lanes -> Nonces \union {None}]
           /\ pc'[l] = "idle" /\ session'[l] = None /\ own'[l] = None
           /\ \A m \in Lanes \ {l} : /\ pc'[m] = pc[m] /\ req'[m] = req[m]
                                     /\ session'[m] = session[m] /\ own'[m] = own[m]
BY DEF Leave, Goto, Shape, PcStates

--------------------------------------------------------------------------------
(* Type correctness. *)

\* Every step keeps the types.
LEMMA ShapeStep == Shape /\ OwnIsFresh /\ GateChecks /\ [Next]_vars => Shape'
<1> SUFFICES ASSUME Shape, OwnIsFresh, GateChecks, [Next]_vars PROVE Shape'
  OBVIOUS
<1> USE DEF None
<1>1. ASSUME NEW l \in Lanes, prepare_request(l) PROVE Shape'
  BY <1>1 DEF prepare_request, Goto, Shape, PcStates, registry, world
<1>2. ASSUME NEW l \in Lanes, get_by_id(l) PROVE Shape'
  <2>1. req[l] \in Request
    BY <1>2 DEF get_by_id, GateChecks
  <2>2. sessions[req[l].id] \in Nonces \union {None}
    BY <2>1 DEF Shape, Request
  <2>3. CASE Leave(l)
    BY <1>2, <2>3, LeaveType DEF get_by_id, Shape, registry, world
  <2>4. CASE ~ Leave(l)
    BY <1>2, <2>2, <2>4 DEF get_by_id, Goto, Shape, PcStates, registry, world
  <2> QED BY <2>3, <2>4
<1>3. ASSUME NEW l \in Lanes, check_project_view(l) PROVE Shape'
  <2>1. CASE Leave(l)
    BY <1>3, <2>1, LeaveType DEF check_project_view, Shape, registry, world
  <2>2. CASE ~ Leave(l)
    BY <1>3, <2>2 DEF check_project_view, Goto, Shape, PcStates, registry, world
  <2> QED BY <2>1, <2>2
<1>4. ASSUME NEW l \in Lanes, FastPath(l) PROVE Shape'
  <2>1. req[l] \in Request
    BY <1>4 DEF FastPath, GateChecks
  <2>2. sessions[req[l].id] \in Nonces \union {None}
    BY <2>1 DEF Shape, Request
  <2> QED BY <1>4, <2>2 DEF FastPath, Goto, Shape, PcStates, registry, world
<1>5. ASSUME NEW l \in Lanes, AcquirePermit(l) PROVE Shape'
  <2>1. CASE Leave(l)
    BY <1>5, <2>1, LeaveType DEF AcquirePermit, HasPermit, Shape, registry, world
  <2>2. CASE ~ Leave(l)
    BY <1>5, <2>2 DEF AcquirePermit, HasPermit, Goto, Shape, PcStates, registry, world
  <2> QED BY <2>1, <2>2
<1>6. ASSUME NEW l \in Lanes, CreateConnection(l) PROVE Shape'
  <2>1. req[l] \in Request
    BY <1>6 DEF CreateConnection, GateChecks
  <2> DEFINE b == [id |-> req[l].id, subject |-> req[l].subject, project |-> req[l].project]
  <2>2. b \in Binding
    BY <2>1 DEF Request, Binding
  <2>3. info' \in Seq(Binding) /\ Len(info') = Len(info) + 1 /\ Len(info') <= MaxIncarnations
    BY <1>6, <2>2, BoundsAssumption DEF CreateConnection, Shape
  <2>4. Len(info') \in Nonces
    BY <2>3, BoundsAssumption DEF Nonces, Shape
  <2> QED BY <1>6, <2>3, <2>4 DEF CreateConnection, Goto, Shape, PcStates, registry
<1>7. ASSUME NEW l \in Lanes, CreationFails(l) PROVE Shape'
  BY <1>7, LeaveType DEF CreationFails, ReturnPermit, Shape, world
<1>8. ASSUME NEW l \in Lanes, Insert(l) PROVE Shape'
  <2>1. req[l] \in Request /\ req[l].id \in Ids
    BY <1>8 DEF Insert, GateChecks, Request
  <2>2. sessions[req[l].id] \in Nonces \union {None} /\ own[l] \in Nonces
    BY <1>8, <2>1 DEF Insert, OwnIsFresh, Shape
  <2> QED BY SMTT(30), <1>8, <2>1, <2>2 DEF Insert, Occupied, Goto, Shape, PcStates
<1>9. ASSUME NEW l \in Lanes, Verify(l) PROVE Shape'
  <2>1. CASE Leave(l)
    BY <1>9, <2>1, LeaveType DEF Verify, Shape, registry, world
  <2>2. CASE ~ Leave(l)
    BY <1>9, <2>2 DEF Verify, Goto, Shape, PcStates, registry, world
  <2> QED BY <2>1, <2>2
<1>10. ASSUME NEW l \in Lanes, CheckNonce(l) PROVE Shape'
  <2>1. CASE Leave(l)
    BY <1>10, <2>1, LeaveType DEF CheckNonce, Shape, registry, world
  <2>2. CASE ~ Leave(l)
    BY <1>10, <2>2 DEF CheckNonce, Goto, Shape, PcStates, registry, world
  <2> QED BY <2>1, <2>2
<1>11. ASSUME NEW l \in Lanes, Finish(l) PROVE Shape'
  BY <1>11, LeaveType DEF Finish, Shape, registry, world
<1>12. ASSUME NEW l \in Lanes, close_session(l) PROVE Shape'
  <2>1. sessions' \in [Ids -> Nonces \union {None}] /\ session_permits' \in Nat
    BY <1>12 DEF close_session, Shape, registry
  <2> QED BY <1>12, <2>1, LeaveType DEF close_session, Shape, world
<1>13. ASSUME NEW l \in Lanes, touch(l) PROVE Shape'
  BY <1>13 DEF touch, Shape, registry, lane
<1>14. ASSUME NEW s \in Ids, TimePasses(s) PROVE Shape'
  BY <1>14 DEF TimePasses, Shape, registry, lane
<1>15. CASE cleanup_idle_sessions
  BY <1>15, Finite DEF cleanup_idle_sessions, Shape, lane, world
<1>16. CASE Restart
  <2>1. restarts' \in 0 .. MaxRestarts
    BY <1>16, BoundsAssumption DEF Restart, Shape
  <2> QED BY <1>16, <2>1, BoundsAssumption DEF Restart, Shape, PcStates
<1>17. CASE UNCHANGED vars
  BY <1>17 DEF vars, registry, lane, world, Shape
<1> QED BY <1>1, <1>2, <1>3, <1>4, <1>5, <1>6, <1>7, <1>8, <1>9, <1>10, <1>11, <1>12,
           <1>13, <1>14, <1>15, <1>16, <1>17 DEF Next, Continue

--------------------------------------------------------------------------------
(* Permits. *)

\* Who holds a permit before and after a step that moves lane l only.
LEMMA HolderMoves ==
    ASSUME Shape, NEW l \in Lanes, NEW where \in PcStates, Goto(l, where)
    PROVE  PermitHolders' = IF where \in {"create", "insert"}
                            THEN PermitHolders \union {l} ELSE PermitHolders \ {l}
BY DEF Shape, Goto, PermitHolders

\* The ids registered before and after the entry of one id is written.
LEMMA EntryMoves ==
    ASSUME Shape, NEW s \in Ids, NEW n, sessions' = [sessions EXCEPT ![s] = n]
    PROVE  Registered' = IF n # None THEN Registered \union {s} ELSE Registered \ {s}
BY DEF Shape, Registered

\* Conservation only depends on the permits and on the two sets.
LEMMA PermitsFrame ==
    ASSUME PermitsConserved, session_permits' = session_permits,
           Registered' = Registered, PermitHolders' = PermitHolders
    PROVE  PermitsConserved'
BY DEF PermitsConserved

\* A lane that holds no permit and moves to where none is held changes nothing.
LEMMA NoPermitMoves ==
    ASSUME Shape, PermitsConserved, UNCHANGED registry, NEW l \in Lanes,
           NEW where \in PcStates \ {"create", "insert"}, Goto(l, where),
           pc[l] \notin {"create", "insert"}
    PROVE  PermitsConserved'
<1>1. PermitHolders' = PermitHolders \ {l}
  BY HolderMoves
<1>2. PermitHolders' = PermitHolders /\ Registered' = Registered
  BY <1>1 DEF PermitHolders, Registered, registry
<1> QED BY <1>2, PermitsFrame DEF registry

\* A lane that holds a permit and gives it back to the semaphore.
LEMMA PermitGivenBack ==
    ASSUME Shape, PermitsConserved, UNCHANGED sessions, NEW l \in Lanes,
           NEW where \in PcStates \ {"create", "insert"}, Goto(l, where),
           pc[l] \in {"create", "insert"}, session_permits' = session_permits + 1
    PROVE  PermitsConserved'
<1>1. PermitHolders' = PermitHolders \ {l} /\ l \in PermitHolders
  BY HolderMoves DEF PermitHolders
<1>2. Cardinality(PermitHolders') = Cardinality(PermitHolders) - 1
  BY <1>1, Finite, FS_RemoveElement
<1>3. Registered' = Registered
  BY DEF Registered
<1> QED BY <1>2, <1>3, Finite, BoundsAssumption DEF PermitsConserved, Shape

\* Every step keeps the count of permits.
LEMMA PermitStep ==
    Shape /\ PermitsConserved /\ OwnIsFresh /\ GateChecks /\ [Next]_vars => PermitsConserved'
<1> SUFFICES ASSUME Shape, PermitsConserved, OwnIsFresh, GateChecks, [Next]_vars
             PROVE  PermitsConserved'
  OBVIOUS
<1>1. ASSUME NEW l \in Lanes, prepare_request(l) PROVE PermitsConserved'
  <2>1. (IF Duckvis THEN "lookup" ELSE "get") \in PcStates \ {"create", "insert"}
    BY DEF PcStates
  <2> QED BY <1>1, <2>1, NoPermitMoves DEF prepare_request
<1>2. ASSUME NEW l \in Lanes,
             \/ get_by_id(l) \/ check_project_view(l) \/ FastPath(l) \/ Verify(l)
             \/ CheckNonce(l) \/ Finish(l)
      PROVE  PermitsConserved'
  <2>1. PICK where \in PcStates \ {"create", "insert"} : Goto(l, where)
    BY <1>2 DEF get_by_id, check_project_view, FastPath, Verify, CheckNonce, Finish, Leave, PcStates
  <2>2. pc[l] \notin {"create", "insert"} /\ UNCHANGED registry
    BY <1>2 DEF get_by_id, check_project_view, FastPath, Verify, CheckNonce, Finish
  <2> QED BY <2>1, <2>2, NoPermitMoves
<1>3. ASSUME NEW l \in Lanes, AcquirePermit(l) PROVE PermitsConserved'
  <2>1. CASE Leave(l) /\ UNCHANGED registry
    BY <1>3, <2>1, NoPermitMoves DEF AcquirePermit, Leave, PcStates
  <2>2. CASE Goto(l, "create") /\ session_permits' = session_permits - 1
    <3>1. PermitHolders' = PermitHolders \union {l} /\ l \notin PermitHolders
      BY <1>3, <2>2, HolderMoves DEF AcquirePermit, PermitHolders, PcStates
    <3>2. Cardinality(PermitHolders') = Cardinality(PermitHolders) + 1
      BY <3>1, Finite, FS_AddElement
    <3>3. Registered' = Registered
      BY <1>3 DEF AcquirePermit, Registered
    <3> QED BY <2>2, <3>2, <3>3, Finite, BoundsAssumption DEF PermitsConserved, Shape
  <2> QED BY <1>3, <2>1, <2>2 DEF AcquirePermit, registry
<1>4. ASSUME NEW l \in Lanes, CreateConnection(l) PROVE PermitsConserved'
  <2>1. PermitHolders' = PermitHolders
    BY <1>4, HolderMoves DEF CreateConnection, PermitHolders, PcStates
  <2> QED BY <1>4, <2>1, PermitsFrame DEF CreateConnection, registry, Registered
<1>5. ASSUME NEW l \in Lanes, CreationFails(l) PROVE PermitsConserved'
  BY <1>5, PermitGivenBack DEF CreationFails, ReturnPermit, Leave, PcStates
<1>6. ASSUME NEW l \in Lanes, Insert(l) PROVE PermitsConserved'
  <2>1. CASE Occupied(req[l].id)
    BY <1>6, <2>1, PermitGivenBack DEF Insert, PcStates
  <2>2. CASE ~ Occupied(req[l].id)
    <3>1. req[l].id \in Ids /\ own[l] # None
      BY <1>6 DEF Insert, GateChecks, OwnIsFresh, Request
    <3>2. Registered' = Registered \union {req[l].id} /\ req[l].id \notin Registered
      BY SMTT(30), <1>6, <2>2, <3>1, EntryMoves DEF Insert, Occupied, Registered
    <3>3. PermitHolders' = PermitHolders \ {l} /\ l \in PermitHolders
      BY <1>6, <2>2, HolderMoves DEF Insert, PermitHolders, PcStates
    <3>4. Cardinality(Registered') = Cardinality(Registered) + 1
      BY <3>2, Finite, FS_AddElement
    <3>5. Cardinality(PermitHolders') = Cardinality(PermitHolders) - 1
      BY <3>3, Finite, FS_RemoveElement
    <3>6. session_permits' = session_permits
      BY <1>6, <2>2 DEF Insert
    <3> QED BY <3>4, <3>5, <3>6, Finite, BoundsAssumption DEF PermitsConserved, Shape
  <2> QED BY <2>1, <2>2
<1>7. ASSUME NEW l \in Lanes, close_session(l) PROVE PermitsConserved'
  <2>1. Goto(l, "idle") /\ pc[l] \notin {"create", "insert"} /\ req[l].id \in Ids
    BY <1>7 DEF close_session, Leave, GateChecks, Request
  <2>2. CASE UNCHANGED registry
    BY <2>1, <2>2, NoPermitMoves DEF PcStates
  <2>3. CASE SameIncarnation(req[l].id, session[l])
    <3>1. Registered' = Registered \ {req[l].id} /\ req[l].id \in Registered
      BY <1>7, <2>1, <2>3, EntryMoves
         DEF close_session, SameIncarnation, GateChecks, Registered
    <3>2. Cardinality(Registered') = Cardinality(Registered) - 1
      BY <3>1, Finite, FS_RemoveElement
    <3>3. PermitHolders' = PermitHolders
      BY <2>1, HolderMoves DEF PermitHolders, PcStates
    <3>4. session_permits' = session_permits + 1
      BY <1>7, <2>3 DEF close_session
    <3> QED BY <3>2, <3>3, <3>4, Finite, BoundsAssumption DEF PermitsConserved, Shape
  <2> QED BY <1>7, <2>2, <2>3 DEF close_session
<1>8. CASE cleanup_idle_sessions
  <2>1. Registered' = Registered \ Stale /\ Stale \subseteq Registered
    BY <1>8 DEF cleanup_idle_sessions, Registered, Stale, Shape
  <2>2. Cardinality(Registered \ Stale) = Cardinality(Registered) - Cardinality(Stale)
    BY <2>1, Finite, FS_Difference, Registered \intersect Stale = Stale
  <2>3. PermitHolders' = PermitHolders
    BY <1>8 DEF cleanup_idle_sessions, lane, PermitHolders
  <2>4. session_permits' = session_permits + Cardinality(Stale)
    BY <1>8 DEF cleanup_idle_sessions
  <2> QED BY <2>1, <2>2, <2>3, <2>4, Finite, BoundsAssumption DEF PermitsConserved, Shape
<1>9. CASE Restart
  <2>1. Registered' = {} /\ PermitHolders' = {} /\ session_permits' = MaxSessions
    BY <1>9 DEF Restart, Registered, PermitHolders
  <2> QED BY <2>1, FS_EmptySet, BoundsAssumption DEF PermitsConserved
<1>10. ASSUME UNCHANGED <<registry, lane>> PROVE PermitsConserved'
  BY <1>10, PermitsFrame DEF registry, lane, Registered, PermitHolders
<1>11. ASSUME NEW l \in Lanes, touch(l) PROVE PermitsConserved'
  BY <1>10, <1>11 DEF touch
<1>12. ASSUME NEW s \in Ids, TimePasses(s) PROVE PermitsConserved'
  BY <1>10, <1>12 DEF TimePasses
<1>13. CASE UNCHANGED vars
  BY <1>10, <1>13 DEF vars
<1> QED BY <1>1, <1>2, <1>3, <1>4, <1>5, <1>6, <1>7, <1>8, <1>9, <1>11, <1>12, <1>13
        DEF Next, Continue

--------------------------------------------------------------------------------
(* Nonces and the checks of the gate. *)

\* No step renames a constructed session or forgets a registered nonce.
LEMMA InfoGrows ==
    ASSUME Shape, GateChecks, [Next]_vars
    PROVE  /\ Len(info) <= Len(info') /\ Len(info') \in Nat
           /\ \A n \in 1 .. Len(info) : info'[n] = info[n]
           /\ used \subseteq used'
<1>1. ASSUME NEW l \in Lanes, CreateConnection(l)
      PROVE  /\ Len(info') = Len(info) + 1 /\ used' = used
             /\ \A n \in 1 .. Len(info) : info'[n] = info[n]
  <2>1. req[l] \in Request
    BY <1>1 DEF CreateConnection, GateChecks
  <2> DEFINE b == [id |-> req[l].id, subject |-> req[l].subject, project |-> req[l].project]
  <2>2. b \in Binding /\ info' = Append(info, b) /\ used' = used
    BY <1>1, <2>1 DEF CreateConnection, Request, Binding
  <2> QED BY <2>2 DEF Shape
<1>2. ASSUME NEW l \in Lanes, ~ CreateConnection(l),
             prepare_request(l) \/ Continue(l) \/ touch(l)
      PROVE  info' = info /\ used \subseteq used'
  BY <1>2 DEF prepare_request, get_by_id, check_project_view, FastPath, AcquirePermit,
              CreationFails, Insert, Verify, CheckNonce, Finish, close_session, touch,
              Continue, world
<1>3. ASSUME \/ \E s \in Ids : TimePasses(s)
             \/ cleanup_idle_sessions \/ Restart \/ UNCHANGED vars
      PROVE  info' = info /\ used' = used
  BY <1>3 DEF TimePasses, cleanup_idle_sessions, Restart, vars, world
<1> QED BY <1>1, <1>2, <1>3 DEF Next, Shape

\* Every step keeps nonces unused until they are constructed.
LEMMA NoncesStep ==
    Shape /\ NoncesKnown /\ OwnIsFresh /\ GateChecks /\ [Next]_vars => NoncesKnown'
<1> SUFFICES ASSUME Shape, NoncesKnown, OwnIsFresh, GateChecks, [Next]_vars
             PROVE  NoncesKnown'
  OBVIOUS
<1>1. /\ Len(info) \in Nat /\ Len(info) <= Len(info') /\ Len(info') \in Nat
      /\ \A n \in 1 .. Len(info) : info'[n] = info[n]
      /\ used \subseteq used' /\ Shape'
  BY InfoGrows, ShapeStep DEF Shape
<1>2. ASSUME used' = used,
             \A s \in Ids : sessions'[s] \in {None, sessions[s]},
             \A l \in Lanes : \/ session'[l] \in {None, session[l]}
                              \/ \E s \in Ids : session'[l] = sessions[s]
      PROVE  NoncesKnown'
  BY <1>1, <1>2 DEF NoncesKnown
<1>3. ASSUME NEW l \in Lanes, Insert(l) PROVE NoncesKnown'
  <2>1. req[l].id \in Ids /\ own[l] \in (1 .. Len(info)) \ used /\ own[l] # None
    BY <1>3 DEF Insert, GateChecks, Request, OwnIsFresh
  <2>2. CASE Occupied(req[l].id)
    BY <1>2, <1>3, <2>1, <2>2 DEF Insert, Shape
  <2>3. CASE ~ Occupied(req[l].id)
    <3>1. used' = used \union {own[l]} /\ info' = info
      BY <1>3, <2>3 DEF Insert
    <3>2. \A s \in Ids : sessions'[s] = IF s = req[l].id THEN own[l] ELSE sessions[s]
      BY <1>3, <2>3 DEF Insert, Shape
    <3>3. \A m \in Lanes : session'[m] = IF m = l THEN own[l] ELSE session[m]
      BY <1>3, <2>3 DEF Insert, Shape
    <3>4. info[own[l]].id = req[l].id
      BY <2>1 DEF OwnIsFresh
    <3> QED BY <1>1, <2>1, <3>1, <3>2, <3>3, <3>4 DEF NoncesKnown
  <2> QED BY <2>2, <2>3
<1>4. ASSUME NEW l \in Lanes, ~ Insert(l), prepare_request(l) \/ Continue(l) \/ touch(l)
      PROVE  NoncesKnown'
  <2>1. used' = used
    BY <1>4 DEF prepare_request, get_by_id, check_project_view, FastPath, AcquirePermit,
                CreateConnection, CreationFails, Verify, CheckNonce, Finish, close_session,
                touch, Continue, world
  <2>2. \A s \in Ids : sessions'[s] \in {None, sessions[s]}
    BY <1>4 DEF prepare_request, get_by_id, check_project_view, FastPath, AcquirePermit,
                CreateConnection, CreationFails, Verify, CheckNonce, Finish, close_session,
                touch, Continue, registry, Shape
  <2>3. pc[l] # "idle" => req[l].id \in Ids
    BY DEF GateChecks, Request
  <2>4. \A m \in Lanes : \/ session'[m] \in {None, session[m]}
                         \/ \E s \in Ids : session'[m] = sessions[s]
    BY <1>4, <2>3
       DEF prepare_request, get_by_id, check_project_view, FastPath, AcquirePermit,
           CreateConnection, CreationFails, Verify, CheckNonce, Finish, close_session,
           touch, Continue, lane, Leave, Shape
  <2> QED BY <1>2, <2>1, <2>2, <2>4
<1>5. ASSUME \/ \E s \in Ids : TimePasses(s)
             \/ cleanup_idle_sessions \/ Restart \/ UNCHANGED vars
      PROVE  NoncesKnown'
  <2>1. used' = used /\ \A s \in Ids : sessions'[s] \in {None, sessions[s]}
    BY <1>5 DEF TimePasses, cleanup_idle_sessions, Restart, vars, registry, world
  <2>2. \A l \in Lanes : session'[l] \in {None, session[l]}
    BY <1>5 DEF TimePasses, cleanup_idle_sessions, Restart, vars, lane
  <2> QED BY <1>2, <2>1, <2>2
<1> QED BY <1>3, <1>4, <1>5 DEF Next

\* Every step keeps a constructed session unused until its own request inserts it.
LEMMA OwnStep ==
    Shape /\ NoncesKnown /\ OwnIsFresh /\ GateChecks /\ [Next]_vars => OwnIsFresh'
<1> SUFFICES ASSUME Shape, NoncesKnown, OwnIsFresh, GateChecks, [Next]_vars
             PROVE  OwnIsFresh'
  OBVIOUS
<1>1. /\ Len(info) \in Nat /\ Len(info) <= Len(info') /\ Len(info') \in Nat
      /\ \A n \in 1 .. Len(info) : info'[n] = info[n]
  BY InfoGrows DEF Shape
\* Lanes that own nothing before and after, and lanes that do not move.
<1>2. ASSUME used' = used,
             \A l \in Lanes :
                \/ own'[l] = None /\ pc'[l] # "insert"
                \/ own'[l] = own[l] /\ pc'[l] = pc[l] /\ req'[l] = req[l]
      PROVE  OwnIsFresh'
  BY <1>1, <1>2 DEF OwnIsFresh, BoundLike
<1>3. ASSUME NEW l \in Lanes, CreateConnection(l) PROVE OwnIsFresh'
  <2>1. req[l] \in Request
    BY <1>3 DEF CreateConnection, GateChecks
  <2> DEFINE b == [id |-> req[l].id, subject |-> req[l].subject, project |-> req[l].project]
             n == Len(info) + 1
  <2>2. b \in Binding /\ info' = Append(info, b)
    BY <1>3, <2>1 DEF CreateConnection, Request, Binding
  <2>3. Len(info') = n /\ info'[n] = b
    BY <2>2 DEF Shape
  <2>4. /\ own'[l] = n /\ pc'[l] = "insert" /\ req' = req /\ used' = used
        /\ \A m \in Lanes \ {l} : own'[m] = own[m] /\ pc'[m] = pc[m]
    BY <1>3, <2>3 DEF CreateConnection, Goto, Shape
  <2>5. n \notin used /\ n # None /\ \A m \in Lanes : own[m] # n
    <3>1. \A m \in Lanes : own[m] \in (1 .. Len(info)) \union {None}
      BY DEF OwnIsFresh
    <3> QED BY <1>1, <3>1 DEF NoncesKnown, None
  <2>6. info'[n].id = req[l].id /\ BoundLike(info'[n], req[l])
    BY <2>3 DEF BoundLike
  <2>7. n \in (1 .. Len(info')) \ used'
    BY <1>1, <2>3, <2>4, <2>5
  <2>8. /\ \A m \in Lanes : own'[m] # None <=> pc'[m] = "insert"
        /\ \A m \in Lanes : own'[m] # None =>
             /\ own'[m] \in (1 .. Len(info')) \ used'
             /\ info'[own'[m]].id = req'[m].id
             /\ BoundLike(info'[own'[m]], req'[m])
    <3> SUFFICES ASSUME NEW m \in Lanes
                 PROVE  /\ own'[m] # None <=> pc'[m] = "insert"
                        /\ own'[m] # None =>
                             /\ own'[m] \in (1 .. Len(info')) \ used'
                             /\ info'[own'[m]].id = req'[m].id
                             /\ BoundLike(info'[own'[m]], req'[m])
      OBVIOUS
    <3>1. CASE m = l
      BY <2>4, <2>5, <2>6, <2>7, <3>1
    <3>2. CASE m # l
      BY <1>1, <2>4, <3>2 DEF OwnIsFresh
    <3> QED BY <3>1, <3>2
  <2>9. \A k, m \in Lanes : own'[k] # None /\ own'[k] = own'[m] => k = m
    BY <2>4, <2>5 DEF OwnIsFresh
  <2> QED BY <2>8, <2>9 DEF OwnIsFresh, BoundLike
<1>4. ASSUME NEW l \in Lanes, Insert(l) PROVE OwnIsFresh'
  <2>1. /\ own'[l] = None /\ pc'[l] # "insert" /\ req' = req
        /\ used' \subseteq used \union {own[l]}
        /\ \A m \in Lanes \ {l} : own'[m] = own[m] /\ pc'[m] = pc[m]
    BY <1>4 DEF Insert, Goto, Shape
  <2>2. own[l] # None
    BY <1>4 DEF Insert, OwnIsFresh
  <2> QED BY <1>1, <2>1, <2>2 DEF OwnIsFresh, BoundLike
<1>5. ASSUME NEW l \in Lanes, prepare_request(l) PROVE OwnIsFresh'
  <2>1. own'[l] = None /\ pc'[l] # "insert" /\ used' = used
    BY <1>5 DEF prepare_request, Goto, Shape, OwnIsFresh, world
  <2>2. \A m \in Lanes \ {l} : own'[m] = own[m] /\ pc'[m] = pc[m] /\ req'[m] = req[m]
    BY <1>5 DEF prepare_request, Goto, Shape
  <2> QED BY <1>2, <2>1, <2>2
<1>6. ASSUME NEW l \in Lanes, ~ CreateConnection(l), ~ Insert(l), Continue(l)
      PROVE  OwnIsFresh'
  <2>1. own'[l] = None /\ pc'[l] # "insert"
    BY <1>6, LeaveType
       DEF get_by_id, check_project_view, FastPath, AcquirePermit, CreationFails,
           Verify, CheckNonce, Finish, close_session, Continue, Goto, Shape, OwnIsFresh
  <2>2. \A m \in Lanes \ {l} : own'[m] = own[m] /\ pc'[m] = pc[m] /\ req'[m] = req[m]
    BY <1>6, LeaveType
       DEF get_by_id, check_project_view, FastPath, AcquirePermit, CreationFails,
           Verify, CheckNonce, Finish, close_session, Continue, Goto, Shape
  <2>3. used' = used
    BY <1>6 DEF get_by_id, check_project_view, FastPath, AcquirePermit, CreationFails,
                Verify, CheckNonce, Finish, close_session, Continue, world
  <2> QED BY <1>2, <2>1, <2>2, <2>3
<1>7. CASE Restart
  BY <1>2, <1>7 DEF Restart
<1>8. ASSUME UNCHANGED <<lane, used>> PROVE OwnIsFresh'
  BY <1>2, <1>8 DEF lane
<1>9. ASSUME \/ \E l \in Lanes : touch(l)
             \/ \E s \in Ids : TimePasses(s)
             \/ cleanup_idle_sessions \/ UNCHANGED vars
      PROVE  OwnIsFresh'
  BY <1>8, <1>9 DEF touch, TimePasses, cleanup_idle_sessions, vars, world
<1> QED BY <1>3, <1>4, <1>5, <1>6, <1>7, <1>9 DEF Next

\* Every step keeps what the stages of the gate have established.
LEMMA GateStep ==
    Shape /\ NoncesKnown /\ OwnIsFresh /\ GateChecks /\ [Next]_vars => GateChecks'
<1> SUFFICES ASSUME Shape, NoncesKnown, OwnIsFresh, GateChecks, [Next]_vars, NEW m \in Lanes
             PROVE  /\ pc'[m] # "idle" => req'[m] \in Request
                    /\ pc'[m] \in {"verify", "nonce", "run"} =>
                          session'[m] # None /\ info'[session'[m]].id = req'[m].id
                    /\ Duckvis /\ pc'[m] \in {"nonce", "run"} =>
                          Admits(info'[session'[m]], req'[m])
                    /\ pc'[m] = "run" => NonceMatches(req'[m], session'[m])
  BY DEF GateChecks, Admits, NonceMatches
<1> DEFINE Checked == /\ pc'[m] # "idle" => req'[m] \in Request
                      /\ pc'[m] \in {"verify", "nonce", "run"} =>
                            session'[m] # None /\ info'[session'[m]].id = req'[m].id
                      /\ Duckvis /\ pc'[m] \in {"nonce", "run"} =>
                            Admits(info'[session'[m]], req'[m])
                      /\ pc'[m] = "run" => NonceMatches(req'[m], session'[m])
<1>1. /\ Len(info) \in Nat
      /\ \A n \in 1 .. Len(info) : info'[n] = info[n]
      /\ session[m] # None => session[m] \in 1 .. Len(info)
  BY SMTT(30), InfoGrows DEF Shape, NoncesKnown
<1>2. ASSUME pc'[m] = pc[m], req'[m] = req[m], session'[m] = session[m] PROVE Checked
  BY <1>1, <1>2 DEF GateChecks
<1>3. CASE pc'[m] = "idle"
  BY <1>3
\* A lane that only waits for the next step of the gate.
<1>4. CASE req'[m] \in Request /\ pc'[m] \notin {"verify", "nonce", "run"}
  BY <1>4
<1>5. CASE Leave(m)
  BY <1>3, <1>5, LeaveType
<1>6. CASE prepare_request(m)
  BY <1>4, <1>6 DEF prepare_request, Goto, Shape
<1>7. CASE get_by_id(m)
  <2>1. req[m] \in Request /\ req[m].id \in Ids
    BY <1>7 DEF get_by_id, GateChecks, Request
  <2> DEFINE n == sessions[req[m].id]
  <2>2. CASE /\ n # None /\ Admits(info[n], req[m]) /\ session'[m] = n
             /\ pc'[m] = "nonce" /\ req' = req
    <3>1. n \in 1 .. Len(info) /\ info[n].id = req[m].id
      BY <2>1, <2>2 DEF NoncesKnown
    <3> QED BY <1>1, <2>1, <2>2, <3>1
  <2>3. CASE pc'[m] = "authz" /\ req' = req
    BY <1>4, <2>1, <2>3
  <2> QED BY <1>5, <1>7, <2>2, <2>3 DEF get_by_id, Goto, Shape
<1>8. CASE check_project_view(m)
  <2>1. req[m] \in Request
    BY <1>8 DEF check_project_view, GateChecks
  <2> QED BY <1>4, <1>5, <1>8, <2>1 DEF check_project_view, Goto, Shape
<1>9. CASE FastPath(m)
  <2>1. req[m] \in Request /\ req[m].id \in Ids
    BY <1>9 DEF FastPath, GateChecks, Request
  <2> DEFINE n == sessions[req[m].id]
  <2>2. CASE n # None /\ session'[m] = n /\ pc'[m] = "verify" /\ req' = req
    <3>1. n \in 1 .. Len(info) /\ info[n].id = req[m].id
      BY <2>1, <2>2 DEF NoncesKnown
    <3> QED BY <1>1, <2>1, <2>2, <3>1
  <2>3. CASE pc'[m] = "permit" /\ req' = req
    BY <1>4, <2>1, <2>3
  <2> QED BY <1>9, <2>2, <2>3 DEF FastPath, Goto, Shape
<1>10. CASE AcquirePermit(m)
  <2>1. req[m] \in Request
    BY <1>10 DEF AcquirePermit, GateChecks
  <2> QED BY <1>4, <1>5, <1>10, <2>1 DEF AcquirePermit, Goto, Shape
<1>11. CASE CreateConnection(m)
  <2>1. req[m] \in Request
    BY <1>11 DEF CreateConnection, GateChecks
  <2> QED BY <1>4, <1>11, <2>1 DEF CreateConnection, Goto, Shape
<1>12. CASE Insert(m)
  <2>1. req[m] \in Request /\ req[m].id \in Ids /\ req' = req /\ info' = info
    BY <1>12 DEF Insert, GateChecks, Request
  <2>2. CASE Occupied(req[m].id)
    <3>1. /\ session'[m] = sessions[req[m].id] /\ session'[m] # None /\ pc'[m] = "verify"
      BY <1>12, <2>2 DEF Insert, Occupied, Goto, Shape
    <3> QED BY <2>1, <3>1 DEF NoncesKnown
  <2>3. CASE ~ Occupied(req[m].id)
    <3>1. session'[m] = own[m] /\ pc'[m] = "nonce" /\ own[m] # None
      BY <1>12, <2>3 DEF Insert, Goto, Shape, OwnIsFresh
    <3>2. info[own[m]].id = req[m].id /\ BoundLike(info[own[m]], req[m])
      BY <3>1 DEF OwnIsFresh
    <3> QED BY <2>1, <3>1, <3>2 DEF BoundLike, Admits
  <2> QED BY <2>2, <2>3
<1>13. CASE Verify(m)
  <2>1. /\ req[m] \in Request /\ session[m] # None /\ info[session[m]].id = req[m].id
        /\ info' = info
    BY <1>13 DEF Verify, GateChecks, world
  <2>2. CASE /\ Duckvis => BoundLike(info[session[m]], req[m])
             /\ pc'[m] = "nonce" /\ req' = req /\ session' = session
    BY <2>1, <2>2 DEF BoundLike, Admits
  <2> QED BY <1>5, <1>13, <2>2 DEF Verify, Goto, Shape
<1>14. CASE CheckNonce(m)
  <2>1. /\ req[m] \in Request /\ session[m] # None /\ info[session[m]].id = req[m].id
        /\ Duckvis => Admits(info[session[m]], req[m])
        /\ info' = info
    BY <1>14 DEF CheckNonce, GateChecks, world
  <2>2. CASE /\ NonceMatches(req[m], session[m])
             /\ pc'[m] = "run" /\ req' = req /\ session' = session
    BY <2>1, <2>2
  <2> QED BY <1>5, <1>14, <2>2 DEF CheckNonce, Goto, Shape
<1>15. CASE CreationFails(m) \/ Finish(m) \/ close_session(m)
  BY <1>5, <1>15 DEF CreationFails, Finish, close_session
<1>16. CASE touch(m)
  BY <1>2, <1>16 DEF touch, lane
<1>17. ASSUME NEW l \in Lanes \ {m}, prepare_request(l) \/ Continue(l) \/ touch(l)
       PROVE  Checked
  <2>1. pc'[m] = pc[m] /\ req'[m] = req[m] /\ session'[m] = session[m]
    BY <1>17, LeaveType
       DEF prepare_request, get_by_id, check_project_view, FastPath, AcquirePermit,
           CreateConnection, CreationFails, Insert, Verify, CheckNonce, Finish,
           close_session, touch, Continue, lane, Goto, Shape
  <2> QED BY <1>2, <2>1
<1>18. CASE Restart
  BY <1>3, <1>18 DEF Restart
<1>19. CASE (\E s \in Ids : TimePasses(s)) \/ cleanup_idle_sessions \/ UNCHANGED vars
  BY <1>2, <1>19 DEF TimePasses, cleanup_idle_sessions, vars, lane
<1> QED BY <1>6, <1>7, <1>8, <1>9, <1>10, <1>11, <1>12, <1>13, <1>14, <1>15, <1>16, <1>17,
           <1>18, <1>19 DEF Next, Continue

--------------------------------------------------------------------------------
(* The theorems. *)

\* The invariant holds of the empty registry.
LEMMA InductiveInit == Init => IInv
<1> SUFFICES ASSUME Init PROVE IInv
  OBVIOUS
<1>1. Shape /\ NoncesKnown /\ OwnIsFresh /\ GateChecks
  BY BoundsAssumption
     DEF Init, Shape, NoncesKnown, OwnIsFresh, GateChecks, PcStates, None
<1>2. Registered = {} /\ PermitHolders = {}
  BY DEF Init, Registered, PermitHolders
<1>3. PermitsConserved
  BY <1>2, FS_EmptySet, BoundsAssumption DEF Init, PermitsConserved
<1> QED BY <1>1, <1>3 DEF IInv

\* The invariant holds in every state.
LEMMA Inductive == Spec => []IInv
<1>1. IInv /\ [Next]_vars => IInv'
  BY ShapeStep, PermitStep, NoncesStep, OwnStep, GateStep DEF IInv
<1> QED BY <1>1, InductiveInit, PTL DEF Spec

\* Every reachable state is well-typed; in particular the semaphore never holds
\* more permits than max_sessions.
THEOREM TypeCorrect == Spec => []TypeOK
<1>1. IInv => TypeOK
  BY PermitBound DEF IInv
<1> QED BY <1>1, Inductive, PTL

\* No interleaving of creations, failed creations, lost races, closes, evictions
\* and restarts leaks a permit of the registry or frees one twice.
THEOREM NoPermitLeak == Spec => []PermitsConserved
<1>1. IInv => PermitsConserved
  BY DEF IInv
<1> QED BY <1>1, Inductive, PTL

\* A request that passed the gate runs on a session of its own id and binding,
\* and on the incarnation it expects.
THEOREM AdmittedToOwnSession == Spec => []RunsOnOwnSession
<1>1. IInv => RunsOnOwnSession
  BY DEF IInv, GateChecks, RunsOnOwnSession, NonceMatches
<1> QED BY <1>1, Inductive, PTL

\* Only idleness, a close admitted to the same incarnation, or a restart takes a
\* session out of the registry, and nothing replaces one in place.
THEOREM StableEntries == Spec => EntryStability
<1>1. IInv /\ [Next]_vars =>
        [\A s \in Ids :
           sessions[s] # None /\ sessions'[s] # sessions[s] =>
             /\ sessions'[s] = None
             /\ \/ sessions[s] \in idle
                \/ restarts' # restarts
                \/ \E l \in Lanes : /\ pc[l] = "run" /\ req[l].action = "close_session"
                                    /\ session[l] = sessions[s]]_vars
  <2> SUFFICES ASSUME Shape, GateChecks, Next, NEW s \in Ids, sessions[s] # None,
                      sessions'[s] # sessions[s]
               PROVE  /\ sessions'[s] = None
                      /\ \/ sessions[s] \in idle
                         \/ restarts' # restarts
                         \/ \E l \in Lanes : /\ pc[l] = "run"
                                             /\ req[l].action = "close_session"
                                             /\ session[l] = sessions[s]
    BY DEF IInv
  <2>1. ASSUME NEW l \in Lanes, Insert(l) PROVE sessions'[s] = sessions[s]
    <3>1. req[l].id \in Ids
      BY <2>1 DEF Insert, GateChecks, Request
    <3> QED BY <2>1, <3>1 DEF Insert, Occupied, Shape
  <2>2. ASSUME NEW l \in Lanes, close_session(l)
        PROVE  /\ sessions'[s] = None /\ pc[l] = "run" /\ req[l].action = "close_session"
               /\ session[l] = sessions[s]
    <3>1. req[l].id \in Ids
      BY <2>2 DEF close_session, GateChecks, Request
    <3> QED BY <2>2, <3>1 DEF close_session, SameIncarnation, registry, Shape
  <2>3. CASE cleanup_idle_sessions
    BY <2>3 DEF cleanup_idle_sessions, Stale
  <2>4. CASE Restart
    BY <2>4 DEF Restart, Shape
  <2>5. ASSUME NEW l \in Lanes, ~ Insert(l), ~ close_session(l),
               prepare_request(l) \/ Continue(l) \/ touch(l)
        PROVE  sessions' = sessions
    BY <2>5 DEF prepare_request, get_by_id, check_project_view, FastPath, AcquirePermit,
                CreateConnection, CreationFails, Verify, CheckNonce, Finish, touch,
                Continue, registry
  <2>6. CASE \E x \in Ids : TimePasses(x)
    BY <2>6 DEF TimePasses, registry
  <2> QED BY <2>1, <2>2, <2>3, <2>4, <2>5, <2>6 DEF Next
<1> QED BY <1>1, Inductive, PTL DEF Spec, EntryStability

\* The registry implements the abstract directory: whatever the requests do, ids
\* map to at most one incarnation, never to one that was removed, and there are
\* never more than max_sessions of them.
THEOREM ImplementsDirectory == Spec => DirectorySpec
<1>1. Init => Directory!Init
  BY DEF Init, Directory!Init, None
<1>2. IInv /\ [Next]_vars => [Directory!Next]_<<sessions, used>>
  <2> SUFFICES ASSUME IInv, Next, ~ UNCHANGED <<sessions, used>>
               PROVE  Directory!Next
    BY DEF vars, registry, world
  <2> USE DEF IInv
  <2>1. ASSUME NEW l \in Lanes, Insert(l) PROVE Directory!Next
    <3>1. req[l].id \in Ids /\ own[l] \notin used /\ own[l] # None /\ own[l] \in Nonces
      BY <2>1 DEF Insert, GateChecks, Request, OwnIsFresh, Shape
    <3>2. ~ Occupied(req[l].id)
      BY <2>1 DEF Insert
    <3>3. Cardinality(Registered) < MaxSessions
      <4>1. l \in PermitHolders
        BY <2>1 DEF Insert, PermitHolders
      <4>2. Cardinality(PermitHolders) # 0
        BY <4>1, Finite, FS_EmptySet
      <4> QED BY <4>2, Finite, BoundsAssumption DEF PermitsConserved, Shape
    <3>4. Directory!Registered = Registered
      BY DEF Directory!Registered, Registered, None
    <3>5. /\ sessions[req[l].id] = 0
          /\ sessions' = [sessions EXCEPT ![req[l].id] = own[l]]
          /\ used' = used \union {own[l]}
      BY <2>1, <3>2 DEF Insert, Occupied, None
    <3>6. Directory!Cardinality(Directory!Registered) < MaxSessions
      <4>1. Directory!Cardinality(Registered) = Cardinality(Registered)
        BY DEF Cardinality, IsFiniteSet, Directory!Cardinality, Directory!IsFiniteSet
      <4> QED BY <3>3, <3>4, <4>1
    <3>7. Directory!Add(req[l].id, own[l])
      BY <3>1, <3>5, <3>6 DEF Directory!Add
    <3> QED BY <3>1, <3>7 DEF Directory!Next
  <2>2. ASSUME NEW gone \in SUBSET Registered, used' = used,
               sessions' = [s \in Ids |-> IF s \in gone THEN None ELSE sessions[s]]
        PROVE  Directory!Next
    <3>1. Directory!Registered = Registered
      BY DEF Directory!Registered, Registered, None
    <3> QED BY <2>2, <3>1 DEF Directory!Next, Directory!Remove, None
  <2>3. ASSUME NEW l \in Lanes, close_session(l) PROVE Directory!Next
    <3>1. req[l].id \in Ids /\ used' = used
      BY <2>3 DEF close_session, GateChecks, Request, world
    <3>2. SameIncarnation(req[l].id, session[l])
      BY <2>3, <3>1 DEF close_session, registry
    <3>3. {req[l].id} \in SUBSET Registered
      BY <2>3, <3>1, <3>2 DEF close_session, SameIncarnation, GateChecks, Registered
    <3>4. sessions' = [s \in Ids |-> IF s \in {req[l].id} THEN None ELSE sessions[s]]
      BY <2>3, <3>2 DEF close_session, Shape
    <3> QED BY <2>2, <3>1, <3>3, <3>4
  <2>4. CASE cleanup_idle_sessions
    BY <2>2, <2>4 DEF cleanup_idle_sessions, Stale, world
  <2>5. CASE Restart
    <3>1. sessions' = [s \in Ids |-> IF s \in Registered THEN None ELSE sessions[s]]
      BY <2>5 DEF Restart, Registered
    <3> QED BY <2>2, <2>5, <3>1 DEF Restart
  <2>6. ASSUME NEW l \in Lanes, ~ Insert(l), ~ close_session(l),
               prepare_request(l) \/ Continue(l) \/ touch(l)
        PROVE  FALSE
    BY <2>6 DEF prepare_request, get_by_id, check_project_view, FastPath, AcquirePermit,
                CreateConnection, CreationFails, Verify, CheckNonce, Finish, touch,
                Continue, registry, world
  <2>7. CASE \E s \in Ids : TimePasses(s)
    BY <2>7 DEF TimePasses, registry
  <2> QED BY <2>1, <2>3, <2>4, <2>5, <2>6, <2>7 DEF Next
<1> QED BY <1>1, <1>2, Inductive, PTL DEF Spec, DirectorySpec, Directory!Spec
================================================================================
