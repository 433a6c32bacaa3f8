---------------------------- MODULE SessionRegistry ----------------------------
(***************************************************************************)
(* The session registry (swanlake-core/src/session/registry.rs) and the    *)
(* request gate in front of it (prepare_request and                        *)
(* prepare_request_duckvis in swanlake-core/src/service/mod.rs).           *)
(*                                                                         *)
(* A Lane is an RPC being served.  Every read lock, write lock, semaphore  *)
(* call and await of its path through the gate is a step of its own, so    *)
(* that the checks of one request interleave with the creation, the close  *)
(* and the idle eviction of others.  An incarnation of a session is named  *)
(* by its nonce, a fresh uuid in the code and the next number here.        *)
(***************************************************************************)
EXTENDS Integers, FiniteSets, Sequences

CONSTANTS
    Ids,              \* session ids (headers or peer addresses)
    Lanes,            \* requests in flight
    Subjects,         \* token subjects
    Projects,         \* projects a session may be bound to
    NoProject,        \* a request without the project header
    NoRequest,        \* the request of a lane that serves none
    Duckvis,          \* whether the server runs with duckvis authorization
    MaxSessions,      \* max_sessions
    MaxIncarnations,  \* bound: how many sessions are ever constructed
    MaxRestarts       \* bound: how often the server process restarts

ASSUME IdsAssumption == IsFiniteSet(Ids) /\ IsFiniteSet(Lanes)
ASSUME BoundsAssumption ==
    /\ MaxSessions \in Nat /\ MaxIncarnations \in Nat /\ MaxRestarts \in Nat
ASSUME ModeAssumption == Duckvis \in BOOLEAN /\ NoProject \notin Projects

None == 0
Nonces == 1 .. MaxIncarnations

VARIABLES
    sessions,          \* sessions[s]: the nonce of the registered session, or None
    session_permits,   \* permits left in the semaphore
    pc,                \* where each request is
    req,               \* the request: id, subject, project, expected nonce, action
    session,           \* the session a request has been given (an Arc), or None
    own,               \* the session a request has constructed and not registered
    idle,              \* registered sessions whose idle_duration exceeds session_timeout
    restarts,          \* how often the process restarted
    info,              \* info[n]: the id and the binding session n was constructed with
    used               \* history: nonces that were registered

registry == <<sessions, session_permits>>
lane == <<pc, req, session, own>>
world == <<idle, restarts, info, used>>
vars == <<registry, lane, world>>

PcStates == {"idle", "lookup", "authz", "get", "permit", "create", "insert",
             "verify", "nonce", "run"}
Request == [id : Ids, subject : Subjects, project : Projects \union {NoProject},
            expect : Nonces \union {None}, action : {"statement", "close_session"}]
Binding == [id : Ids, subject : Subjects, project : Projects \union {NoProject}]

Registered == {s \in Ids : sessions[s] # None}
\* Requests that hold a permit which no registry entry owns yet.
PermitHolders == {l \in Lanes : pc[l] \in {"create", "insert"}}

Init ==
    /\ sessions = [s \in Ids |-> None]
    /\ session_permits = MaxSessions
    /\ pc = [l \in Lanes |-> "idle"]
    /\ req = [l \in Lanes |-> NoRequest]
    /\ session = [l \in Lanes |-> None]
    /\ own = [l \in Lanes |-> None]
    /\ idle = {} /\ restarts = 0 /\ info = <<>> /\ used = {}

--------------------------------------------------------------------------------
(* The gate. *)

Goto(l, where) == pc' = [pc EXCEPT ![l] = where]

\* The request is answered, or its future is dropped, and lets go of its session.
Leave(l) ==
    /\ Goto(l, "idle")
    /\ req' = [req EXCEPT ![l] = NoRequest]
    /\ session' = [session EXCEPT ![l] = None]
    /\ own' = [own EXCEPT ![l] = None]

\* A request arrives.  The expected nonce is one that session_info reported for
\* the id at some time.
prepare_request(l) ==
    /\ pc[l] = "idle"
    /\ \E r \in Request :
          /\ r.expect # None => r.expect \in used /\ info[r.expect].id = r.id
          /\ req' = [req EXCEPT ![l] = r]
    /\ Goto(l, IF Duckvis THEN "lookup" ELSE "get")
    /\ UNCHANGED <<registry, session, own, world>>

\* The caller may use a session bound like that.
Admits(binding, r) ==
    /\ binding.subject = r.subject
    /\ r.project \in {NoProject, binding.project}

\* prepare_request_duckvis, steps (2) and (3): a registered session is matched
\* against the caller; without one, a caller that expects a session is told that
\* it is lost, before any authorization question is asked.
get_by_id(l) ==
    /\ pc[l] = "lookup"
    /\ UNCHANGED <<registry, world>>
    /\ LET n == sessions[req[l].id] IN
       \/ /\ n # None /\ Admits(info[n], req[l])
          /\ session' = [session EXCEPT ![l] = n]
          /\ Goto(l, "nonce")
          /\ UNCHANGED <<req, own>>
       \/ /\ n # None /\ ~ Admits(info[n], req[l])
          /\ Leave(l)
       \/ /\ n = None /\ req[l].expect = None /\ req[l].project # NoProject
          /\ Goto(l, "authz")
          /\ UNCHANGED <<req, session, own>>
       \/ /\ n = None /\ (req[l].expect # None \/ req[l].project = NoProject)
          /\ Leave(l)

\* Step (4): the authorization service is asked; it may refuse or be unavailable.
check_project_view(l) ==
    /\ pc[l] = "authz"
    /\ \/ Goto(l, "get") /\ UNCHANGED <<req, session, own>>
       \/ Leave(l)
    /\ UNCHANGED <<registry, world>>

\* get_or_create_by_id_with_auth: the fast path under the read lock ...
FastPath(l) ==
    /\ pc[l] = "get"
    /\ \/ /\ sessions[req[l].id] # None
          /\ session' = [session EXCEPT ![l] = sessions[req[l].id]]
          /\ Goto(l, "verify")
       \/ /\ sessions[req[l].id] = None
          /\ Goto(l, "permit")
          /\ UNCHANGED session
    /\ UNCHANGED <<registry, req, own, world>>

HasPermit == session_permits > 0

\* ... a permit, or MaxSessionsReached ...
AcquirePermit(l) ==
    /\ pc[l] = "permit"
    /\ \/ /\ HasPermit
          /\ session_permits' = session_permits - 1
          /\ Goto(l, "create")
          /\ UNCHANGED <<req, session, own>>
       \/ /\ ~ HasPermit
          /\ Leave(l)
          /\ UNCHANGED session_permits
    /\ UNCHANGED <<sessions, world>>

\* ... a new connection and the session around it, with a fresh nonce and the
\* caller's binding ...
CreateConnection(l) ==
    /\ pc[l] = "create" /\ Len(info) < MaxIncarnations
    /\ info' = Append(info, [id |-> req[l].id, subject |-> req[l].subject,
                             project |-> req[l].project])
    /\ own' = [own EXCEPT ![l] = Len(info')]
    /\ Goto(l, "insert")
    /\ UNCHANGED <<registry, req, session, idle, restarts, used>>

\* Mutant of ReturnPermit: the permit of a failed creation is not given back.
ForgetPermit(permits) == permits
ReturnPermit(permits) == permits + 1

\* ... unless the connection cannot be created, or the client goes away while it
\* is: the future is dropped and the permit with it.
CreationFails(l) ==
    /\ pc[l] = "create"
    /\ session_permits' = ReturnPermit(session_permits)
    /\ Leave(l)
    /\ UNCHANGED <<sessions, world>>

\* Mutant of Occupied: the registration does not look again.
NeverOccupied(s) == FALSE
Occupied(s) == sessions[s] # None

\* ... and the registration under the write lock, which looks again: if another
\* request has registered a session meanwhile, that one is used and the new one
\* is dropped with its permit.  A session created for this very request needs no
\* re-verification.
Insert(l) ==
    /\ pc[l] = "insert"
    /\ LET s == req[l].id IN
       \/ /\ Occupied(s)
          /\ session' = [session EXCEPT ![l] = sessions[s]]
          /\ session_permits' = session_permits + 1
          /\ Goto(l, "verify")
          /\ UNCHANGED <<sessions, used>>
       \/ /\ ~ Occupied(s)
          /\ session' = [session EXCEPT ![l] = own[l]]
          /\ sessions' = [sessions EXCEPT ![s] = own[l]]
          /\ used' = used \union {own[l]}
          /\ Goto(l, "nonce")
          /\ UNCHANGED session_permits
    /\ own' = [own EXCEPT ![l] = None]
    /\ UNCHANGED <<req, idle, restarts, info>>

\* Mutant of BoundLike: the re-verification is forgotten.
BoundAnyhow(binding, r) == TRUE
BoundLike(binding, r) == binding.subject = r.subject /\ binding.project = r.project

\* The end of prepare_request_duckvis: a session created by another request must
\* carry the binding this one asked for.  The bindings also compare the writer
\* flag, which each request has asked the authorization service for at its own
\* time, so that equal subjects and projects do not suffice.
Verify(l) ==
    /\ pc[l] = "verify"
    /\ \/ /\ Duckvis => BoundLike(info[session[l]], req[l])
          /\ Goto(l, "nonce")
          /\ UNCHANGED <<req, session, own>>
       \/ /\ Duckvis
          /\ Leave(l)
    /\ UNCHANGED <<registry, world>>

NonceMatches(r, n) == r.expect \in {None, n}

\* The end of prepare_request: the expected nonce.
CheckNonce(l) ==
    /\ pc[l] = "nonce"
    /\ \/ NonceMatches(req[l], session[l]) /\ Goto(l, "run") /\ UNCHANGED <<req, session, own>>
       \/ ~ NonceMatches(req[l], session[l]) /\ Leave(l)
    /\ UNCHANGED <<registry, world>>

\* The handler runs on its session; every statement of it updates last_activity.
touch(l) ==
    /\ pc[l] = "run"
    /\ session[l] \in idle
    /\ idle' = idle \ {session[l]}
    /\ UNCHANGED <<registry, lane, restarts, info, used>>

\* A handler other than close_session ends; the Arc is dropped.
Finish(l) ==
    /\ pc[l] = "run" /\ req[l].action = "statement"
    /\ Leave(l)
    /\ UNCHANGED <<registry, world>>

\* Mutant of SameIncarnation: remove goes by the id alone.
AnyIncarnation(s, n) == sessions[s] # None
SameIncarnation(s, n) == sessions[s] = n

\* do_action_close_session: registry.remove with the id and the nonce of the
\* session the request was admitted to.
close_session(l) ==
    /\ pc[l] = "run" /\ req[l].action = "close_session"
    /\ LET s == req[l].id IN
       \/ /\ SameIncarnation(s, session[l])
          /\ sessions' = [sessions EXCEPT ![s] = None]
          /\ session_permits' = session_permits + 1
          /\ idle' = idle \ {sessions[s]}
       \/ /\ ~ SameIncarnation(s, session[l])
          /\ UNCHANGED <<registry, idle>>
    /\ Leave(l)
    /\ UNCHANGED <<restarts, info, used>>

--------------------------------------------------------------------------------
(* Time, the janitor and the process. *)

\* A registered session has not been touched for longer than session_timeout.
TimePasses(s) ==
    /\ sessions[s] \notin {None} \union idle
    /\ idle' = idle \union {sessions[s]}
    /\ UNCHANGED <<registry, lane, restarts, info, used>>

Stale == {s \in Registered : sessions[s] \in idle}

\* The janitor drops every idle entry under one write lock, whether or not a
\* request still uses the session.
cleanup_idle_sessions ==
    /\ Stale # {}
    /\ sessions' = [s \in Ids |-> IF s \in Stale THEN None ELSE sessions[s]]
    /\ session_permits' = session_permits + Cardinality(Stale)
    /\ idle' = idle \ {sessions[s] : s \in Stale}
    /\ UNCHANGED <<lane, restarts, info, used>>

\* The process ends and starts again: nothing of the registry is persistent.
Restart ==
    /\ restarts < MaxRestarts
    /\ restarts' = restarts + 1
    /\ sessions' = [s \in Ids |-> None]
    /\ session_permits' = MaxSessions
    /\ pc' = [l \in Lanes |-> "idle"]
    /\ req' = [l \in Lanes |-> NoRequest]
    /\ session' = [l \in Lanes |-> None]
    /\ own' = [l \in Lanes |-> None]
    /\ idle' = {}
    /\ UNCHANGED <<info, used>>

\* The steps of an admitted request that the server takes by itself.
Continue(l) ==
    \/ get_by_id(l) \/ check_project_view(l) \/ FastPath(l) \/ AcquirePermit(l)
    \/ CreateConnection(l) \/ CreationFails(l) \/ Insert(l) \/ Verify(l)
    \/ CheckNonce(l) \/ Finish(l) \/ close_session(l)

Next ==
    \/ \E l \in Lanes : prepare_request(l) \/ Continue(l) \/ touch(l)
    \/ \E s \in Ids : TimePasses(s)
    \/ cleanup_idle_sessions
    \/ Restart

Spec == Init /\ [][Next]_vars

--------------------------------------------------------------------------------
(* Properties. *)

\* Type invariant.
TypeOK ==
    /\ sessions \in [Ids -> Nonces \union {None}]
    /\ session_permits \in 0 .. MaxSessions
    /\ pc \in [Lanes -> PcStates]
    /\ req \in [Lanes -> Request \union {NoRequest}]
    /\ session \in [Lanes -> Nonces \union {None}]
    /\ own \in [Lanes -> Nonces \union {None}]
    /\ idle \subseteq Nonces /\ used \subseteq Nonces
    /\ restarts \in 0 .. MaxRestarts
    /\ info \in Seq(Binding) /\ Len(info) <= MaxIncarnations

\* Permits are conserved: each is in the semaphore, owned by a registered
\* session, or held by a request that is creating one.  No failed creation, lost
\* race, close or eviction leaks a permit or frees it twice.
PermitsConserved ==
    session_permits + Cardinality(Registered) + Cardinality(PermitHolders) = MaxSessions

\* A request runs on the session of its own id, bound to its own subject and, if
\* it names one, project, and on no other incarnation than the one it expects,
\* whatever was created, closed, evicted or restarted while it was at the gate.
RunsOnOwnSession ==
    \A l \in Lanes :
        pc[l] = "run" =>
            /\ info[session[l]].id = req[l].id
            /\ Duckvis => Admits(info[session[l]], req[l])
            /\ req[l].expect \in {None, session[l]}

\* An entry of the registry goes away only when its session is idle, when a close
\* request that was admitted to that very incarnation removes it, or with the
\* process; and no entry is replaced by another in one step.
EntryStability ==
    [][\A s \in Ids :
          sessions[s] # None /\ sessions'[s] # sessions[s] =>
              /\ sessions'[s] = None
              /\ \/ sessions[s] \in idle
                 \/ restarts' # restarts
                 \/ \E l \in Lanes : /\ pc[l] = "run" /\ req[l].action = "close_session"
                                     /\ session[l] = sessions[s]]_vars

\* The abstract directory, with the permits and the requests hidden.
Directory == INSTANCE SessionDirectory WITH directory <- sessions
DirectorySpec == Directory!Spec
================================================================================
