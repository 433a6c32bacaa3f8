--------------------------- MODULE SessionLockdown ---------------------------
(***************************************************************************)
(* The engine lockdown of a duckvis session and the attachments it is      *)
(* armed with: Session::attach_catalog, ensure_lockdown and the two gates  *)
(* in front of every user statement (session/mod.rs), and the action       *)
(* "duckvis_attach" (handlers/action.rs).                                  *)
(*                                                                         *)
(* A session is armed first: each attached lake's data root is collected.  *)
(* Its first user statement freezes them into the engine's allowed         *)
(* directories.  Requests of one session run in any order and at once; the *)
(* mutex lockdown_state is held across the steps of an attachment and over *)
(* the lockdown's own statements.                                          *)
(***************************************************************************)
EXTENDS Naturals, FiniteSets

CONSTANTS
    Lanes,          \* requests that may be in progress at once
    Catalogs,       \* attachments of the session's project
    Roots,          \* data directories of lakes
    NoLane, NoRoot, \* null values
    MaxFaults,      \* bound: how often the engine or the disk fails a step
    MaxMoves,       \* bound: how often a lake's data moves
    MaxCalls        \* bound: how many requests the session gets

ASSUME LockdownNames == NoLane \notin Lanes /\ NoRoot \notin Roots

VARIABLES
    auth,           \* Session.auth: the session is a "reader" or a "writer"
    state,          \* LockdownState: applied, roots
    holder,         \* who holds the mutex lockdown_state
    engine,         \* DuckDB's settings that the lockdown changes
    databases,      \* catalog -> the attached database, as the engine has it
    lake,           \* catalog -> where the lake's data is
    lane,           \* request -> what it is doing
    faults, moves, calls,
    unrooted        \* catalogs whose roots the session could not learn

ldVars == <<auth, state, holder, engine, databases, lake, lane, faults, moves, calls, unrooted>>

Detached == [root |-> NoRoot, read_only |-> FALSE]
Attached(c) == databases[c] # Detached
Idle == [at |-> "idle"]
confined == auth = "reader"

LdInit ==
    /\ auth \in {"reader", "writer"}
    /\ state = [applied |-> FALSE, roots |-> {}]
    /\ holder = NoLane
    /\ engine = [external |-> TRUE, allowed |-> {}, locked |-> FALSE]
    /\ databases = [c \in Catalogs |-> Detached]
    /\ lake \in [Catalogs -> Roots]
    /\ lane = [l \in Lanes |-> Idle]
    /\ faults = 0 /\ moves = 0 /\ calls = 0
    /\ unrooted = {}

Proceed(l, where) == lane' = [lane EXCEPT ![l].at = where]
Leave(l) == lane' = [lane EXCEPT ![l] = Idle]
Release(l) == holder' = NoLane /\ Leave(l)
Fault == faults < MaxFaults /\ faults' = faults + 1
Call == calls < MaxCalls /\ calls' = calls + 1

(***************************************************************************)
(* do_action_duckvis_attach.                                               *)
(***************************************************************************)
\* The attachment is resolved and its statement normalised: a non-writer's ends
\* in READ_ONLY, and it may or may not declare its DATA_PATH.
do_action_duckvis_attach(l, c) ==
    /\ lane[l] = Idle /\ Call
    /\ \E declared \in {lake[c], NoRoot} :
         lane' = [lane EXCEPT ![l] = [at |-> "resolved", catalog |-> c, data_path |-> declared,
                                      read_only |-> auth # "writer"]]
    /\ UNCHANGED <<auth, state, holder, engine, databases, lake, faults, moves, unrooted>>

\* (mutant: the mutex is held for the decision only)
DecideUnlocked(l) ==
    /\ lane[l].at = "resolved" /\ holder = NoLane
    /\ IF confined /\ state.applied /\ ~Attached(lane[l].catalog)
       THEN Leave(l) ELSE Proceed(l, "secrets")
    /\ UNCHANGED <<auth, state, holder, engine, databases, lake, faults, moves, calls, unrooted>>

\* The mutex is taken; a confined session adds no catalog any more.
attach_catalog(l) ==
    /\ lane[l].at = "resolved" /\ holder = NoLane
    /\ IF confined /\ state.applied /\ ~Attached(lane[l].catalog)
       THEN Leave(l) /\ UNCHANGED holder     \* AttachmentRequiresSessionRecreation
       ELSE Proceed(l, "secrets") /\ holder' = l
    /\ UNCHANGED <<auth, state, engine, databases, lake, faults, moves, calls, unrooted>>

\* The beside-secrets, then the ATTACH OR REPLACE: any of them may fail.
Attach(l) ==
    /\ lane[l].at = "secrets"
    /\ LET c == lane[l].catalog IN
       \/ Fault /\ Release(l) /\ UNCHANGED <<databases, state, unrooted>>
       \/ /\ databases' = [databases EXCEPT ![c] = [root |-> lake[c],
                                                    read_only |-> lane[l].read_only]]
          /\ IF confined /\ ~state.applied
             THEN /\ Proceed(l, "roots")
                  /\ state' = [state EXCEPT !.roots = @ \cup ({lane[l].data_path} \ {NoRoot})]
                  /\ UNCHANGED unrooted
             ELSE /\ Proceed(l, "search_path") /\ UNCHANGED state
                  /\ unrooted' = IF lake[c] = databases[c].root THEN unrooted
                                 ELSE unrooted \cup {c}
          /\ UNCHANGED <<holder, faults>>
    /\ UNCHANGED <<auth, engine, lake, moves, calls>>

\* The roots of an existing lake are in its metadata; a failed look-up is logged.
ducklake_data_roots(l) ==
    /\ lane[l].at = "roots"
    /\ LET c == lane[l].catalog IN
       \/ /\ state' = [state EXCEPT !.roots = @ \cup {databases[c].root}]
          /\ unrooted' = unrooted \ {c} /\ UNCHANGED faults
       \/ Fault /\ unrooted' = unrooted \cup {c} /\ UNCHANGED state
    /\ Proceed(l, "search_path")
    /\ UNCHANGED <<auth, holder, engine, databases, lake, moves, calls>>

\* SET search_path, when it was asked for; then the mutex is dropped.  What fails
\* here leaves the catalog attached and its roots collected.
set_search_path(l) ==
    /\ lane[l].at = "search_path"
    /\ Release(l)
    /\ UNCHANGED <<auth, state, engine, databases, lake, faults, moves, calls, unrooted>>

(***************************************************************************)
(* User statements: ensure_lockdown, then the engine.                      *)
(***************************************************************************)
UserStatement(l) ==
    /\ lane[l] = Idle /\ Call
    /\ lane' = [lane EXCEPT ![l] = [at |-> "gate"]]
    /\ UNCHANGED <<auth, state, holder, engine, databases, lake, faults, moves, unrooted>>

\* What the engine has after the first n of the block's settings.  The engine
\* refuses the block's directories once external access is off.
lockdown_sql(n) ==
    [external |-> engine.external /\ ~(confined /\ n >= 3),
     allowed  |-> IF confined /\ n >= 2 THEN state.roots ELSE engine.allowed,
     locked   |-> n >= 4]
Refused == confined /\ ~engine.external

\* (mutant: the lockdown counts as applied before its statements have run)
ApplyFirst(l) ==
    /\ lane[l].at = "gate" /\ holder = NoLane
    /\ \/ state.applied /\ Proceed(l, "run") /\ UNCHANGED <<state, engine, faults>>
       \/ /\ ~state.applied
          /\ state' = [state EXCEPT !.applied = TRUE]
          /\ \/ ~Refused /\ engine' = lockdown_sql(4) /\ Proceed(l, "run") /\ UNCHANGED faults
             \/ Leave(l) /\ Fault /\ UNCHANGED engine
    /\ UNCHANGED <<auth, holder, databases, lake, moves, calls, unrooted>>

\* Applied once: a block that fails part of the way is not applied, and the next
\* statement starts it over (scratch directory, then the settings in order).
ensure_lockdown(l) ==
    /\ lane[l].at = "gate" /\ holder = NoLane
    /\ \/ state.applied /\ Proceed(l, "run") /\ UNCHANGED <<state, engine, faults>>
       \/ /\ ~state.applied /\ ~Refused
          /\ engine' = lockdown_sql(4)
          /\ state' = [state EXCEPT !.applied = TRUE]
          /\ Proceed(l, "run") /\ UNCHANGED faults
       \/ /\ ~state.applied /\ ~Refused /\ Fault
          /\ \E n \in 0..3 : engine' = lockdown_sql(n)
          /\ Leave(l) /\ UNCHANGED state
       \/ ~state.applied /\ Refused /\ Leave(l) /\ UNCHANGED <<state, engine, faults>>
    /\ UNCHANGED <<auth, holder, databases, lake, moves, calls, unrooted>>

\* The statement runs.  DETACH is the one a user may run on attachments.
Run(l) ==
    /\ lane[l].at = "run"
    /\ \/ UNCHANGED <<databases, unrooted>>
       \/ \E c \in Catalogs :
            /\ Attached(c) /\ databases' = [databases EXCEPT ![c] = Detached]
            /\ unrooted' = unrooted \ {c}
    /\ Leave(l)
    /\ UNCHANGED <<auth, state, holder, engine, lake, faults, moves, calls>>

\* (external) the project's owner moves a lake; the attachment follows.
Move(c) ==
    /\ moves < MaxMoves /\ moves' = moves + 1
    /\ \E r \in Roots : r # lake[c] /\ lake' = [lake EXCEPT ![c] = r]
    /\ UNCHANGED <<auth, state, holder, engine, databases, lane, faults, calls, unrooted>>

\* The session's bounded life is over.
Done == calls = MaxCalls /\ (\A l \in Lanes : lane[l] = Idle) /\ UNCHANGED ldVars

LdNext ==
    \/ \E l \in Lanes :
         \/ \E c \in Catalogs : do_action_duckvis_attach(l, c)
         \/ attach_catalog(l) \/ Attach(l) \/ ducklake_data_roots(l) \/ set_search_path(l)
         \/ UserStatement(l) \/ ensure_lockdown(l) \/ Run(l)
    \/ \E c \in Catalogs : Move(c)
    \/ Done

LdSpec == LdInit /\ [][LdNext]_ldVars

(***************************************************************************)
(* Properties.                                                             *)
(***************************************************************************)
\* Type invariant.
LdTypeOK ==
    /\ auth \in {"reader", "writer"}
    /\ state \in [applied : BOOLEAN, roots : SUBSET Roots]
    /\ holder \in Lanes \cup {NoLane}
    /\ engine \in [external : BOOLEAN, allowed : SUBSET Roots, locked : BOOLEAN]
    /\ databases \in [Catalogs -> [root : Roots \cup {NoRoot}, read_only : BOOLEAN]]
    /\ lake \in [Catalogs -> Roots]
    /\ \A l \in Lanes : lane[l].at \in {"idle", "resolved", "secrets", "roots", "search_path",
                                        "gate", "run"}
    /\ unrooted \subseteq Catalogs

\* No user statement reaches an engine that is not locked down: however the
\* lockdown failed before and whoever ran it, the settings are locked, and a
\* reader's engine has no external access.
LockedBeforeUserSql ==
    \A l \in Lanes : lane[l].at = "run"
        => engine.locked /\ (confined => ~engine.external)

\* A lake a confined session has attached stays readable: its data lies in the
\* directories the lockdown froze, unless the look-up of its roots failed or the
\* lake moved after the lockdown (the session has to be created again then).
AttachedIsReadable ==
    (confined /\ engine.locked)
        => \A c \in Catalogs : Attached(c) /\ c \notin unrooted
                                 => databases[c].root \in engine.allowed

\* The mutex: who is between the decision to attach and its end holds it, so that
\* an attachment and the lockdown never overlap.
AttachHoldsLock ==
    \A l \in Lanes : lane[l].at \in {"secrets", "roots", "search_path"} => holder = l
=============================================================================
