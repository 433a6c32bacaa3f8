-------------------------- MODULE GuardedExecution --------------------------
(***************************************************************************)
(* What a loader may conclude about a statement it sent: the execution     *)
(* identity of a server process (execution_identity.rs, main.rs), and the  *)
(* actions "execution_identity" and "execute_guarded" (handlers/action.rs) *)
(* with the register of active request ids (session/mod.rs).               *)
(*                                                                         *)
(* A process is one start of the server; its generation is its name.  With *)
(* an owner path it locks a file before it serves and holds the lock until *)
(* the operating system ends it.  Requests travel on their own: one may be *)
(* delivered late, and to a process other than the one it was meant for.   *)
(* The session behind a request, the interrupt and the SQL itself belong   *)
(* to other modules.                                                       *)
(***************************************************************************)
EXTENDS Naturals, FiniteSets

CONSTANTS
    Processes,      \* the starts of the server
    Requests,       \* request ids of the loader
    Sends,          \* how often a request may be sent: a set of names
    NoProcess,      \* no process, no owner (null), an empty owner file
    Damaged         \* an owner file that holds part of an owner

ASSUME NamesAssumption == NoProcess \notin Processes /\ Damaged \notin Processes \cup {NoProcess}

VARIABLES
    configured,     \* SWANLAKE_EXECUTION_OWNER_PATH is set
    proc,           \* process -> where it is
    lockedBy,       \* who holds the lock of the owner file
    file,           \* the file's text, as processes read it: who wrote it
    disk,           \* ... and as it survives a failure of the machine
    owner,          \* process -> the owner it serves
    known,          \* the identity the loader was last told
    call,           \* call -> where the server's side of it is
    meant,          \* call -> the identity it was sent for
    reply,          \* call -> what the loader has of it
    concluded       \* requests the loader holds to be over, by a replacement

vars == <<configured, proc, lockedBy, file, disk, owner, known, call, meant, reply, concluded>>
processVars == <<configured, proc, lockedBy, file, disk, owner>>
clientVars == <<known, meant, concluded>>

Calls == Requests \X Sends
Nowhere == [at |-> "unsent", by |-> NoProcess]
NoIdentity == [owner |-> NoProcess, generation |-> NoProcess]

Init ==
    /\ configured \in BOOLEAN
    /\ proc = [p \in Processes |-> "unborn"]
    /\ lockedBy = NoProcess /\ file = NoProcess /\ disk = NoProcess
    /\ owner = [p \in Processes |-> NoProcess]
    /\ known = NoIdentity
    /\ call = [c \in Calls |-> Nowhere]
    /\ meant = [c \in Calls |-> NoIdentity]
    /\ reply = [c \in Calls |-> "none"]
    /\ concluded = {}

Live == {"locked", "writing", "written", "serving", "draining"}
Executing(c) == call[c].at = "executing"

(***************************************************************************)
(* A process starts: for_process and acquire.                              *)
(***************************************************************************)
Goto(p, state) == proc' = [proc EXCEPT ![p] = state]

\* The operating system ends p: the lock is free, its statements are over.
Ended(ps) == [c \in Calls |-> IF Executing(c) /\ call[c].by \in ps
                              THEN [at |-> "over", by |-> call[c].by] ELSE call[c]]
Unlocked(ps) == IF lockedBy \in ps THEN NoProcess ELSE lockedBy

\* (mutant: the file is opened, not locked)
StartUnlocked(p) ==
    /\ proc[p] = "unborn"
    /\ IF configured THEN Goto(p, "locked") ELSE Goto(p, "serving")
    /\ UNCHANGED <<configured, lockedBy, file, disk, owner, call, reply, clientVars>>

for_process(p) ==
    /\ proc[p] = "unborn"
    /\ IF ~configured THEN Goto(p, "serving") /\ UNCHANGED lockedBy
       ELSE IF lockedBy = NoProcess THEN Goto(p, "locked") /\ lockedBy' = p
       ELSE Goto(p, "exited") /\ UNCHANGED lockedBy
    /\ UNCHANGED <<configured, file, disk, owner, call, reply, clientVars>>

\* The owner is read; an empty file gets one, a damaged one fails the start.
read_owner(p) ==
    /\ proc[p] = "locked"
    /\ IF file = NoProcess THEN Goto(p, "writing") /\ UNCHANGED <<owner, lockedBy>>
       ELSE IF file = Damaged
            THEN Goto(p, "exited") /\ lockedBy' = Unlocked({p}) /\ UNCHANGED owner
       ELSE Goto(p, "serving") /\ owner' = [owner EXCEPT ![p] = file] /\ UNCHANGED lockedBy
    /\ UNCHANGED <<configured, file, disk, call, reply, clientVars>>

\* write_all: all of the new owner, or part of it when the process ends there.
write_owner(p) ==
    /\ proc[p] = "writing"
    /\ \/ Goto(p, "written") /\ file' = p /\ UNCHANGED lockedBy
       \/ Goto(p, "exited") /\ file' = Damaged /\ lockedBy' = Unlocked({p})
    /\ UNCHANGED <<configured, disk, owner, call, reply, clientVars>>

\* sync_all of the file and of its directory; then the process serves.
sync_owner(p) ==
    /\ proc[p] = "written"
    /\ disk' = file
    /\ owner' = [owner EXCEPT ![p] = file]
    /\ Goto(p, "serving")
    /\ UNCHANGED <<configured, lockedBy, file, call, reply, clientVars>>

\* The async server stops; blocking SQL threads outlive it, and so does the lock.
Shutdown(p) ==
    /\ proc[p] = "serving"
    /\ Goto(p, "draining")
    /\ UNCHANGED <<configured, lockedBy, file, disk, owner, call, reply, clientVars>>

\* The process ends, whatever it was doing.
Exit(p) ==
    /\ proc[p] \in Live
    /\ Goto(p, "exited")
    /\ lockedBy' = Unlocked({p})
    /\ call' = Ended({p})
    /\ UNCHANGED <<configured, file, disk, owner, reply, clientVars>>

\* The machine fails: what was not synced may be gone, or gone in part.
PowerFailure ==
    LET ps == {p \in Processes : proc[p] \in Live} IN
    /\ ps # {}
    /\ proc' = [p \in Processes |-> IF p \in ps THEN "exited" ELSE proc[p]]
    /\ lockedBy' = NoProcess
    /\ call' = Ended(ps)
    /\ file' \in (IF file = disk THEN {disk} ELSE {disk, Damaged, file})
    /\ disk' = file'
    /\ UNCHANGED <<configured, owner, reply, clientVars>>

(***************************************************************************)
(* The loader and its calls.                                               *)
(***************************************************************************)
\* do_action_execution_identity
do_action_execution_identity(p) ==
    /\ proc[p] = "serving"
    /\ known' = [owner |-> owner[p], generation |-> p]
    /\ UNCHANGED <<processVars, call, meant, reply, concluded>>

\* A call is sent for the generation the loader knows; a request is sent again
\* only when nothing is known of its other calls any more.
Send(c) ==
    /\ known # NoIdentity
    /\ reply[c] = "none" /\ c[1] \notin concluded
    /\ \A d \in Calls : d[1] = c[1] => reply[d] \in {"none", "broken"}
    /\ call' = [call EXCEPT ![c] = [at |-> "net", by |-> NoProcess]]
    /\ meant' = [meant EXCEPT ![c] = known]
    /\ reply' = [reply EXCEPT ![c] = "waiting"]
    /\ UNCHANGED <<processVars, known, concluded>>

\* The envelope of c reaches the loader, if it still listens.
Envelope(c) == reply' = [reply EXCEPT ![c] = IF @ = "waiting" THEN "completed" ELSE @]

\* (mutant: the id is forgotten with the RPC)
ListenedId(p, r) == \E d \in Calls : d[1] = r /\ Executing(d) /\ call[d].by = p
                                                  /\ reply[d] = "waiting"

\* register_execution finds the id active: its request's Arc lives in the
\* blocking task even when the RPC of it has been dropped.
ActiveId(p, r) == \E d \in Calls : d[1] = r /\ Executing(d) /\ call[d].by = p

\* (mutant: the generation is not compared)
ExecuteAnyGeneration(p, c) ==
    /\ proc[p] = "serving" /\ call[c].at = "net"
    /\ IF ActiveId(p, c[1])
       THEN call' = [call EXCEPT ![c] = [at |-> "over", by |-> p]] /\ Envelope(c)
       ELSE call' = [call EXCEPT ![c] = [at |-> "executing", by |-> p]] /\ UNCHANGED reply
    /\ UNCHANGED <<processVars, clientVars>>

\* do_action_execute: the checks, then the statement goes to a blocking task; a
\* refused call is answered by its envelope at once.
do_action_execute(p, c) ==
    /\ proc[p] = "serving" /\ call[c].at = "net"
    /\ \/ /\ meant[c].generation = p /\ ~ActiveId(p, c[1])
          /\ call' = [call EXCEPT ![c] = [at |-> "executing", by |-> p]]
          /\ UNCHANGED reply
       \/ /\ call' = [call EXCEPT ![c] = [at |-> "over", by |-> p]]
          /\ Envelope(c)
    /\ UNCHANGED <<processVars, clientVars>>

\* The statement has returned, well or not; do_action_execute_guarded answers.
do_action_execute_guarded(p, c) ==
    /\ proc[p] \in {"serving", "draining"} /\ Executing(c) /\ call[c].by = p
    /\ call' = [call EXCEPT ![c].at = "over"]
    /\ Envelope(c)
    /\ UNCHANGED <<processVars, clientVars>>

\* The RPC breaks: CancelOnDrop asks for an interrupt, the statement goes on.
Disconnect(c) ==
    /\ reply[c] = "waiting"
    /\ reply' = [reply EXCEPT ![c] = "broken"]
    /\ UNCHANGED <<processVars, clientVars, call>>

\* "A different generation with the same owner proves that the previous process
\* exited" (handlers/README.md:64): the loader goes on with its recovery.
Conclude(r) ==
    /\ known.owner # NoProcess
    /\ \A c \in Calls : (c[1] = r /\ reply[c] # "none") =>
         /\ reply[c] = "broken"
         /\ meant[c].owner = known.owner /\ meant[c].generation # known.generation
    /\ \E c \in Calls : c[1] = r /\ reply[c] # "none"
    /\ concluded' = concluded \cup {r}
    /\ UNCHANGED <<processVars, known, call, meant, reply>>

Next ==
    \/ \E p \in Processes :
         \/ for_process(p) \/ read_owner(p) \/ write_owner(p) \/ sync_owner(p)
         \/ Shutdown(p) \/ Exit(p)
         \/ do_action_execution_identity(p)
         \/ \E c \in Calls : do_action_execute(p, c) \/ do_action_execute_guarded(p, c)
    \/ PowerFailure
    \/ \E c \in Calls : Send(c) \/ Disconnect(c)
    \/ \E r \in Requests : Conclude(r)

Spec == Init /\ [][Next]_vars

(***************************************************************************)
(* Properties.                                                             *)
(***************************************************************************)
\* Type invariant.
Owners == Processes \cup {NoProcess}
Identities == [owner : Owners, generation : Owners]
TypeOK ==
    /\ configured \in BOOLEAN
    /\ proc \in [Processes -> Live \cup {"unborn", "exited"}]
    /\ lockedBy \in Owners /\ file \in Owners \cup {Damaged} /\ disk \in Owners \cup {Damaged}
    /\ owner \in [Processes -> Owners]
    /\ known \in Identities
    /\ call \in [Calls -> [at : {"unsent", "net", "executing", "over"}, by : Owners]]
    /\ meant \in [Calls -> Identities]
    /\ reply \in [Calls -> {"none", "waiting", "completed", "broken"}]
    /\ concluded \subseteq Requests

\* "A different generation with the same owner proves that the previous process
\* exited": once the loader has concluded so, no statement of the request runs,
\* and none begins to, however late a call of it arrives.
ReplacementProvesTermination ==
    \A c \in Calls : c[1] \in concluded => ~Executing(c)

\* One session never runs two calls of one request id at once, also when the
\* first one's connection broke and its statement still runs.
OneActivePerId ==
    \A c, d \in Calls : (c # d /\ c[1] = d[1] /\ Executing(c) /\ Executing(d))
                           => call[c].by # call[d].by

\* One process at a time lives with an owner, so that a newer one that serves it
\* is a proof that the older has exited.  And an owner that its creator has synced
\* is never replaced, through crashes in the middle of its creation too.  (A
\* process that finds an owner another wrote and did not live to sync serves it
\* unsynced; only such an owner can be lost with the machine.)
Synced(p) == owner[p] # NoProcess /\ owner[owner[p]] = owner[p]
OneOwner ==
    \A p, q \in Processes :
        /\ (p # q /\ owner[p] # NoProcess /\ owner[q] # NoProcess)
              => proc[p] = "exited" \/ proc[q] = "exited"
        /\ Synced(p) /\ Synced(q) => owner[p] = owner[q]
=============================================================================
