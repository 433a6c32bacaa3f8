--------------------------- MODULE RequestCancellation ---------------------------
(***************************************************************************)
(* Cancellation of the requests that share the DuckDB connection of one    *)
(* session: swanlake-core/src/engine/cancellation.rs, the locked paths of  *)
(* engine/connection.rs, the response stream of service/streaming.rs and   *)
(* run_interruptible of service/mod.rs.                                    *)
(*                                                                         *)
(* Each request is served once by a blocking worker and watched by async   *)
(* tasks.  There are three kinds: an execute action ("guarded"), a         *)
(* streamed query ("stream") and DDL passed through get_flight_info        *)
(* ("passthrough"), which alone still uses run_interruptible.              *)
(***************************************************************************)
EXTENDS Integers, Sequences

CONSTANTS
    Requests,         \* the requests
    Kind,             \* Kind[r]: how request r is served
    NoOne,            \* the owner of an unlocked connection
    ChannelCapacity,  \* messages that fit between a stream's worker and its response
    MaxBatches        \* bound: how many batches a streamed query has

ASSUME KindAssumption == Kind \in [Requests -> {"guarded", "stream", "passthrough"}]
ASSUME NoOneAssumption == NoOne \notin Requests
ASSUME BoundsAssumption == ChannelCapacity \in Nat \ {0} /\ MaxBatches \in Nat

VARIABLES
    conn,        \* who holds the connection mutex
    flag,        \* the interrupt flag of the DuckDB connection
    pc,          \* where the worker of each request is
    outcome,     \* what came of the request's SQL
    alive,       \* the RPC future or response stream has not been dropped
    cancelled,   \* RequestCancellation: State.cancelled
    interrupt,   \* RequestCancellation: State.interrupt is Some
    canceller,   \* the task that cancel() spawns is looping
    monitor,     \* the monitor task of run_interruptible is waiting
    channel,     \* messages on their way to the response stream
    produced,    \* batches the worker has fetched
    received,    \* the final message the client of a stream has received, if any
    shutdown     \* how far the shutdown of the server is

worker == <<conn, pc, outcome, produced>>
cancellation == <<cancelled, interrupt, canceller>>
client == <<alive, channel, received>>
vars == <<worker, flag, cancellation, monitor, client, shutdown>>

PcStates == {"new", "setup", "handle", "wait", "locked", "plan", "planning", "ready",
             "checked", "running", "sending", "over", "disarmed", "report", "ended"}
Outcomes == {"none", "ok", "cancelled", "interrupted", "failed", "panicked", "abandoned"}
Messages == {"data", "done", "error"}

Cancellable(r) == Kind[r] # "passthrough"
\* The worker has DuckDB execute SQL of its request.
Executing(r) == pc[r] \in {"planning", "running", "sending"}

Init ==
    /\ conn = NoOne /\ flag = FALSE
    /\ pc = [r \in Requests |-> "new"]
    /\ outcome = [r \in Requests |-> "none"]
    /\ alive = [r \in Requests |-> TRUE]
    /\ cancelled = [r \in Requests |-> FALSE]
    /\ interrupt = [r \in Requests |-> FALSE]
    /\ canceller = [r \in Requests |-> FALSE]
    /\ monitor = [r \in Requests |-> FALSE]
    /\ channel = [r \in Requests |-> <<>>]
    /\ produced = [r \in Requests |-> 0]
    /\ received = [r \in Requests |-> "none"]
    /\ shutdown = "no"

Goto(r, where) == pc' = [pc EXCEPT ![r] = where]
\* The worker leaves DuckDB with the outcome of its SQL.
Conclude(r, result) == Goto(r, "over") /\ outcome' = [outcome EXCEPT ![r] = result]

--------------------------------------------------------------------------------
(* RequestCancellation. *)

\* cancel: the first call marks the request, and spawns a task that interrupts
\* the connection if the request is active on it.
cancel(r) ==
    /\ cancelled' = [cancelled EXCEPT ![r] = TRUE]
    /\ canceller' = IF cancelled[r] THEN canceller ELSE [canceller EXCEPT ![r] = interrupt[r]]
    /\ UNCHANGED interrupt

\* Mutant of Repeat: the task interrupts once.
OnlyOnce(r) == FALSE
Repeat(r) == interrupt[r]

\* One turn of that task, every 20 ms while the request is active.
interrupt_active(r) ==
    /\ canceller[r]
    /\ flag' = IF Repeat(r) \/ interrupt[r] THEN TRUE ELSE flag
    /\ canceller' = [canceller EXCEPT ![r] = Repeat(r)]
    /\ UNCHANGED <<worker, cancelled, interrupt, monitor, client, shutdown>>

\* The cancel_execution action names the request of an execute action; it finds
\* it as long as the worker lives.
cancel_execution(r) ==
    /\ Kind[r] = "guarded" /\ pc[r] \notin {"new", "ended"}
    /\ cancel(r)
    /\ UNCHANGED <<worker, flag, monitor, client, shutdown>>

--------------------------------------------------------------------------------
(* The worker. *)

Arrive(r) ==
    /\ pc[r] = "new"
    /\ Goto(r, CASE Kind[r] = "guarded" -> "wait"
                 [] Kind[r] = "stream" -> "setup"
                 [] Kind[r] = "passthrough" -> "handle")
    /\ UNCHANGED <<conn, outcome, produced, flag, cancellation, monitor, client, shutdown>>

\* execute_query_streaming first takes the connection for its handles, and looks
\* for a cancellation before it lets the query worker start.
Setup(r) ==
    /\ pc[r] = "setup" /\ conn = NoOne
    /\ IF cancelled[r]
       THEN Goto(r, "ended") /\ outcome' = [outcome EXCEPT ![r] = "cancelled"]
       ELSE Goto(r, "wait") /\ UNCHANGED outcome
    /\ UNCHANGED <<conn, produced, flag, cancellation, monitor, client, shutdown>>

\* A passthrough takes it for the interrupt handle, then spawns its monitor.
interrupt_handle(r) ==
    /\ pc[r] = "handle" /\ conn = NoOne
    /\ Goto(r, "wait")
    /\ monitor' = [monitor EXCEPT ![r] = TRUE]
    /\ UNCHANGED <<conn, outcome, produced, flag, cancellation, client, shutdown>>

\* The query worker of a stream looks again before it queues for the connection.
CheckBeforeLock(r) ==
    /\ pc[r] = "wait" /\ Kind[r] = "stream" /\ cancelled[r]
    /\ Goto(r, "report")
    /\ outcome' = [outcome EXCEPT ![r] = "cancelled"]
    /\ UNCHANGED <<conn, produced, flag, cancellation, monitor, client, shutdown>>

Lock(r) ==
    /\ pc[r] = "wait" /\ conn = NoOne
    /\ conn' = r
    /\ Goto(r, "locked")
    /\ UNCHANGED <<outcome, produced, flag, cancellation, monitor, client, shutdown>>

\* Mutant of Rejected: activate does not look whether the request is cancelled.
AlwaysAccepted(r) == FALSE
Rejected(r) == cancelled[r]

\* activate: a request cancelled in the queue gives the connection back.
activate(r) ==
    /\ pc[r] = "locked" /\ Cancellable(r)
    /\ \/ /\ Rejected(r)
          /\ conn' = NoOne
          /\ Goto(r, IF Kind[r] = "stream" THEN "report" ELSE "ended")
          /\ outcome' = [outcome EXCEPT ![r] = "cancelled"]
          /\ UNCHANGED interrupt
       \/ /\ ~ Rejected(r)
          /\ interrupt' = [interrupt EXCEPT ![r] = TRUE]
          /\ Goto(r, IF Kind[r] = "stream" THEN "plan" ELSE "ready")
          /\ UNCHANGED <<conn, outcome>>
    /\ UNCHANGED <<produced, flag, cancelled, canceller, monitor, client, shutdown>>

\* A passthrough executes without a RequestCancellation.
Unguarded(r) ==
    /\ pc[r] = "locked" /\ ~ Cancellable(r)
    /\ Goto(r, "checked")
    /\ UNCHANGED <<conn, outcome, produced, flag, cancellation, monitor, client, shutdown>>

\* DuckDB clears its interrupt flag when a statement starts.
Start(r) ==
    /\ \/ pc[r] = "plan" /\ Goto(r, "planning")
       \/ pc[r] = "checked" /\ Goto(r, "running")
    /\ flag' = FALSE
    /\ UNCHANGED <<conn, outcome, produced, cancellation, monitor, client, shutdown>>

Room(r) == Len(channel[r]) < ChannelCapacity

\* The schema of a streamed query is known before the query runs and is sent
\* ahead (as data, like a batch), unless binding fails or the response is gone.
Planned(r) ==
    /\ pc[r] = "planning"
    /\ \/ /\ alive[r] /\ Room(r)
          /\ channel' = [channel EXCEPT ![r] = Append(channel[r], "data")]
          /\ Goto(r, "ready")
          /\ UNCHANGED outcome
       \/ /\ ~ alive[r]
          /\ Conclude(r, "abandoned")
          /\ UNCHANGED channel
       \/ /\ Conclude(r, "failed")
          /\ UNCHANGED channel
    /\ UNCHANGED <<conn, produced, flag, cancellation, monitor, alive, received, shutdown>>

\* The last look before the statement, with the connection held.
check(r) ==
    /\ pc[r] = "ready"
    /\ \/ cancelled[r] /\ Conclude(r, "cancelled")
       \/ ~ cancelled[r] /\ Goto(r, "checked") /\ UNCHANGED outcome
    /\ UNCHANGED <<conn, produced, flag, cancellation, monitor, client, shutdown>>

\* The statement, or the query after its last batch, ends by itself.
Finish(r) ==
    /\ pc[r] = "running"
    /\ Conclude(r, "ok") \/ Conclude(r, "failed")
    /\ UNCHANGED <<conn, produced, flag, cancellation, monitor, client, shutdown>>

\* The next batch of a streamed query.
Fetch(r) ==
    /\ pc[r] = "running" /\ Kind[r] = "stream" /\ produced[r] < MaxBatches
    /\ produced' = [produced EXCEPT ![r] = produced[r] + 1]
    /\ Goto(r, "sending")
    /\ UNCHANGED <<conn, outcome, flag, cancellation, monitor, client, shutdown>>

\* blocking_send waits for room with the connection held, and fails when the
\* response has been dropped.
Send(r) ==
    /\ pc[r] = "sending"
    /\ \/ /\ alive[r] /\ Room(r)
          /\ channel' = [channel EXCEPT ![r] = Append(channel[r], "data")]
          /\ Goto(r, "running")
          /\ UNCHANGED outcome
       \/ /\ ~ alive[r]
          /\ Conclude(r, "abandoned")
          /\ UNCHANGED channel
    /\ UNCHANGED <<conn, produced, flag, cancellation, monitor, alive, received, shutdown>>

\* DuckDB notices its flag.
Interrupted(r) ==
    /\ pc[r] \in {"planning", "running"} /\ flag
    /\ Conclude(r, "interrupted")
    /\ UNCHANGED <<conn, produced, flag, cancellation, monitor, client, shutdown>>

\* The Arrow fetch of a streamed query panics on an interrupt instead of
\* returning it: the worker unwinds, which disarms the request, releases the
\* connection and drops its end of the channel with nothing reported.
Panic(r) ==
    /\ pc[r] = "running" /\ Kind[r] = "stream" /\ flag
    /\ conn' = NoOne
    /\ interrupt' = [interrupt EXCEPT ![r] = FALSE]
    /\ Goto(r, "ended")
    /\ outcome' = [outcome EXCEPT ![r] = "panicked"]
    /\ UNCHANGED <<produced, flag, cancelled, canceller, monitor, client, shutdown>>

\* Mutant of Disarmed: the guard outlives the lock.
StillArmed(r) == interrupt
Disarmed(r) == [interrupt EXCEPT ![r] = FALSE]

\* The ActiveQuery guard is dropped while the connection is still held.
drop_active(r) ==
    /\ pc[r] = "over"
    /\ interrupt' = Disarmed(r)
    /\ Goto(r, "disarmed")
    /\ UNCHANGED <<conn, outcome, produced, flag, cancelled, canceller, monitor, client, shutdown>>

\* What the caller is told: a cancellation hides success, and for a streamed
\* query any other error too.
Told(r) ==
    IF cancelled[r] /\ (outcome[r] = "ok" \/ Kind[r] = "stream")
    THEN "cancelled" ELSE outcome[r]

\* The last look for a cancellation and the release of the connection.
Unlock(r) ==
    /\ pc[r] = "disarmed"
    /\ conn' = NoOne
    /\ outcome' = [outcome EXCEPT ![r] = Told(r)]
    /\ Goto(r, IF Kind[r] = "stream" /\ Told(r) # "abandoned" THEN "report" ELSE "ended")
    /\ UNCHANGED <<produced, flag, cancellation, monitor, client, shutdown>>

\* Mutant of Final: an error of the worker is logged and not sent.
OnlyDone(r) == IF outcome[r] = "ok" THEN <<"done">> ELSE <<>>
Final(r) == IF outcome[r] = "ok" THEN <<"done">> ELSE <<"error">>

\* The final message of a streamed query, Done or Error.
Report(r) ==
    /\ pc[r] = "report"
    /\ \/ /\ alive[r] /\ Room(r)
          /\ channel' = [channel EXCEPT ![r] = channel[r] \o Final(r)]
       \/ /\ ~ alive[r]
          /\ UNCHANGED channel
    /\ Goto(r, "ended")
    /\ UNCHANGED <<conn, outcome, produced, flag, cancellation, monitor, alive, received, shutdown>>

--------------------------------------------------------------------------------
(* The async side. *)

\* The client of a stream takes the next message.
Receive(r) ==
    /\ alive[r] /\ channel[r] # <<>>
    /\ received' = IF Head(channel[r]) = "data" THEN received
                   ELSE [received EXCEPT ![r] = Head(channel[r])]
    /\ channel' = [channel EXCEPT ![r] = Tail(channel[r])]
    /\ UNCHANGED <<worker, flag, cancellation, monitor, alive, shutdown>>

\* The RPC future or the response is dropped: at its end, or because the client
\* went away.  CancelOnDrop cancels the request.  A passthrough is not dropped
\* while it blocks the runtime thread for its handle.
Drop(r) ==
    /\ alive[r] /\ pc[r] \notin {"new", "handle"}
    /\ alive' = [alive EXCEPT ![r] = FALSE]
    /\ channel' = [channel EXCEPT ![r] = <<>>]
    /\ IF Cancellable(r) THEN cancel(r) ELSE UNCHANGED cancellation
    /\ UNCHANGED <<worker, flag, monitor, received, shutdown>>

\* run_interruptible: its worker has ended and it tells the monitor so.
Complete(r) ==
    /\ monitor[r] /\ alive[r] /\ pc[r] = "ended"
    /\ monitor' = [monitor EXCEPT ![r] = FALSE]
    /\ UNCHANGED <<worker, flag, cancellation, client, shutdown>>

\* run_interruptible: the future was dropped before that, and the monitor
\* interrupts the connection, whoever holds it.
MonitorInterrupts(r) ==
    /\ monitor[r] /\ ~ alive[r]
    /\ monitor' = [monitor EXCEPT ![r] = FALSE]
    /\ flag' = TRUE
    /\ UNCHANGED <<worker, cancellation, client, shutdown>>

\* SIGTERM or SIGINT.
Terminate ==
    /\ shutdown = "no"
    /\ shutdown' = "asked"
    /\ UNCHANGED <<worker, flag, cancellation, monitor, client>>

\* interrupt_all, the first thing the signal handler does: it takes the connection
\* mutex for the handle ...
interrupt_all ==
    /\ shutdown = "asked" /\ conn = NoOne
    /\ shutdown' = "handle"
    /\ UNCHANGED <<worker, flag, cancellation, monitor, client>>

\* ... and interrupts, whoever holds the connection by then.
ShutdownInterrupt ==
    /\ shutdown = "handle"
    /\ shutdown' = "done"
    /\ flag' = TRUE
    /\ UNCHANGED <<worker, cancellation, monitor, client>>

\* What a worker does without waiting for DuckDB or for room in a channel that
\* nobody reads.
Work(r) ==
    \/ Arrive(r) \/ Setup(r) \/ interrupt_handle(r) \/ CheckBeforeLock(r) \/ Lock(r)
    \/ activate(r) \/ Unguarded(r) \/ Start(r) \/ check(r) \/ Send(r) \/ Interrupted(r) \/ Panic(r)
    \/ drop_active(r) \/ Unlock(r) \/ Report(r)

\* All requests have ended and nothing is left to do.
Quiescent ==
    /\ \A r \in Requests : pc[r] = "ended" /\ ~ alive[r] /\ ~ monitor[r] /\ ~ canceller[r]
    /\ UNCHANGED vars

Next ==
    \/ \E r \in Requests :
          \/ Work(r) \/ Planned(r) \/ Finish(r) \/ Fetch(r)
          \/ cancel_execution(r) \/ interrupt_active(r)
          \/ Receive(r) \/ Drop(r) \/ Complete(r) \/ MonitorInterrupts(r)
    \/ Terminate \/ interrupt_all \/ ShutdownInterrupt
    \/ Quiescent

Spec == Init /\ [][Next]_vars

\* The worker that holds the connection and the tasks that interrupt are
\* scheduled; SQL may run for ever and a client may stop reading.
HolderWorks == \E r \in Requests : conn = r /\ Work(r)
Fairness == WF_vars(HolderWorks) /\ WF_vars(\E r \in Requests : interrupt_active(r))
FairSpec == Spec /\ Fairness

--------------------------------------------------------------------------------
(* Properties. *)

\* Type invariant.
TypeOK ==
    /\ conn \in Requests \union {NoOne} /\ flag \in BOOLEAN
    /\ pc \in [Requests -> PcStates] /\ outcome \in [Requests -> Outcomes]
    /\ alive \in [Requests -> BOOLEAN] /\ monitor \in [Requests -> BOOLEAN]
    /\ cancelled \in [Requests -> BOOLEAN] /\ interrupt \in [Requests -> BOOLEAN]
    /\ canceller \in [Requests -> BOOLEAN]
    /\ channel \in [Requests -> Seq(Messages)]
    /\ \A r \in Requests : Len(channel[r]) <= ChannelCapacity
    /\ produced \in [Requests -> 0 .. MaxBatches]
    /\ received \in [Requests -> {"none", "done", "error"}]
    /\ shutdown \in {"no", "asked", "handle", "done"}

\* Nobody waits for the request any more.
Unwanted(r) == cancelled[r] \/ ~ alive[r]

\* A passthrough was dropped; its monitor may interrupt anybody.
PassthroughDropped == \E r \in Requests : ~ Cancellable(r) /\ ~ alive[r]

\* An interrupt only ever ends SQL of a request that was itself cancelled or
\* dropped, however late the cancellation of another request is acted upon, unless
\* the server has interrupted everything to shut down ...
InterruptsAreOwn ==
    \A r \in Requests :
       outcome[r] \in {"interrupted", "panicked"} => Unwanted(r) \/ shutdown = "done"

\* ... as long as no passthrough has been dropped.
OnlyOwnInterrupts == PassthroughDropped \/ InterruptsAreOwn

\* A request that is cancelled and active on the connection has a task after it;
\* in particular one cancelled in the queue never becomes active.
CancelledIsChased ==
    \A r \in Requests : cancelled[r] /\ interrupt[r] => canceller[r]

\* A stream whose worker has ended owes its connected client a final message: Done
\* or Error is on the way or was received.  (The closed-channel monitor keeps a
\* sender, so the client would otherwise wait for ever.)  Only the shutdown of the
\* server excuses it ...
EveryStreamConcludes ==
    \A r \in Requests :
       Kind[r] = "stream" /\ pc[r] = "ended" /\ alive[r] =>
          \/ received[r] \in {"done", "error"}
          \/ channel[r] # <<>> /\ channel[r][Len(channel[r])] \in {"done", "error"}
          \/ shutdown = "done"

\* ... as long as no passthrough has been dropped.
StreamConcludes == PassthroughDropped \/ EveryStreamConcludes

\* A cancelled request that holds the connection lets go of it, even if its SQL
\* would run for ever and DuckDB clears the flag as the statement starts.
CancelledReleases ==
    \A r \in {q \in Requests : Cancellable(q)} : cancelled[r] /\ conn = r ~> conn # r
================================================================================
