--------------------------- MODULE SessionGuardProofs ---------------------------
(***************************************************************************)
(* Proofs about the two guards a statement of a session passes: the lock   *)
(* of the connection with the cancellation of its holder, for any requests,*)
(* channel capacity and number of batches (RequestCancellation), and the   *)
(* lockdown of the engine, for any requests, attachments, data roots,      *)
(* failures and moves (SessionLockdown).                                   *)
(***************************************************************************)
EXTENDS RequestCancellation, SessionLockdown, SequenceTheorems, TLAPS

-----------------------------------------------------------------------------
(* The connection and the cancellation of its holder.                      *)

\* The worker holds the connection.
Holding == {"locked", "plan", "planning", "ready", "checked", "running", "sending",
            "over", "disarmed"}
\* Its request is registered for interrupts.
Active == Holding \ {"locked", "disarmed"}

\* The connection belongs to the worker that is at a step between lock and
\* release, and a request is only armed in the part of it that activate opens
\* and drop_active closes.
ArmedOwner ==
    /\ \A r \in Requests : pc[r] \in Holding <=> conn = r
    /\ \A r \in Requests : interrupt[r] => pc[r] \in Active

\* Only a cancellation starts the interrupting task, and it starts it if armed.
Chased ==
    /\ \A r \in Requests : canceller[r] => cancelled[r]
    /\ CancelledIsChased

CancellationInv == TypeOK /\ ArmedOwner /\ Chased

\* Monitors belong to passthroughs.
Monitored == \A r \in Requests : monitor[r] \/ pc[r] = "handle" => ~ Cancellable(r)

\* Somebody's interrupt went to whoever held the connection.
Meddled == PassthroughDropped \/ shutdown = "done"

\* The flag is up while SQL runs only because the request that runs it is cancelled.
OwnFlag ==
    /\ flag => \A r \in Requests : Executing(r) => cancelled[r]
    /\ \A r \in Requests : outcome[r] \in {"interrupted", "panicked"} => cancelled[r]

\* The last message for the client, in the channel or already received, is final.
Concluded(r) ==
    IF channel[r] = <<>> THEN received[r] \in {"done", "error"}
    ELSE channel[r][Len(channel[r])] \in {"done", "error"}

\* A stream is cancelled, or its worker gives up, only after the response is gone.
Gone ==
    /\ \A r \in Requests : Kind[r] = "stream" /\ cancelled[r] => ~ alive[r]
    /\ \A r \in Requests : outcome[r] = "abandoned" => ~ alive[r]

Ends == \A r \in Requests :
            Kind[r] = "stream" /\ pc[r] = "ended" /\ alive[r] => Concluded(r)

Undisturbed == Meddled \/ (OwnFlag /\ Ends)

--------------------------------------------------------------------------------
(* Type correctness and ownership. *)

\* The sequences of messages stay such when one is added or taken.
LEMMA ChannelType ==
    ASSUME NEW c \in Seq(Messages), NEW m \in Messages
    PROVE  /\ Append(c, m) \in Seq(Messages) /\ Len(Append(c, m)) = Len(c) + 1
           /\ c \o <<m>> \in Seq(Messages) /\ Len(c \o <<m>>) = Len(c) + 1
           /\ c # <<>> => /\ Head(c) \in Messages /\ Tail(c) \in Seq(Messages)
                          /\ Len(Tail(c)) = Len(c) - 1
OBVIOUS

\* Every step keeps the types.
LEMMA CancellationTypeStep == TypeOK /\ [Next]_vars => TypeOK'
<1> SUFFICES ASSUME TypeOK, [Next]_vars PROVE TypeOK'
  OBVIOUS
<1> USE DEF worker, cancellation, client, Goto, Conclude, PcStates, Outcomes
<1>1. ASSUME NEW r \in Requests, cancel_execution(r) \/ interrupt_active(r) PROVE TypeOK'
  BY <1>1 DEF cancel_execution, cancel, interrupt_active, Repeat, TypeOK
<1>2. ASSUME NEW r \in Requests,
             \/ Arrive(r) \/ Setup(r) \/ interrupt_handle(r) \/ CheckBeforeLock(r) \/ Lock(r)
             \/ activate(r)
      PROVE  TypeOK'
  <2>1. CASE Arrive(r) \/ Setup(r)
    BY <2>1, KindAssumption DEF Arrive, Setup, TypeOK
  <2>2. CASE interrupt_handle(r) \/ CheckBeforeLock(r)
    BY <2>2, KindAssumption DEF interrupt_handle, CheckBeforeLock, Rejected, TypeOK
  <2>3. CASE Lock(r) \/ activate(r)
    BY <2>3, KindAssumption DEF Lock, activate, Rejected, TypeOK
  <2> QED BY <1>2, <2>1, <2>2, <2>3
<1>3. ASSUME NEW r \in Requests, Unguarded(r) \/ Start(r) \/ check(r) PROVE TypeOK'
  BY <1>3 DEF Unguarded, Start, check, TypeOK
<1>4. ASSUME NEW r \in Requests,
             Finish(r) \/ Interrupted(r) \/ Panic(r) \/ drop_active(r)
      PROVE  TypeOK'
  BY <1>4 DEF Finish, Interrupted, Panic, drop_active, Disarmed, TypeOK
<1>5. ASSUME NEW r \in Requests, Unlock(r) PROVE TypeOK'
  BY <1>5 DEF Unlock, Told, TypeOK
<1>6. ASSUME NEW r \in Requests, Fetch(r) PROVE TypeOK'
  BY <1>6, BoundsAssumption DEF Fetch, TypeOK
\* A message enters the channel of r, or nothing happens to the channels.
<1>7. ASSUME NEW r \in Requests, NEW m \in Messages, Len(channel[r]) < ChannelCapacity,
             channel' = [channel EXCEPT ![r] = Append(channel[r], m)]
      PROVE  /\ channel' \in [Requests -> Seq(Messages)]
             /\ \A q \in Requests : Len(channel'[q]) <= ChannelCapacity
  <2>1. /\ channel \in [Requests -> Seq(Messages)] /\ channel[r] \in Seq(Messages)
        /\ \A q \in Requests : Len(channel[q]) <= ChannelCapacity
    BY DEF TypeOK
  <2>2. /\ Append(channel[r], m) \in Seq(Messages)
        /\ Len(Append(channel[r], m)) = Len(channel[r]) + 1
    BY <2>1, ChannelType
  <2>3. Len(channel[r]) + 1 <= ChannelCapacity
    BY <1>7, <2>1, BoundsAssumption
  <2> QED BY <1>7, <2>1, <2>2, <2>3
<1>8. ASSUME NEW r \in Requests, Planned(r) PROVE TypeOK'
  <2>1. CASE channel' = channel
    BY <1>8, <2>1 DEF Planned, TypeOK
  <2>2. CASE Room(r) /\ channel' = [channel EXCEPT ![r] = Append(channel[r], "data")]
    BY <1>7, <1>8, <2>2 DEF Planned, Room, TypeOK, Messages
  <2> QED BY <1>8, <2>1, <2>2 DEF Planned
<1>9. ASSUME NEW r \in Requests, Send(r) PROVE TypeOK'
  <2>1. CASE channel' = channel
    BY <1>9, <2>1 DEF Send, TypeOK
  <2>2. CASE Room(r) /\ channel' = [channel EXCEPT ![r] = Append(channel[r], "data")]
    BY <1>7, <1>9, <2>2 DEF Send, Room, TypeOK, Messages
  <2> QED BY <1>9, <2>1, <2>2 DEF Send
<1>10. ASSUME NEW r \in Requests, Report(r) PROVE TypeOK'
  <2>1. CASE channel' = channel
    BY <1>10, <2>1 DEF Report, TypeOK
  <2>2. CASE Room(r) /\ channel' = [channel EXCEPT ![r] = channel[r] \o Final(r)]
    <3>1. PICK m \in Messages : Final(r) = <<m>>
      BY DEF Final, Messages
    <3>2. channel[r] \in Seq(Messages) /\ channel[r] \o <<m>> = Append(channel[r], m)
      BY DEF TypeOK
    <3> QED BY <1>7, <1>10, <2>2, <3>1, <3>2 DEF Report, Room, TypeOK
  <2> QED BY <1>10, <2>1, <2>2 DEF Report
<1>11. ASSUME NEW r \in Requests, Receive(r) PROVE TypeOK'
  <2>1. /\ channel[r] \in Seq(Messages) /\ channel[r] # <<>>
        /\ \A q \in Requests : channel[q] \in Seq(Messages) /\ Len(channel[q]) <= ChannelCapacity
    BY <1>11 DEF Receive, TypeOK
  <2>2. /\ Head(channel[r]) \in Messages /\ Tail(channel[r]) \in Seq(Messages)
        /\ Len(Tail(channel[r])) = Len(channel[r]) - 1
    BY <2>1, ChannelType
  <2>3. /\ channel' \in [Requests -> Seq(Messages)]
        /\ received' \in [Requests -> {"none", "done", "error"}]
    BY <1>11, <2>1, <2>2 DEF Receive, TypeOK, Messages
  <2>4. \A q \in Requests : Len(channel'[q]) <= ChannelCapacity
    BY <1>11, <2>1, <2>2, BoundsAssumption DEF Receive, TypeOK
  <2> QED BY <1>11, <2>3, <2>4 DEF Receive, TypeOK
<1>12. ASSUME NEW r \in Requests, Drop(r) PROVE TypeOK'
  <2>1. <<>> \in Seq(Messages) /\ Len(<<>>) <= ChannelCapacity
    BY BoundsAssumption
  <2>2. /\ channel' \in [Requests -> Seq(Messages)]
        /\ \A q \in Requests : Len(channel'[q]) <= ChannelCapacity
    BY <1>12, <2>1 DEF Drop, TypeOK
  <2>3. /\ cancelled' \in [Requests -> BOOLEAN] /\ interrupt' \in [Requests -> BOOLEAN]
        /\ canceller' \in [Requests -> BOOLEAN]
    BY <1>12 DEF Drop, cancel, TypeOK
  <2> QED BY <1>12, <2>2, <2>3 DEF Drop, TypeOK
<1>13. ASSUME NEW r \in Requests, Complete(r) \/ MonitorInterrupts(r) PROVE TypeOK'
  BY <1>13 DEF Complete, MonitorInterrupts, TypeOK
<1>14. CASE Terminate \/ interrupt_all \/ ShutdownInterrupt
  BY <1>14 DEF Terminate, interrupt_all, ShutdownInterrupt, TypeOK
<1>15. CASE UNCHANGED vars
  BY <1>15 DEF vars, TypeOK
<1> QED BY <1>1, <1>2, <1>3, <1>4, <1>5, <1>6, <1>8, <1>9, <1>10, <1>11, <1>12, <1>13, <1>14,
           <1>15
        DEF Next, Work, Quiescent

\* A worker moves alone: what a step of r leaves of the other requests.
LEMMA OwnerStep == TypeOK /\ ArmedOwner /\ [Next]_vars => ArmedOwner'
<1> SUFFICES ASSUME TypeOK, ArmedOwner, [Next]_vars PROVE ArmedOwner'
  OBVIOUS
<1>0. NoOne \notin Requests
  BY NoOneAssumption
<1> USE DEF worker, cancellation, client, Goto, Conclude, Holding, Active
\* The worker moves between two steps on the same side of the lock.
<1>1. ASSUME NEW r \in Requests, NEW where \in PcStates, pc' = [pc EXCEPT ![r] = where],
             conn' = conn, pc[r] \in Holding <=> where \in Holding,
             \A q \in Requests : interrupt'[q] =>
                \/ q = r /\ where \in Active
                \/ q # r /\ interrupt[q]
      PROVE  ArmedOwner'
  BY <1>1 DEF ArmedOwner, TypeOK
<1>2. ASSUME UNCHANGED <<conn, pc, interrupt>> PROVE ArmedOwner'
  BY <1>2 DEF ArmedOwner
<1>3. ASSUME NEW r \in Requests, Arrive(r) PROVE ArmedOwner'
  <2>1. \E where \in {"wait", "setup", "handle"} : pc' = [pc EXCEPT ![r] = where]
    BY <1>3, KindAssumption DEF Arrive
  <2> QED BY <1>3, <2>1 DEF Arrive, ArmedOwner, TypeOK
<1>4. ASSUME NEW r \in Requests, Setup(r) \/ interrupt_handle(r) \/ CheckBeforeLock(r)
      PROVE  ArmedOwner'
  BY <1>4 DEF Setup, interrupt_handle, CheckBeforeLock, ArmedOwner, TypeOK
<1>5. ASSUME NEW r \in Requests, Lock(r) PROVE ArmedOwner'
  BY <1>0, <1>5 DEF Lock, ArmedOwner, TypeOK
<1>6. ASSUME NEW r \in Requests, activate(r) PROVE ArmedOwner'
  <2>1. conn = r /\ \A q \in Requests \ {r} : pc[q] \notin Holding
    BY <1>6 DEF activate, ArmedOwner
  <2>2. CASE Rejected(r)
    <3>1. conn' = NoOne /\ pc'[r] \in {"report", "ended"} /\ interrupt' = interrupt
      BY <1>6, <2>2 DEF activate, Rejected, TypeOK
    <3>2. \A q \in Requests \ {r} : pc'[q] = pc[q]
      BY <1>6, <2>2 DEF activate, Rejected, TypeOK
    <3>3. ~ interrupt[r]
      BY <1>6 DEF activate, ArmedOwner
    <3> QED BY <1>0, <2>1, <3>1, <3>2, <3>3 DEF ArmedOwner
  <2>3. CASE ~ Rejected(r)
    <3>1. conn' = conn /\ pc'[r] \in {"plan", "ready"}
      BY <1>6, <2>3 DEF activate, Rejected, TypeOK
    <3>2. \A q \in Requests \ {r} : pc'[q] = pc[q] /\ interrupt'[q] = interrupt[q]
      BY <1>6, <2>3 DEF activate, Rejected, TypeOK
    <3> QED BY <2>1, <3>1, <3>2 DEF ArmedOwner
  <2> QED BY <2>2, <2>3
<1>7. ASSUME NEW r \in Requests,
             \/ Unguarded(r) \/ Start(r) \/ Planned(r) \/ check(r) \/ Finish(r)
             \/ Fetch(r) \/ Send(r) \/ Interrupted(r) \/ drop_active(r)
      PROVE  ArmedOwner'
  <2>1. /\ conn' = conn /\ pc[r] \in Holding
        /\ \A q \in Requests \ {r} : pc'[q] = pc[q] /\ interrupt'[q] = interrupt[q]
    BY <1>7 DEF Unguarded, Start, Planned, check, Finish, Fetch, Send, Interrupted,
                drop_active, Disarmed, TypeOK
  <2>2. /\ pc'[r] \in Holding
        /\ interrupt'[r] => pc'[r] \in Active
    BY <1>7 DEF Unguarded, Start, Planned, check, Finish, Fetch, Send, Interrupted,
                drop_active, Disarmed, TypeOK, ArmedOwner
  <2> QED BY <2>1, <2>2 DEF ArmedOwner
<1>8. ASSUME NEW r \in Requests, Panic(r) \/ Unlock(r) PROVE ArmedOwner'
  <2>1. /\ conn' = NoOne /\ pc'[r] \in {"report", "ended"} /\ ~ interrupt'[r]
        /\ conn = r
    BY <1>8 DEF Panic, Unlock, TypeOK, ArmedOwner
  <2>2. \A q \in Requests \ {r} : /\ pc'[q] = pc[q] /\ interrupt'[q] = interrupt[q]
                                  /\ pc[q] \notin Holding
    BY <1>8, <2>1 DEF Panic, Unlock, TypeOK, ArmedOwner
  <2> QED BY <1>0, <2>1, <2>2 DEF ArmedOwner
<1>9. ASSUME NEW r \in Requests, Report(r) PROVE ArmedOwner'
  BY <1>9 DEF Report, ArmedOwner, TypeOK
<1>10. ASSUME NEW r \in Requests,
              \/ cancel_execution(r) \/ interrupt_active(r) \/ Receive(r) \/ Drop(r)
              \/ Complete(r) \/ MonitorInterrupts(r)
       PROVE  ArmedOwner'
  BY <1>2, <1>10 DEF cancel_execution, cancel, interrupt_active, Receive, Drop, Complete,
                     MonitorInterrupts
<1>11. CASE Terminate \/ interrupt_all \/ ShutdownInterrupt \/ UNCHANGED vars
  BY <1>2, <1>11 DEF Terminate, interrupt_all, ShutdownInterrupt, vars
<1> QED BY <1>3, <1>4, <1>5, <1>6, <1>7, <1>8, <1>9, <1>10, <1>11 DEF Next, Work, Quiescent

\* Every step keeps a canceller for whoever is cancelled and active.
LEMMA ChasedStep == TypeOK /\ Chased /\ [Next]_vars => Chased'
<1> SUFFICES ASSUME TypeOK, Chased, [Next]_vars PROVE Chased'
  OBVIOUS
<1> USE DEF worker, cancellation, client, CancelledIsChased
<1>1. ASSUME NEW r \in Requests, cancel_execution(r) \/ Drop(r) PROVE Chased'
  <2>1. CASE cancel(r)
    <3>1. /\ \A q \in Requests \ {r} : cancelled'[q] = cancelled[q] /\ canceller'[q] = canceller[q]
          /\ cancelled'[r] /\ interrupt' = interrupt
          /\ canceller'[r] = IF cancelled[r] THEN canceller[r] ELSE interrupt[r]
      BY <2>1 DEF cancel, TypeOK
    <3> QED BY <3>1 DEF Chased
  <2>2. CASE UNCHANGED cancellation
    BY <2>2 DEF Chased
  <2> QED BY <1>1, <2>1, <2>2 DEF cancel_execution, Drop
<1>2. ASSUME NEW r \in Requests, interrupt_active(r) PROVE Chased'
  BY <1>2 DEF interrupt_active, Repeat, Chased, TypeOK
<1>3. ASSUME NEW r \in Requests, activate(r) PROVE Chased'
  BY <1>3 DEF activate, Rejected, Chased, TypeOK
<1>4. ASSUME UNCHANGED <<cancelled, canceller>>, NEW r \in Requests,
             interrupt' = interrupt \/ interrupt' = Disarmed(r)
      PROVE  Chased'
  BY <1>4 DEF Disarmed, Chased, TypeOK
<1>5. ASSUME NEW r \in Requests,
             \/ Arrive(r) \/ Setup(r) \/ interrupt_handle(r) \/ CheckBeforeLock(r) \/ Lock(r)
             \/ Unguarded(r) \/ Start(r) \/ Planned(r) \/ check(r) \/ Finish(r) \/ Fetch(r) \/ Send(r)
             \/ Interrupted(r) \/ Panic(r) \/ drop_active(r) \/ Unlock(r) \/ Report(r)
             \/ Receive(r) \/ Complete(r) \/ MonitorInterrupts(r)
      PROVE  Chased'
  BY <1>4, <1>5 DEF Arrive, Setup, interrupt_handle, CheckBeforeLock, Lock, Unguarded, Start,
                    Planned, check, Finish, Fetch, Send, Interrupted, Panic, drop_active, Unlock, Report,
                    Receive, Complete, MonitorInterrupts, Disarmed
<1>6. CASE Terminate \/ interrupt_all \/ ShutdownInterrupt \/ UNCHANGED vars
  BY <1>6 DEF Terminate, interrupt_all, ShutdownInterrupt, vars, Chased
<1> QED BY <1>1, <1>2, <1>3, <1>5, <1>6 DEF Next, Work, Quiescent

\* Both hold in every state.
LEMMA CancellationInductive == Spec => []CancellationInv
<1>1. Init => CancellationInv
  <2> SUFFICES ASSUME Init PROVE CancellationInv
    OBVIOUS
  <2>1. TypeOK
    <3>1. /\ channel \in [Requests -> Seq(Messages)]
          /\ \A r \in Requests : Len(channel[r]) <= ChannelCapacity
      BY BoundsAssumption DEF Init
    <3>2. produced \in [Requests -> 0 .. MaxBatches]
      BY BoundsAssumption DEF Init
    <3> QED BY <3>1, <3>2 DEF Init, TypeOK, PcStates, Outcomes
  <2>2. ArmedOwner /\ Chased
    BY NoOneAssumption DEF Init, ArmedOwner, Chased, CancelledIsChased, Holding, Active
  <2> QED BY <2>1, <2>2 DEF CancellationInv
<1>2. CancellationInv /\ [Next]_vars => CancellationInv'
  BY CancellationTypeStep, OwnerStep, ChasedStep DEF CancellationInv
<1> QED BY <1>1, <1>2, PTL DEF Spec

\* Every reachable state is well-typed; no channel overflows.
THEOREM CancellationTypeCorrect == Spec => []TypeOK
<1>1. CancellationInv => TypeOK
  BY DEF CancellationInv
<1> QED BY <1>1, CancellationInductive, PTL

\* A cancelled request that is active on the connection is being interrupted, also
\* when it was cancelled while it waited for the connection.
THEOREM NoUnchasedCancellation == Spec => []CancelledIsChased
<1>1. CancellationInv => CancelledIsChased
  BY DEF CancellationInv, Chased
<1> QED BY <1>1, CancellationInductive, PTL

--------------------------------------------------------------------------------
(* Interrupts and streams, as long as no passthrough is dropped and the server   *)
(* is not shut down.                                                             *)

\* What is gone stays gone.
LEMMA MeddledStep == TypeOK /\ [Next]_vars /\ Meddled => Meddled'
<1> SUFFICES ASSUME TypeOK, [Next]_vars, Meddled PROVE Meddled'
  OBVIOUS
<1>1. alive' = alive \/ \E q \in Requests : alive' = [alive EXCEPT ![q] = FALSE]
  BY DEF Next, Work, vars, client, Arrive, Setup, interrupt_handle, CheckBeforeLock, Lock,
         activate, Unguarded, Start, check, Planned, Send, Interrupted, Panic, drop_active,
         Unlock, Report, Finish, Fetch, cancel_execution, interrupt_active, Receive, Drop,
         Complete, MonitorInterrupts, Terminate, interrupt_all, ShutdownInterrupt, Quiescent
<1>2. shutdown = "done" => shutdown' = "done"
  BY DEF Next, Work, vars, Arrive, Setup, interrupt_handle, CheckBeforeLock, Lock,
         activate, Unguarded, Start, check, Planned, Send, Interrupted, Panic, drop_active,
         Unlock, Report, Finish, Fetch, cancel_execution, interrupt_active, Receive, Drop,
         Complete, MonitorInterrupts, Terminate, interrupt_all, ShutdownInterrupt, Quiescent
<1> QED BY <1>1, <1>2 DEF TypeOK, Meddled, PassthroughDropped, Cancellable

\* Every step leaves monitors to passthroughs.
LEMMA MonitoredStep == TypeOK /\ Monitored /\ [Next]_vars => Monitored'
<1> SUFFICES ASSUME TypeOK, Monitored, [Next]_vars PROVE Monitored'
  OBVIOUS
<1> USE DEF worker, cancellation, client, Goto, Conclude, Monitored, Cancellable
<1>1. ASSUME NEW r \in Requests, Arrive(r) PROVE Monitored'
  BY <1>1, KindAssumption DEF Arrive, TypeOK
<1>2. ASSUME NEW r \in Requests, interrupt_handle(r) PROVE Monitored'
  BY <1>2 DEF interrupt_handle, TypeOK
<1>3. ASSUME NEW r \in Requests,
             \/ Setup(r) \/ CheckBeforeLock(r) \/ Lock(r) \/ activate(r) \/ Unguarded(r)
             \/ Start(r) \/ check(r) \/ Interrupted(r) \/ Panic(r)
      PROVE  Monitored'
  BY <1>3 DEF Setup, CheckBeforeLock, Lock, activate, Unguarded, Start, check, Interrupted,
              Panic, TypeOK
<1>4. ASSUME NEW r \in Requests,
             \/ Planned(r) \/ Send(r) \/ drop_active(r) \/ Unlock(r) \/ Report(r)
             \/ Finish(r) \/ Fetch(r)
      PROVE  Monitored'
  BY <1>4 DEF Planned, Send, drop_active, Unlock, Report, Finish, Fetch, TypeOK
<1>5. ASSUME NEW r \in Requests,
             \/ cancel_execution(r) \/ interrupt_active(r) \/ Receive(r) \/ Drop(r)
             \/ Complete(r) \/ MonitorInterrupts(r)
      PROVE  Monitored'
  BY <1>5 DEF cancel_execution, interrupt_active, Receive, Drop, Complete, MonitorInterrupts,
              TypeOK
<1>6. CASE Terminate \/ interrupt_all \/ ShutdownInterrupt \/ UNCHANGED vars
  BY <1>6 DEF Terminate, interrupt_all, ShutdownInterrupt, vars
<1> QED BY <1>1, <1>2, <1>3, <1>4, <1>5, <1>6 DEF Next, Work, Quiescent

\* Without blind interrupts, the flag is raised for the running request only.
LEMMA FlagStep ==
    ASSUME TypeOK, ArmedOwner, Chased, Monitored, OwnFlag, [Next]_vars,
           ~ Meddled, ~ Meddled'
    PROVE  OwnFlag'
<1> USE DEF worker, cancellation, client, Goto, Conclude, Executing
\* At most one request executes; it is the one that may be armed.
<1>1. \A r, q \in Requests : interrupt[r] /\ Executing(q) => r = q
  BY DEF ArmedOwner, Holding, Active
\* Cancellation only adds to what is cancelled.
<1>2. ASSUME NEW r \in Requests, cancel_execution(r) \/ Drop(r) PROVE OwnFlag'
  <2>1. UNCHANGED <<flag, pc, outcome>>
    BY <1>2 DEF cancel_execution, Drop
  <2>2. cancel(r) \/ UNCHANGED cancelled
    BY <1>2 DEF cancel_execution, Drop
  <2>3. \A q \in Requests : cancelled[q] => cancelled'[q]
    BY <2>2 DEF cancel, TypeOK
  <2> QED BY <2>1, <2>3 DEF OwnFlag
<1>3. ASSUME NEW r \in Requests, interrupt_active(r) PROVE OwnFlag'
  BY <1>1, <1>3 DEF interrupt_active, Repeat, OwnFlag, Chased, TypeOK
<1>4. ASSUME NEW r \in Requests, Start(r) PROVE OwnFlag'
  BY <1>4 DEF Start, OwnFlag, TypeOK
<1>5. ASSUME NEW r \in Requests, Interrupted(r) \/ Panic(r) PROVE OwnFlag'
  BY <1>5 DEF Interrupted, Panic, OwnFlag, TypeOK
<1>6. ASSUME NEW r \in Requests, Arrive(r) PROVE OwnFlag'
  <2>1. \E where \in {"wait", "setup", "handle"} : pc' = [pc EXCEPT ![r] = where]
    BY <1>6, KindAssumption DEF Arrive
  <2> QED BY <1>6, <2>1 DEF Arrive, OwnFlag, TypeOK
<1>7. ASSUME NEW r \in Requests,
             \/ Setup(r) \/ CheckBeforeLock(r) \/ Lock(r) \/ activate(r) \/ Unguarded(r)
             \/ check(r) \/ Finish(r) \/ drop_active(r) \/ interrupt_handle(r)
      PROVE  OwnFlag'
  BY <1>7 DEF Setup, CheckBeforeLock, Lock, activate, Unguarded, check, Finish, drop_active,
              interrupt_handle, OwnFlag, TypeOK
<1>8. ASSUME NEW r \in Requests, Fetch(r) \/ Send(r) \/ Planned(r) \/ Report(r)
      PROVE  OwnFlag'
  BY <1>8 DEF Fetch, Send, Planned, Report, OwnFlag, TypeOK
<1>9. ASSUME NEW r \in Requests, Unlock(r) PROVE OwnFlag'
  BY <1>9 DEF Unlock, Told, OwnFlag, TypeOK
<1>10. ASSUME NEW r \in Requests, Receive(r) \/ Complete(r) PROVE OwnFlag'
  BY <1>10 DEF Receive, Complete, OwnFlag
\* A monitor acts only for a passthrough that was dropped.
<1>11. ASSUME NEW r \in Requests, MonitorInterrupts(r) PROVE FALSE
  BY <1>11 DEF MonitorInterrupts, Monitored, Meddled, PassthroughDropped
<1>12. CASE interrupt_all
  BY <1>12 DEF interrupt_all, OwnFlag
<1>14. ASSUME ShutdownInterrupt PROVE FALSE
  BY <1>14 DEF ShutdownInterrupt, Meddled
<1>13. CASE Terminate \/ UNCHANGED vars
  BY <1>13 DEF Terminate, vars, OwnFlag
<1> QED BY <1>2, <1>3, <1>4, <1>5, <1>6, <1>7, <1>8, <1>9, <1>10, <1>11, <1>12, <1>13,
           <1>14
        DEF Next, Work, Quiescent

\* The last message stays the last when an earlier one is received.
LEMMA LastOfTail ==
    ASSUME NEW c \in Seq(Messages), c # <<>>
    PROVE  IF Tail(c) = <<>> THEN Head(c) = c[Len(c)]
           ELSE Tail(c)[Len(Tail(c))] = c[Len(c)]
<1>1. /\ Tail(c) \in Seq(Messages) /\ Len(Tail(c)) = Len(c) - 1
      /\ \A i \in 1 .. Len(Tail(c)) : Tail(c)[i] = c[i + 1]
  BY HeadTailProperties
<1>2. Len(c) \in Nat \ {0} /\ Head(c) = c[1]
  BY EmptySeq
<1>3. Tail(c) = <<>> <=> Len(c) = 1
  BY <1>1, <1>2, EmptySeq
<1>4. CASE Len(c) = 1
  BY <1>2, <1>3, <1>4
<1>5. CASE Len(c) # 1
  <2>1. Len(Tail(c)) \in 1 .. Len(Tail(c)) /\ Len(Tail(c)) + 1 = Len(c)
    BY <1>1, <1>2, <1>5
  <2> QED BY <1>1, <1>3, <1>5, <2>1
<1> QED BY <1>4, <1>5

\* A worker gives up with "abandoned", and a stream is cancelled, only when nobody
\* listens.
LEMMA GoneStep == TypeOK /\ Gone /\ [Next]_vars => Gone'
<1> SUFFICES ASSUME TypeOK, Gone, [Next]_vars PROVE Gone'
  OBVIOUS
<1> USE DEF worker, cancellation, client, Goto, Conclude, Gone
<1>1. ASSUME NEW r \in Requests, cancel_execution(r) PROVE Gone'
  BY <1>1 DEF cancel_execution, cancel, TypeOK
<1>2. ASSUME NEW r \in Requests, Drop(r) PROVE Gone'
  <2>1. /\ ~ alive'[r] /\ UNCHANGED outcome
        /\ \A q \in Requests \ {r} : alive'[q] = alive[q]
    BY <1>2 DEF Drop, TypeOK
  <2>2. \A q \in Requests \ {r} : cancelled'[q] = cancelled[q]
    BY <1>2 DEF Drop, cancel, TypeOK
  <2> QED BY <2>1, <2>2
<1>3. ASSUME NEW r \in Requests,
             \/ Setup(r) \/ CheckBeforeLock(r) \/ activate(r) \/ Planned(r) \/ check(r)
             \/ Send(r) \/ Interrupted(r) \/ Panic(r) \/ Finish(r)
      PROVE  Gone'
  BY <1>3 DEF Setup, CheckBeforeLock, activate, Planned, check, Send, Interrupted, Panic,
              Finish, TypeOK
<1>4. ASSUME NEW r \in Requests, Unlock(r) PROVE Gone'
  BY <1>4 DEF Unlock, Told, TypeOK
<1>5. ASSUME NEW r \in Requests,
             \/ Arrive(r) \/ interrupt_handle(r) \/ Lock(r) \/ Unguarded(r) \/ Start(r)
             \/ drop_active(r) \/ Report(r) \/ Fetch(r) \/ interrupt_active(r)
             \/ Receive(r) \/ Complete(r) \/ MonitorInterrupts(r)
      PROVE  Gone'
  BY <1>5 DEF Arrive, interrupt_handle, Lock, Unguarded, Start, drop_active, Report, Fetch,
              interrupt_active, Receive, Complete, MonitorInterrupts
<1>6. CASE Terminate \/ interrupt_all \/ ShutdownInterrupt \/ UNCHANGED vars
  BY <1>6 DEF Terminate, interrupt_all, ShutdownInterrupt, vars
<1> QED BY <1>1, <1>2, <1>3, <1>4, <1>5, <1>6 DEF Next, Work, Quiescent

\* Without blind interrupts, a stream ends with its final message.
LEMMA EndsStep ==
    ASSUME TypeOK, OwnFlag, Gone, Ends, [Next]_vars
    PROVE  Ends'
<1> USE DEF worker, cancellation, client, Goto, Conclude
<1>1. ASSUME NEW r \in Requests, cancel_execution(r) PROVE Ends'
  BY <1>1 DEF cancel_execution, Ends, Concluded
<1>2. ASSUME NEW r \in Requests, Drop(r) PROVE Ends'
  <2>1. /\ ~ alive'[r] /\ UNCHANGED <<pc, received>>
        /\ \A q \in Requests \ {r} : alive'[q] = alive[q] /\ channel'[q] = channel[q]
    BY <1>2 DEF Drop, TypeOK
  <2> QED BY <2>1 DEF Ends, Concluded
<1>3. ASSUME NEW r \in Requests, Receive(r) PROVE Ends'
  <2>1. UNCHANGED <<pc, alive>>
    BY <1>3 DEF Receive
  <2>2. /\ channel[r] \in Seq(Messages) /\ channel[r] # <<>>
        /\ channel'[r] = Tail(channel[r])
        /\ Head(channel[r]) # "data" => received'[r] = Head(channel[r])
    BY <1>3 DEF Receive, TypeOK
  <2>3. \A q \in Requests \ {r} : channel'[q] = channel[q] /\ received'[q] = received[q]
    BY <1>3 DEF Receive, TypeOK
  <2>4. Concluded(r) => Concluded(r)'
    BY <2>2, LastOfTail DEF Concluded
  <2> QED BY <2>1, <2>3, <2>4 DEF Ends, Concluded
<1>4. ASSUME NEW r \in Requests, Report(r) PROVE Ends'
  <2>1. UNCHANGED <<alive, received>>
    BY <1>4 DEF Report
  <2>2. \A q \in Requests \ {r} : pc'[q] = pc[q] /\ channel'[q] = channel[q]
    BY <1>4 DEF Report, TypeOK
  <2>3. CASE ~ alive[r]
    BY <2>1, <2>2, <2>3 DEF Ends, Concluded
  <2>4. CASE alive[r]
    <3>1. PICK m \in {"done", "error"} : Final(r) = <<m>>
      BY DEF Final
    <3>2. channel[r] \in Seq(Messages) /\ channel'[r] = channel[r] \o <<m>>
      BY <1>4, <2>4, <3>1 DEF Report, TypeOK
    <3>3. channel'[r] # <<>> /\ channel'[r][Len(channel'[r])] = m
      BY <3>2 DEF Messages
    <3> QED BY <2>1, <2>2, <3>3 DEF Ends, Concluded
  <2> QED BY <2>3, <2>4
\* The worker of r moves, and if that is where a stream ends then nobody listens.
<1>5. ASSUME NEW r \in Requests, NEW where \in PcStates,
             UNCHANGED <<alive, received>>,
             pc' = [pc EXCEPT ![r] = where], pc[r] # "ended",
             \A q \in Requests \ {r} : channel'[q] = channel[q],
             Kind[r] = "stream" /\ where = "ended" => ~ alive[r]
      PROVE  Ends'
  BY <1>5 DEF Ends, Concluded, TypeOK
<1>6. ASSUME NEW r \in Requests, Planned(r) \/ Send(r) PROVE Ends'
  <2>1. PICK where \in {"ready", "running", "over"} : pc' = [pc EXCEPT ![r] = where]
    BY <1>6 DEF Planned, Send
  <2>2. \A q \in Requests \ {r} : channel'[q] = channel[q]
    BY <1>6 DEF Planned, Send, TypeOK
  <2> QED BY <1>5, <1>6, <2>1, <2>2 DEF Planned, Send, PcStates
<1>7. ASSUME NEW r \in Requests,
             \/ Arrive(r) \/ Setup(r) \/ interrupt_handle(r) \/ CheckBeforeLock(r) \/ Lock(r)
             \/ activate(r) \/ Unguarded(r) \/ Start(r) \/ check(r) \/ Finish(r) \/ Fetch(r)
             \/ Interrupted(r) \/ Panic(r) \/ drop_active(r) \/ Unlock(r)
      PROVE  Ends'
  <2>1. UNCHANGED <<alive, received, channel>> /\ pc[r] # "ended"
    BY <1>7 DEF Arrive, Setup, interrupt_handle, CheckBeforeLock, Lock, activate, Unguarded,
                Start, check, Finish, Fetch, Interrupted, Panic, drop_active, Unlock
  <2>2. PICK where \in PcStates : pc' = [pc EXCEPT ![r] = where]
    <3>1. CASE Arrive(r)
      BY <3>1, KindAssumption DEF Arrive, PcStates
    <3> QED BY <1>7, <3>1
            DEF Setup, interrupt_handle, CheckBeforeLock, Lock, activate, Unguarded, Start,
                check, Finish, Fetch, Interrupted, Panic, drop_active, Unlock, PcStates
  <2>3. Kind[r] = "stream" /\ where = "ended" => ~ alive[r]
    <3>1. where = pc'[r]
      BY <2>2 DEF TypeOK
    <3>2. CASE Panic(r)
      BY <3>2 DEF Panic, OwnFlag, Executing, Gone
    <3>3. CASE Unlock(r)
      BY <3>1, <3>3 DEF Unlock, Told, Gone, TypeOK
    <3>4. CASE Setup(r) \/ activate(r)
      BY <3>1, <3>4 DEF Setup, activate, Rejected, Gone, TypeOK
    <3> QED BY <1>7, <3>1, <3>2, <3>3, <3>4, KindAssumption
            DEF Arrive, interrupt_handle, CheckBeforeLock, Lock, Unguarded, Start, check,
                Finish, Fetch,
                Interrupted, drop_active, TypeOK
  <2> QED BY <1>5, <2>1, <2>2, <2>3
<1>8. ASSUME NEW r \in Requests,
             interrupt_active(r) \/ Complete(r) \/ MonitorInterrupts(r)
      PROVE  Ends'
  BY <1>8 DEF interrupt_active, Complete, MonitorInterrupts, Ends, Concluded
<1>9. CASE Terminate \/ interrupt_all \/ ShutdownInterrupt \/ UNCHANGED vars
  BY <1>9 DEF Terminate, interrupt_all, ShutdownInterrupt, vars, Ends, Concluded
<1> QED BY <1>1, <1>2, <1>3, <1>4, <1>6, <1>7, <1>8, <1>9 DEF Next, Work, Quiescent

\* All of it holds in every state.
LEMMA InductiveUndisturbed == Spec => [](Monitored /\ Gone /\ Undisturbed)
<1>1. Init => Monitored /\ Gone /\ Undisturbed
  BY KindAssumption DEF Init, Monitored, Gone, Undisturbed, OwnFlag, Ends, Executing
<1>2. ASSUME CancellationInv, Monitored, Gone, Undisturbed, [Next]_vars
      PROVE  (Monitored /\ Gone /\ Undisturbed)'
  <2>1. Monitored' /\ Gone'
    BY <1>2, MonitoredStep, GoneStep DEF CancellationInv
  <2>2. CASE Meddled \/ Meddled'
    BY <1>2, <2>1, <2>2, MeddledStep DEF CancellationInv, Undisturbed
  <2>3. CASE ~ Meddled /\ ~ Meddled'
    BY <1>2, <2>1, <2>3, FlagStep, EndsStep DEF CancellationInv, Undisturbed
  <2> QED BY <2>1, <2>2, <2>3
<1> QED BY <1>1, <1>2, CancellationInductive, PTL DEF Spec

\* Unless a passthrough was dropped or the server shut down, an interrupt, however
\* late, never ends the SQL of a request that is still wanted.
THEOREM OwnInterrupts == Spec => []OnlyOwnInterrupts
<1>1. Undisturbed => OnlyOwnInterrupts
  BY DEF Undisturbed, Meddled, OwnFlag, OnlyOwnInterrupts, InterruptsAreOwn, Unwanted
<1> QED BY <1>1, InductiveUndisturbed, PTL

\* Unless a passthrough was dropped or the server shut down, a streamed query tells
\* a client that is still there how it ended.
THEOREM StreamsConclude == Spec => []StreamConcludes
<1>1. Undisturbed => StreamConcludes
  BY DEF Undisturbed, Meddled, Ends, Concluded, StreamConcludes, EveryStreamConcludes
<1> QED BY <1>1, InductiveUndisturbed, PTL

-----------------------------------------------------------------------------
(***************************************************************************)
(* The lockdown.                                                           *)
(*                                                                         *)
(* The argument: the mutex makes an attachment and the lockdown exclude    *)
(* each other (AttachHoldsLock), so the lockdown's statements read the     *)
(* roots of every attachment that is complete; it counts as applied only   *)
(* when the last of them has run (Frozen), and a statement passes its gate *)
(* only then; afterwards neither the settings nor the roots change.        *)
(***************************************************************************)

Attaching == {"secrets", "roots", "search_path"}

\* What a request in progress carries.
Plain == [at : {"idle", "gate", "run"}]
Loaded == [at : {"resolved"} \cup Attaching, catalog : Catalogs,
           data_path : Roots \cup {NoRoot}, read_only : BOOLEAN]
LaneType == lane \in [Lanes -> Plain \cup Loaded]

\* An attached database has a root.
Databases == \A c \in Catalogs : databases[c].root = NoRoot => databases[c] = Detached

\* The lockdown is applied exactly when its settings are locked; then a confined
\* engine allows the collected roots, and only then statements run.
Frozen ==
    /\ state.applied => /\ engine.locked
                        /\ confined => ~engine.external /\ engine.allowed = state.roots
    /\ ~state.applied => ~engine.locked
    /\ \A l \in Lanes : lane[l].at = "run" => state.applied

\* The look-up of a lake's roots happens in an open session, on an attached lake.
LookingUp ==
    \A l \in Lanes : lane[l].at = "roots" =>
        ~state.applied /\ databases[lane[l].catalog].root \in Roots

\* The root of every attached lake is collected, or about to be.
Rooted ==
    confined => \A c \in Catalogs : Attached(c) /\ c \notin unrooted =>
        \/ databases[c].root \in state.roots
        \/ \E l \in Lanes : lane[l].at = "roots" /\ lane[l].catalog = c

LockdownInv ==
    LdTypeOK /\ LaneType /\ Databases /\ AttachHoldsLock /\ Frozen /\ LookingUp /\ Rooted

-----------------------------------------------------------------------------
\* A request that attaches carries its attachment along.
LEMMA LoadedMoves ==
    ASSUME LaneType, NEW l \in Lanes, lane[l].at \in {"resolved"} \cup Attaching,
           NEW w \in {"resolved"} \cup Attaching
    PROVE  lane[l] \in Loaded /\ [lane[l] EXCEPT !.at = w] \in Loaded
<1>1. lane[l] \in Loaded
    BY DEF LaneType, Plain, Loaded, Attaching
<1> QED BY <1>1 DEF Loaded

\* A request that runs a statement carries nothing.
LEMMA PlainMoves ==
    ASSUME LaneType, NEW l \in Lanes, lane[l].at \in {"gate", "run"},
           NEW w \in {"idle", "gate", "run"}
    PROVE  lane[l] \in Plain /\ [lane[l] EXCEPT !.at = w] \in Plain
<1>1. lane[l] \in Plain
    BY DEF LaneType, Plain, Loaded, Attaching
<1> QED BY <1>1 DEF Plain

\* Every step keeps the types.
LEMMA LockdownTypeStep ==
    LdTypeOK /\ LaneType /\ Databases /\ LookingUp /\ [LdNext]_ldVars
        => (LdTypeOK /\ LaneType /\ Databases)'
<1> SUFFICES ASSUME LdTypeOK, LaneType, Databases, LookingUp, [LdNext]_ldVars
             PROVE  (LdTypeOK /\ LaneType /\ Databases)'
    OBVIOUS
<1> USE DEF LdTypeOK, LaneType, Databases, LookingUp, Attaching, Detached, ldVars
<1>1. ASSUME NEW l \in Lanes, NEW c \in Catalogs, do_action_duckvis_attach(l, c)
      PROVE  (LdTypeOK /\ LaneType /\ Databases)'
    BY <1>1 DEF do_action_duckvis_attach, Call, Idle, Plain, Loaded
<1>2. ASSUME NEW l \in Lanes, attach_catalog(l)
      PROVE  (LdTypeOK /\ LaneType /\ Databases)'
    BY SMTT(30), <1>2 DEF attach_catalog, Proceed, Leave, Idle, Plain, Loaded
<1>3. ASSUME NEW l \in Lanes, Attach(l)
      PROVE  (LdTypeOK /\ LaneType /\ Databases)'
  <2>1. lane[l] \in Loaded /\ lane[l].catalog \in Catalogs
         /\ lane[l].data_path \in Roots \cup {NoRoot} /\ lane[l].read_only \in BOOLEAN
      BY <1>3, LoadedMoves DEF Attach, Loaded
  <2>2. LaneType'
    <3>1. CASE Leave(l)
        BY <3>1 DEF Leave, Idle, Plain
    <3>2. [lane[l] EXCEPT !.at = "roots"] \in Loaded
          /\ [lane[l] EXCEPT !.at = "search_path"] \in Loaded
        BY <1>3, LoadedMoves DEF Attach
    <3>3. CASE Proceed(l, "roots")
        BY <3>2, <3>3 DEF Proceed
    <3>4. CASE Proceed(l, "search_path")
        BY <3>2, <3>4 DEF Proceed
    <3> QED BY <1>3, <3>1, <3>3, <3>4 DEF Attach, Release
  <2>3. \A k \in Lanes : lane'[k].at \in {"idle", "gate", "run", "resolved"} \cup Attaching
      BY <2>2 DEF Plain, Loaded
  <2>4. databases' = databases
        \/ databases' = [databases EXCEPT ![lane[l].catalog] =
                            [root |-> lake[lane[l].catalog], read_only |-> lane[l].read_only]]
      BY <1>3 DEF Attach
  <2>5. Databases' /\ databases' \in [Catalogs -> [root : Roots \cup {NoRoot}, read_only : BOOLEAN]]
    <3>1. CASE databases' = databases
        BY <3>1
    <3>2. CASE databases' # databases
      <4> DEFINE d == [root |-> lake[lane[l].catalog], read_only |-> lane[l].read_only]
      <4>1. d \in [root : Roots \cup {NoRoot}, read_only : BOOLEAN] /\ d.root # NoRoot
          BY <2>1, LockdownNames
      <4>2. databases' = [databases EXCEPT ![lane[l].catalog] = d]
          BY <2>4, <3>2
      <4> HIDE DEF d
      <4> QED BY <2>1, <4>1, <4>2
    <3> QED BY <3>1, <3>2
  <2>6. state' \in [applied : BOOLEAN, roots : SUBSET Roots] /\ unrooted' \subseteq Catalogs
        /\ holder' \in Lanes \cup {NoLane}
      BY <1>3, <2>1 DEF Attach, Release
  <2> QED BY <1>3, <2>2, <2>3, <2>5, <2>6 DEF Attach
<1>4. ASSUME NEW l \in Lanes, ducklake_data_roots(l)
      PROVE  (LdTypeOK /\ LaneType /\ Databases)'
  <2>1. lane[l] \in Loaded /\ lane[l].catalog \in Catalogs
      BY <1>4, LoadedMoves DEF ducklake_data_roots, Loaded
  <2>2. LaneType'
      BY <1>4, LoadedMoves DEF ducklake_data_roots, Proceed
  <2>3. \A k \in Lanes : lane'[k].at \in {"idle", "gate", "run", "resolved"} \cup Attaching
      BY <2>2 DEF Plain, Loaded
  <2>4. databases[lane[l].catalog].root \in Roots
      BY <1>4, <2>1 DEF ducklake_data_roots
  <2>5. state' \in [applied : BOOLEAN, roots : SUBSET Roots] /\ unrooted' \subseteq Catalogs
      BY <1>4, <2>1, <2>4 DEF ducklake_data_roots
  <2> QED BY <1>4, <2>2, <2>3, <2>5 DEF ducklake_data_roots
<1>5. ASSUME NEW l \in Lanes, set_search_path(l)
      PROVE  (LdTypeOK /\ LaneType /\ Databases)'
    BY <1>5 DEF set_search_path, Release, Leave, Idle, Plain, Loaded
<1>6. ASSUME NEW l \in Lanes, UserStatement(l)
      PROVE  (LdTypeOK /\ LaneType /\ Databases)'
    BY <1>6 DEF UserStatement, Call, Idle, Plain, Loaded
<1>7. ASSUME NEW l \in Lanes, ensure_lockdown(l)
      PROVE  (LdTypeOK /\ LaneType /\ Databases)'
  <2>1. LaneType'
    <3>1. CASE Leave(l)
        BY <3>1 DEF Leave, Idle, Plain
    <3>2. CASE Proceed(l, "run")
        BY <1>7, <3>2, PlainMoves DEF ensure_lockdown, Proceed
    <3> QED BY <1>7, <3>1, <3>2 DEF ensure_lockdown
  <2>2. \A k \in Lanes : lane'[k].at \in {"idle", "gate", "run", "resolved"} \cup Attaching
      BY <2>1 DEF Plain, Loaded
  <2>3. \A n \in 0..4 : lockdown_sql(n) \in [external : BOOLEAN, allowed : SUBSET Roots, locked : BOOLEAN]
      BY DEF lockdown_sql, confined
  <2>4. engine' = engine \/ \E n \in 0..4 : engine' = lockdown_sql(n)
      BY <1>7 DEF ensure_lockdown
  <2>5. engine' \in [external : BOOLEAN, allowed : SUBSET Roots, locked : BOOLEAN]
      BY <2>3, <2>4
  <2>6. state' \in [applied : BOOLEAN, roots : SUBSET Roots]
      BY <1>7 DEF ensure_lockdown
  <2> QED BY <1>7, <2>1, <2>2, <2>5, <2>6 DEF ensure_lockdown
<1>8. ASSUME NEW l \in Lanes, Run(l)
      PROVE  (LdTypeOK /\ LaneType /\ Databases)'
  <2>1. LaneType'
      BY <1>8 DEF Run, Leave, Idle, Plain
  <2>2. \A k \in Lanes : lane'[k].at \in {"idle", "gate", "run", "resolved"} \cup Attaching
      BY <2>1 DEF Plain, Loaded
  <2>3. Databases' /\ databases' \in [Catalogs -> [root : Roots \cup {NoRoot}, read_only : BOOLEAN]]
    <3> DEFINE d == [root |-> NoRoot, read_only |-> FALSE]
    <3>1. d \in [root : Roots \cup {NoRoot}, read_only : BOOLEAN]
        OBVIOUS
    <3>2. databases' = databases \/ \E c \in Catalogs : databases' = [databases EXCEPT ![c] = d]
        BY <1>8 DEF Run
    <3>3. \A c \in Catalogs : databases[c].root = NoRoot => databases[c] = d
        OBVIOUS
    <3>4. SUFFICES (\A c \in Catalogs : databases'[c].root = NoRoot => databases'[c] = d)
                   /\ databases' \in [Catalogs -> [root : Roots \cup {NoRoot}, read_only : BOOLEAN]]
        OBVIOUS
    <3> HIDE DEF d
    <3> QED BY <3>1, <3>2, <3>3
  <2>4. unrooted' \subseteq Catalogs
      BY <1>8 DEF Run
  <2> QED BY <1>8, <2>1, <2>2, <2>3, <2>4 DEF Run
<1>9. ASSUME NEW c \in Catalogs, Move(c)
      PROVE  (LdTypeOK /\ LaneType /\ Databases)'
    BY <1>9 DEF Move, Plain, Loaded
<1>10. CASE UNCHANGED ldVars
    BY <1>10
<1>11. CASE Done
    BY <1>11 DEF Done
<1>12. QED BY <1>1, <1>2, <1>3, <1>4, <1>5, <1>6, <1>7, <1>8, <1>9, <1>10, <1>11 DEF LdNext

\* Who attaches holds the mutex.
LEMMA LockStep ==
    LdTypeOK /\ LaneType /\ AttachHoldsLock /\ [LdNext]_ldVars
        => AttachHoldsLock'
<1> SUFFICES ASSUME LdTypeOK, LaneType, AttachHoldsLock, [LdNext]_ldVars
             PROVE  AttachHoldsLock'
    OBVIOUS
<1> USE DEF LdTypeOK, LaneType, Plain, Loaded, AttachHoldsLock, Attaching, ldVars
<1>1. ASSUME NEW l \in Lanes, NEW c \in Catalogs, do_action_duckvis_attach(l, c)
      PROVE  AttachHoldsLock'
    BY <1>1 DEF do_action_duckvis_attach, Call, Idle
<1>2. ASSUME NEW l \in Lanes, attach_catalog(l)
      PROVE  AttachHoldsLock'
    BY <1>2, LockdownNames DEF attach_catalog, Proceed, Leave, Idle
<1>3. ASSUME NEW l \in Lanes, Attach(l)
      PROVE  AttachHoldsLock'
    BY <1>3, LockdownNames DEF Attach, Proceed, Release, Leave, Fault, Idle
<1>4. ASSUME NEW l \in Lanes, ducklake_data_roots(l)
      PROVE  AttachHoldsLock'
    BY <1>4 DEF ducklake_data_roots, Proceed, Fault
<1>5. ASSUME NEW l \in Lanes, set_search_path(l)
      PROVE  AttachHoldsLock'
    BY <1>5, LockdownNames DEF set_search_path, Release, Leave, Idle
<1>6. ASSUME NEW l \in Lanes, UserStatement(l)
      PROVE  AttachHoldsLock'
    BY <1>6 DEF UserStatement, Call, Idle
<1>7. ASSUME NEW l \in Lanes, ensure_lockdown(l)
      PROVE  AttachHoldsLock'
    BY <1>7 DEF ensure_lockdown, Proceed, Leave, Idle, Fault, Refused, lockdown_sql
<1>8. ASSUME NEW l \in Lanes, Run(l)
      PROVE  AttachHoldsLock'
    BY <1>8 DEF Run, Leave, Idle
<1>9. ASSUME NEW c \in Catalogs, Move(c)
      PROVE  AttachHoldsLock'
    BY <1>9 DEF Move
<1>10. CASE UNCHANGED ldVars
    BY <1>10
<1>11. CASE Done
    BY <1>11 DEF Done
<1>12. QED BY <1>1, <1>2, <1>3, <1>4, <1>5, <1>6, <1>7, <1>8, <1>9, <1>10, <1>11 DEF LdNext

\* The lockdown is applied at once and for ever.
LEMMA FrozenStep ==
    LdTypeOK /\ LaneType /\ AttachHoldsLock /\ Frozen /\ LookingUp /\ [LdNext]_ldVars
        => Frozen'
<1> SUFFICES ASSUME LdTypeOK, LaneType, AttachHoldsLock, Frozen, LookingUp, [LdNext]_ldVars
             PROVE  Frozen'
    OBVIOUS
<1> USE DEF LdTypeOK, LaneType, Plain, Loaded, AttachHoldsLock, Frozen, LookingUp, Attaching, confined, ldVars
<1>1. ASSUME NEW l \in Lanes, NEW c \in Catalogs, do_action_duckvis_attach(l, c)
      PROVE  Frozen'
    BY <1>1 DEF do_action_duckvis_attach, Call, Idle
<1>2. ASSUME NEW l \in Lanes, attach_catalog(l)
      PROVE  Frozen'
    BY <1>2 DEF attach_catalog, Proceed, Leave, Idle
<1>3. ASSUME NEW l \in Lanes, Attach(l)
      PROVE  Frozen'
  <2>1. CASE Release(l) /\ UNCHANGED <<state, engine, auth>>
      BY <2>1 DEF Release, Leave, Idle
  <2>2. CASE Proceed(l, "roots") /\ ~state.applied /\ UNCHANGED <<engine, auth>>
              /\ state' = [state EXCEPT !.roots = @ \cup ({lane[l].data_path} \ {NoRoot})]
    <3>1. \A k \in Lanes : lane'[k].at = "run" => lane[k].at = "run"
        BY <2>2, <1>3 DEF Proceed, Attach
    <3>2. state'.applied = state.applied
        BY <2>2
    <3> QED BY <2>2, <3>1, <3>2
  <2>3. CASE Proceed(l, "search_path") /\ UNCHANGED <<state, engine, auth>>
    <3>1. \A k \in Lanes : lane'[k].at = "run" => lane[k].at = "run"
        BY <2>3, <1>3 DEF Proceed, Attach
    <3> QED BY <2>3, <3>1
  <2> QED BY <1>3, <2>1, <2>2, <2>3 DEF Attach, confined
<1>4. ASSUME NEW l \in Lanes, ducklake_data_roots(l)
      PROVE  Frozen'
    BY <1>4 DEF ducklake_data_roots, Proceed, Fault
<1>5. ASSUME NEW l \in Lanes, set_search_path(l)
      PROVE  Frozen'
    BY <1>5 DEF set_search_path, Release, Leave, Idle
<1>6. ASSUME NEW l \in Lanes, UserStatement(l)
      PROVE  Frozen'
    BY <1>6 DEF UserStatement, Call, Idle
<1>7. ASSUME NEW l \in Lanes, ensure_lockdown(l)
      PROVE  Frozen'
  <2>1. CASE state.applied /\ UNCHANGED <<state, engine>>
      BY <1>7, <2>1 DEF ensure_lockdown
  <2>2. CASE ~state.applied /\ engine' = lockdown_sql(4)
              /\ state' = [state EXCEPT !.applied = TRUE]
    <3>1. engine'.locked /\ (confined => ~engine'.external /\ engine'.allowed = state.roots)
      <4>0. engine'.locked = (4 >= 4)
          BY <2>2 DEF lockdown_sql
      <4>1. engine'.locked
        <5>1. 4 >= 4
            OBVIOUS
        <5> QED BY <4>0, <5>1, Zenon
      <4>2. engine'.external = (engine.external /\ ~(confined /\ 4 >= 3))
          BY <2>2 DEF lockdown_sql
      <4>3. confined => engine'.allowed = state.roots
          BY <2>2 DEF lockdown_sql
      <4>4. confined => ~engine'.external
          BY <4>2
      <4> QED BY <4>1, <4>3, <4>4
    <3>2. state'.applied /\ state'.roots = state.roots
        BY <2>2
    <3> QED BY <1>7, <3>1, <3>2 DEF ensure_lockdown
  <2>3. CASE ~state.applied /\ (\E n \in 0..3 : engine' = lockdown_sql(n))
              /\ Leave(l) /\ UNCHANGED state
    <3>1. ~engine'.locked
        BY <2>3 DEF lockdown_sql
    <3> QED BY <2>3, <3>1 DEF Leave, Idle
  <2>4. CASE ~state.applied /\ Leave(l) /\ UNCHANGED <<state, engine>>
      BY <1>7, <2>4 DEF Leave, Idle
  <2> QED BY <1>7, <2>1, <2>2, <2>3, <2>4 DEF ensure_lockdown
<1>8. ASSUME NEW l \in Lanes, Run(l)
      PROVE  Frozen'
    BY <1>8 DEF Run, Leave, Idle
<1>9. ASSUME NEW c \in Catalogs, Move(c)
      PROVE  Frozen'
    BY <1>9 DEF Move
<1>10. CASE UNCHANGED ldVars
    BY <1>10
<1>11. CASE Done
    BY <1>11 DEF Done
<1>12. QED BY <1>1, <1>2, <1>3, <1>4, <1>5, <1>6, <1>7, <1>8, <1>9, <1>10, <1>11 DEF LdNext

\* Nobody detaches or locks down while roots are looked up.
LEMMA LookUpStep ==
    LdTypeOK /\ LaneType /\ Databases /\ AttachHoldsLock /\ Frozen /\ LookingUp /\ [LdNext]_ldVars
        => LookingUp'
<1> SUFFICES ASSUME LdTypeOK, LaneType, Databases, AttachHoldsLock, Frozen, LookingUp, [LdNext]_ldVars
             PROVE  LookingUp'
    OBVIOUS
<1> USE DEF LdTypeOK, LaneType, Plain, Loaded, Databases, AttachHoldsLock, Frozen,
            LookingUp, Attaching, ldVars
<1>1. ASSUME NEW l \in Lanes, NEW c \in Catalogs, do_action_duckvis_attach(l, c)
      PROVE  LookingUp'
    BY <1>1 DEF do_action_duckvis_attach, Call, Idle
<1>2. ASSUME NEW l \in Lanes, attach_catalog(l)
      PROVE  LookingUp'
    BY <1>2 DEF attach_catalog, Proceed, Leave, Idle
<1>3. ASSUME NEW l \in Lanes, Attach(l)
      PROVE  LookingUp'
    BY <1>3, LockdownNames DEF Attach, Proceed, Release, Leave, Fault, Idle
<1>4. ASSUME NEW l \in Lanes, ducklake_data_roots(l)
      PROVE  LookingUp'
    BY <1>4 DEF ducklake_data_roots, Proceed, Fault
<1>5. ASSUME NEW l \in Lanes, set_search_path(l)
      PROVE  LookingUp'
    BY <1>5 DEF set_search_path, Release, Leave, Idle
<1>6. ASSUME NEW l \in Lanes, UserStatement(l)
      PROVE  LookingUp'
    BY <1>6 DEF UserStatement, Call, Idle
<1>7. ASSUME NEW l \in Lanes, ensure_lockdown(l)
      PROVE  LookingUp'
    BY <1>7, LockdownNames DEF ensure_lockdown, Proceed, Leave, Idle, Fault, Refused, lockdown_sql
<1>8. ASSUME NEW l \in Lanes, Run(l)
      PROVE  LookingUp'
    BY <1>8 DEF Run, Leave, Idle
<1>9. ASSUME NEW c \in Catalogs, Move(c)
      PROVE  LookingUp'
    BY <1>9 DEF Move
<1>10. CASE UNCHANGED ldVars
    BY <1>10
<1>11. CASE Done
    BY <1>11 DEF Done
<1>12. QED BY <1>1, <1>2, <1>3, <1>4, <1>5, <1>6, <1>7, <1>8, <1>9, <1>10, <1>11 DEF LdNext

\* No attached lake's root is forgotten.
LEMMA RootedStep ==
    LdTypeOK /\ LaneType /\ Databases /\ AttachHoldsLock /\ Frozen /\ LookingUp /\ Rooted /\ [LdNext]_ldVars
        => Rooted'
<1> SUFFICES ASSUME LdTypeOK, LaneType, Databases, AttachHoldsLock, Frozen, LookingUp, Rooted, [LdNext]_ldVars
             PROVE  Rooted'
    OBVIOUS
<1> USE DEF LdTypeOK, LaneType, Plain, Loaded, Databases, Frozen, Rooted, Attaching,
            Attached, Detached, confined, ldVars
<1>1. ASSUME NEW l \in Lanes, NEW c \in Catalogs, do_action_duckvis_attach(l, c)
      PROVE  Rooted'
    BY <1>1 DEF do_action_duckvis_attach, Call, Idle
<1>2. ASSUME NEW l \in Lanes, attach_catalog(l)
      PROVE  Rooted'
    BY SMTT(30), <1>2 DEF attach_catalog, Proceed, Leave, Idle
<1>3. ASSUME NEW l \in Lanes, Attach(l)
      PROVE  Rooted'
  <2>1. CASE Release(l) /\ UNCHANGED <<databases, state, unrooted, auth>>
      BY <1>3, <2>1 DEF Attach, Release, Leave, Idle
  <2>2. CASE Proceed(l, "roots") /\ UNCHANGED <<unrooted, auth>> /\ state.roots \subseteq state'.roots
              /\ databases' = [databases EXCEPT ![lane[l].catalog] =
                                 [root |-> lake[lane[l].catalog], read_only |-> lane[l].read_only]]
    <3>1. lane'[l].at = "roots" /\ lane'[l].catalog = lane[l].catalog
        BY <1>3, <2>2 DEF Attach, Proceed
    <3>2. \A k \in Lanes : k # l => lane'[k] = lane[k]
        BY <2>2 DEF Proceed
    <3>3. \A c \in Catalogs : c # lane[l].catalog => databases'[c] = databases[c]
        BY <2>2
    <3>4. lane[l].at # "roots"
        BY <1>3 DEF Attach
    <3>5. SUFFICES ASSUME confined, NEW c \in Catalogs, Attached(c)', c \notin unrooted'
                   PROVE  \/ databases'[c].root \in state'.roots
                          \/ \E k \in Lanes : lane'[k].at = "roots" /\ lane'[k].catalog = c
        BY <2>2
    <3>6. CASE c = lane[l].catalog
        BY <3>1, <3>6
    <3>7. CASE c # lane[l].catalog
      <4>1. Attached(c) /\ c \notin unrooted /\ databases'[c].root = databases[c].root
          BY <2>2, <3>3, <3>5, <3>7
      <4>2. CASE databases[c].root \in state.roots
          BY <2>2, <4>1, <4>2
      <4>3. CASE \E k \in Lanes : lane[k].at = "roots" /\ lane[k].catalog = c
          BY <3>2, <3>4, <4>3
      <4> QED BY <3>5, <4>1, <4>2, <4>3
    <3> QED BY <3>6, <3>7
  <2>3. CASE /\ Proceed(l, "search_path") /\ UNCHANGED <<state, auth>>
             /\ unrooted' = IF lake[lane[l].catalog] = databases[lane[l].catalog].root
                            THEN unrooted ELSE unrooted \cup {lane[l].catalog}
             /\ databases' = [databases EXCEPT ![lane[l].catalog] =
                                 [root |-> lake[lane[l].catalog], read_only |-> lane[l].read_only]]
    <3> DEFINE b == lane[l].catalog
    <3>0. b \in Catalogs
        BY <1>3, LoadedMoves DEF Attach
    <3>1. \A k \in Lanes : k # l => lane'[k] = lane[k]
        BY <2>3 DEF Proceed
    <3>2. \A c \in Catalogs : c # b => databases'[c] = databases[c]
        BY <2>3
    <3>3. lane[l].at # "roots"
        BY <1>3 DEF Attach
    <3>4. b \notin unrooted' => databases[b].root = lake[b] /\ databases'[b].root = lake[b]
                               /\ b \notin unrooted
        BY <2>3, <3>0
    <3>5. lake[b] \in Roots
        BY <3>0
    <3>6. b \notin unrooted' => databases[b].root # NoRoot
        BY <3>4, <3>5, LockdownNames
    <3>7. \A c \in Catalogs : c \notin unrooted' => c \notin unrooted
        BY <2>3
    <3> HIDE DEF b
    <3>8. ASSUME NEW c \in Catalogs, confined, Attached(c)', c \notin unrooted'
          PROVE  databases[c].root = databases'[c].root /\ Attached(c) /\ c \notin unrooted
      <4>1. CASE c = b
          BY <3>4, <3>6, <3>8, <4>1
      <4>2. CASE c # b
          BY <3>2, <3>7, <3>8, <4>2
      <4> QED BY <4>1, <4>2
    <3> QED BY <2>3, <3>1, <3>3, <3>8
  <2>4. UNCHANGED auth /\ (confined <=> auth = "reader")
      BY <1>3 DEF Attach, confined
  <2>5. state' = [state EXCEPT !.roots = @ \cup ({lane[l].data_path} \ {NoRoot})]
          => state.roots \subseteq state'.roots
      OBVIOUS
  <2> DEFINE FailsHere == Fault /\ Release(l) /\ UNCHANGED <<databases, state, unrooted>>
  <2>6. CASE FailsHere
      BY <2>1, <2>4, <2>6
  <2>7. CASE confined /\ ~state.applied /\ ~FailsHere
      BY <1>3, <2>1, <2>2, <2>4, <2>5, <2>7 DEF Attach
  <2>8. CASE ~(confined /\ ~state.applied) /\ ~FailsHere
      BY <1>3, <2>1, <2>3, <2>4, <2>8 DEF Attach
  <2> QED BY <1>3, <2>6, <2>7, <2>8
<1>4. ASSUME NEW l \in Lanes, ducklake_data_roots(l)
      PROVE  Rooted'
    BY <1>4 DEF ducklake_data_roots, Proceed, Fault
<1>5. ASSUME NEW l \in Lanes, set_search_path(l)
      PROVE  Rooted'
    BY <1>5 DEF set_search_path, Release, Leave, Idle
<1>6. ASSUME NEW l \in Lanes, UserStatement(l)
      PROVE  Rooted'
    BY <1>6 DEF UserStatement, Call, Idle
<1>7. ASSUME NEW l \in Lanes, ensure_lockdown(l)
      PROVE  Rooted'
    BY <1>7 DEF ensure_lockdown, Proceed, Leave, Idle, Fault, Refused, lockdown_sql
<1>8. ASSUME NEW l \in Lanes, Run(l)
      PROVE  Rooted'
  <2>1. \A k \in Lanes : lane[k].at = "roots" => lane'[k] = lane[k]
      BY <1>8 DEF Run, Leave
  <2>2. CASE UNCHANGED <<databases, unrooted>>
      BY <1>8, <2>1, <2>2 DEF Run
  <2>3. CASE \E c \in Catalogs :
               /\ databases' = [databases EXCEPT ![c] = Detached]
               /\ unrooted' = unrooted \ {c}
    <3>1. PICK b \in Catalogs : /\ databases' = [databases EXCEPT ![b] = Detached]
                                /\ unrooted' = unrooted \ {b}
        BY <2>3
    <3>2. databases'[b] = Detached
        BY <3>1
    <3>3. \A c \in Catalogs : c # b => databases'[c] = databases[c]
        BY <3>1
    <3>4. \A c \in Catalogs : Attached(c)' /\ c \notin unrooted' =>
            Attached(c) /\ c \notin unrooted /\ databases'[c].root = databases[c].root
      <4>1. SUFFICES ASSUME NEW c \in Catalogs, databases'[c] # Detached, c \notin unrooted'
                     PROVE  databases[c] # Detached /\ c \notin unrooted
                            /\ databases'[c].root = databases[c].root
          OBVIOUS
      <4>2. c # b
          BY <3>2, <4>1
      <4> QED BY <3>1, <3>3, <4>1, <4>2
    <3>5. SUFFICES ASSUME confined, NEW c \in Catalogs, Attached(c)', c \notin unrooted'
                   PROVE  \/ databases'[c].root \in state'.roots
                          \/ \E k \in Lanes : lane'[k].at = "roots" /\ lane'[k].catalog = c
        BY <1>8 DEF Run
    <3>6. Attached(c) /\ c \notin unrooted /\ databases'[c].root = databases[c].root
        BY <3>4, <3>5
    <3>7. CASE databases[c].root \in state.roots
        BY <1>8, <3>6, <3>7 DEF Run
    <3>8. CASE \E k \in Lanes : lane[k].at = "roots" /\ lane[k].catalog = c
        BY <2>1, <3>8
    <3> QED BY <3>5, <3>6, <3>7, <3>8
  <2> QED BY <1>8, <2>2, <2>3 DEF Run
<1>9. ASSUME NEW c \in Catalogs, Move(c)
      PROVE  Rooted'
    BY <1>9 DEF Move
<1>10. CASE UNCHANGED ldVars
    BY <1>10
<1>11. CASE Done
    BY <1>11 DEF Done
<1>12. QED BY <1>1, <1>2, <1>3, <1>4, <1>5, <1>6, <1>7, <1>8, <1>9, <1>10, <1>11 DEF LdNext

-----------------------------------------------------------------------------
(* The theorems.                                                             *)

\* It holds at first.
LEMMA LockdownStart == LdInit => LockdownInv
<1> SUFFICES ASSUME LdInit PROVE LockdownInv
    OBVIOUS
<1> USE DEF LdInit, Idle, Detached, Attaching, Plain
<1>1. LdTypeOK /\ LaneType /\ Databases
    BY DEF LdTypeOK, LaneType, Databases
<1>2. AttachHoldsLock /\ Frozen /\ LookingUp
    BY DEF AttachHoldsLock, Frozen, LookingUp
<1>3. Rooted
    BY DEF Rooted, Attached
<1> QED BY <1>1, <1>2, <1>3 DEF LockdownInv

\* It holds always.
LEMMA LockdownInductive == LdSpec => []LockdownInv
<1>1. LockdownInv /\ [LdNext]_ldVars => LockdownInv'
  <2> SUFFICES ASSUME LockdownInv, [LdNext]_ldVars PROVE LockdownInv'
      OBVIOUS
  <2>1. (LdTypeOK /\ LaneType /\ Databases)' BY LockdownTypeStep DEF LockdownInv
  <2>2. AttachHoldsLock' BY LockStep DEF LockdownInv
  <2>3. Frozen' BY FrozenStep DEF LockdownInv
  <2>4. LookingUp' BY LookUpStep DEF LockdownInv
  <2>5. Rooted' BY RootedStep DEF LockdownInv
  <2> QED BY <2>1, <2>2, <2>3, <2>4, <2>5 DEF LockdownInv
<1> QED BY LockdownStart, <1>1, PTL DEF LdSpec

\* The state of SessionLockdown stays well typed.
THEOREM LockdownTypeCorrect == LdSpec => []LdTypeOK
<1>1. LockdownInv => LdTypeOK
    BY DEF LockdownInv
<1> QED BY LockdownInductive, <1>1, PTL

\* No user statement reaches an engine that is not locked down.
THEOREM UserSqlIsLocked == LdSpec => []LockedBeforeUserSql
<1>1. LockdownInv => LockedBeforeUserSql
    BY DEF LockdownInv, Frozen, LockedBeforeUserSql
<1> QED BY LockdownInductive, <1>1, PTL

\* What a confined session has attached it can read, whatever order attachments,
\* statements, failures and moves came in.
THEOREM AttachmentsReadable == LdSpec => []AttachedIsReadable
<1>1. LockdownInv => AttachedIsReadable
    BY DEF LockdownInv, Frozen, LookingUp, Rooted, AttachedIsReadable
<1> QED BY LockdownInductive, <1>1, PTL

\* An attachment and the lockdown never overlap.
THEOREM AttachmentsExcluded == LdSpec => []AttachHoldsLock
<1>1. LockdownInv => AttachHoldsLock
    BY DEF LockdownInv
<1> QED BY LockdownInductive, <1>1, PTL
=================================================================================
