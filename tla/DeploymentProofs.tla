-------------------------- MODULE DeploymentProofs --------------------------
(***************************************************************************)
(* Proofs about the three components whose state outlives a session and is *)
(* shared beyond one server: guarded execution (the starts of a server and *)
(* their owner file), checkpoint maintenance (the instances and the lock   *)
(* and table they have in PostgreSQL) and duckvis authentication (the      *)
(* requests, the two credentials of the server and duckvis-api).  Nothing  *)
(* joins them but this module; each part has an invariant of its own, for  *)
(* any number of starts and calls, of instances and databases, of requests.*)
(***************************************************************************)
EXTENDS GuardedExecution, Checkpoints, DuckvisTokens, SequenceTheorems, TLAPS

-----------------------------------------------------------------------------
(***************************************************************************)
(* Guarded execution.                                                      *)
(*                                                                         *)
(* The argument: with an owner path every live process holds the lock, so  *)
(* at most one lives (OneLives); an owner is served only by a process that *)
(* holds it, and no longer changes (Serves); so when the loader is told a  *)
(* new generation with an owner, every other generation with one has       *)
(* exited (Superseded), and a call executes only in the generation it was  *)
(* meant for (InItsGeneration).                                            *)
(***************************************************************************)

\* With an owner path, the lock is held by whoever lives; without, nobody has one.
OneLives ==
    /\ \A p \in Processes : configured /\ proc[p] \in Live => lockedBy = p
    /\ \A p \in Processes : ~configured => proc[p] \notin {"locked", "writing", "written"}
                                           /\ owner[p] = NoProcess

\* Only a process that serves, or has served, has an owner.
Serves == \A p \in Processes : owner[p] # NoProcess => proc[p] \in {"serving", "draining", "exited"}

\* The text of the file while an owner is created, and after it was synced.
FileStates ==
    /\ \A p \in Processes : proc[p] = "writing" => file = NoProcess
    /\ \A p \in Processes : proc[p] = "written" => file = p
    /\ \A p \in Processes : file = p \/ disk = p => proc[p] \notin {"unborn", "locked", "writing"}
    /\ \A p, q \in Processes :
          owner[q] = q => file = q /\ disk = q /\ proc[p] \notin {"writing", "written"}

\* A call executes in the generation it was meant for, which lives.
InItsGeneration ==
    \A c \in Calls : Executing(c) => /\ call[c].by \in Processes
                                     /\ meant[c].generation = call[c].by
                                     /\ proc[call[c].by] \in {"serving", "draining"}

\* What the loader knows of an identity is true.
IdentityTrue(i) ==
    i.generation \in Processes => /\ i.owner = owner[i.generation]
                                  /\ proc[i.generation] \in {"serving", "draining", "exited"}
KnownTrue == IdentityTrue(known) /\ \A c \in Calls : IdentityTrue(meant[c])
Named ==
    /\ known # NoIdentity => known.generation \in Processes
    /\ \A c \in Calls : reply[c] # "none" => meant[c].generation \in Processes
    /\ \A c \in Calls : reply[c] = "none" => call[c].at = "unsent"

\* A generation with an owner that is not the last known one has exited.
Superseded ==
    \A c \in Calls : (/\ meant[c].generation \in Processes
                      /\ meant[c].generation # known.generation
                      /\ meant[c].owner # NoProcess)
                         => proc[meant[c].generation] = "exited"

\* The loader concludes only what is so.
ConcludedOver ==
    \A c \in Calls : c[1] \in concluded /\ reply[c] # "none"
                        => proc[meant[c].generation] = "exited"

GuardedInv ==
    /\ TypeOK /\ OneLives /\ Serves /\ FileStates /\ InItsGeneration /\ KnownTrue /\ Named
    /\ Superseded /\ ConcludedOver /\ OneActivePerId

-----------------------------------------------------------------------------
\* Names of processes, null and a damaged file are told apart.
LEMMA Names == NoProcess \notin Processes /\ Damaged \notin Owners
  BY NamesAssumption DEF Owners

\* Every step keeps the types.
LEMMA TypeStep == TypeOK /\ FileStates /\ [Next]_vars => TypeOK'
<1> SUFFICES ASSUME TypeOK, FileStates, [Next]_vars PROVE TypeOK'
    OBVIOUS
<1> USE DEF TypeOK, FileStates, Live, Owners, Identities, Executing, Nowhere, vars,
            processVars, clientVars
<1>1. ASSUME NEW p \in Processes, for_process(p) PROVE TypeOK'
    BY <1>1 DEF for_process, Goto
<1>2. ASSUME NEW p \in Processes, read_owner(p) PROVE TypeOK'
    BY <1>2 DEF read_owner, Goto, Unlocked
<1>3. ASSUME NEW p \in Processes, write_owner(p) PROVE TypeOK'
    BY <1>3 DEF write_owner, Goto, Unlocked
<1>4. ASSUME NEW p \in Processes, sync_owner(p) PROVE TypeOK'
    BY <1>4, Names DEF sync_owner, Goto
<1>5. ASSUME NEW p \in Processes, Shutdown(p) PROVE TypeOK'
    BY <1>5 DEF Shutdown, Goto
<1>6. ASSUME NEW p \in Processes, Exit(p) PROVE TypeOK'
    BY <1>6 DEF Exit, Goto, Unlocked, Ended
<1>7. ASSUME NEW p \in Processes, do_action_execution_identity(p) PROVE TypeOK'
    BY <1>7 DEF do_action_execution_identity
<1>8. ASSUME NEW p \in Processes, NEW c \in Calls, do_action_execute(p, c) PROVE TypeOK'
  <2>1. CASE /\ meant[c].generation = p /\ ~ActiveId(p, c[1])
                /\ call' = [call EXCEPT ![c] = [at |-> "executing", by |-> p]]
                /\ UNCHANGED reply
    BY <1>8, <2>1 DEF do_action_execute, ActiveId
  <2>2. CASE call' = [call EXCEPT ![c] = [at |-> "over", by |-> p]] /\ Envelope(c)
    BY <1>8, <2>2 DEF do_action_execute, Envelope
  <2> QED BY <1>8, <2>1, <2>2 DEF do_action_execute
<1>9. ASSUME NEW p \in Processes, NEW c \in Calls, do_action_execute_guarded(p, c) PROVE TypeOK'
    BY <1>9 DEF do_action_execute_guarded, Envelope
<1>10. ASSUME PowerFailure PROVE TypeOK'
    BY <1>10 DEF PowerFailure, Ended
<1>11. ASSUME NEW c \in Calls, Send(c) PROVE TypeOK'
    BY <1>11 DEF Send
<1>12. ASSUME NEW c \in Calls, Disconnect(c) PROVE TypeOK'
    BY <1>12 DEF Disconnect
<1>13. ASSUME NEW r \in Requests, Conclude(r) PROVE TypeOK'
    BY <1>13 DEF Conclude
<1>14. CASE UNCHANGED vars
    BY <1>14
<1>15. QED BY <1>1, <1>2, <1>3, <1>4, <1>5, <1>6, <1>7, <1>8, <1>9, <1>10,
            <1>11, <1>12, <1>13, <1>14 DEF Next

\* Only who finds the lock free takes it, and it is freed only when its holder ends.
LEMMA LivesStep == TypeOK /\ OneLives /\ Serves /\ [Next]_vars => (OneLives /\ Serves)'
<1> SUFFICES ASSUME TypeOK, OneLives, Serves, [Next]_vars PROVE (OneLives /\ Serves)'
    OBVIOUS
<1> USE DEF TypeOK, OneLives, Serves, Live, Owners, vars, processVars, clientVars
<1>1. ASSUME NEW p \in Processes, for_process(p) PROVE (OneLives /\ Serves)'
    BY <1>1, Names DEF for_process, Goto
<1>2. ASSUME NEW p \in Processes, read_owner(p) PROVE (OneLives /\ Serves)'
    BY <1>2, Names DEF read_owner, Goto, Unlocked
<1>3. ASSUME NEW p \in Processes, write_owner(p) PROVE (OneLives /\ Serves)'
    BY <1>3, Names DEF write_owner, Goto, Unlocked
<1>4. ASSUME NEW p \in Processes, sync_owner(p) PROVE (OneLives /\ Serves)'
    BY <1>4 DEF sync_owner, Goto
<1>5. ASSUME NEW p \in Processes, Shutdown(p) PROVE (OneLives /\ Serves)'
    BY <1>5 DEF Shutdown, Goto
<1>6. ASSUME NEW p \in Processes, Exit(p) PROVE (OneLives /\ Serves)'
    BY <1>6, Names DEF Exit, Goto, Unlocked, Ended
<1>7. ASSUME NEW p \in Processes, do_action_execution_identity(p) PROVE (OneLives /\ Serves)'
    BY <1>7 DEF do_action_execution_identity
<1>8. ASSUME NEW p \in Processes, NEW c \in Calls, do_action_execute(p, c) PROVE (OneLives /\ Serves)'
    BY <1>8 DEF do_action_execute, Envelope, ActiveId
<1>9. ASSUME NEW p \in Processes, NEW c \in Calls, do_action_execute_guarded(p, c)
        PROVE (OneLives /\ Serves)'
    BY <1>9 DEF do_action_execute_guarded, Envelope
<1>10. ASSUME PowerFailure PROVE (OneLives /\ Serves)'
    BY <1>10, Names DEF PowerFailure, Ended
<1>11. ASSUME NEW c \in Calls, Send(c) PROVE (OneLives /\ Serves)'
    BY <1>11 DEF Send
<1>12. ASSUME NEW c \in Calls, Disconnect(c) PROVE (OneLives /\ Serves)'
    BY <1>12 DEF Disconnect
<1>13. ASSUME NEW r \in Requests, Conclude(r) PROVE (OneLives /\ Serves)'
    BY <1>13 DEF Conclude
<1>14. CASE UNCHANGED vars
    BY <1>14
<1>15. QED BY <1>1, <1>2, <1>3, <1>4, <1>5, <1>6, <1>7, <1>8, <1>9, <1>10,
            <1>11, <1>12, <1>13, <1>14 DEF Next

\* Who creates the owner is alone with the file, and a synced text survives.
LEMMA FileStep == TypeOK /\ OneLives /\ Serves /\ FileStates /\ [Next]_vars => FileStates'
<1> SUFFICES ASSUME TypeOK, OneLives, Serves, FileStates, [Next]_vars PROVE FileStates'
    OBVIOUS
<1> USE DEF TypeOK, OneLives, Serves, FileStates, Live, Owners, vars, processVars, clientVars
<1>1. ASSUME NEW p \in Processes, for_process(p) PROVE FileStates'
    BY <1>1, Names DEF for_process, Goto
<1>2. ASSUME NEW p \in Processes, read_owner(p) PROVE FileStates'
    BY <1>2, Names DEF read_owner, Goto, Unlocked
<1>3. ASSUME NEW p \in Processes, write_owner(p) PROVE FileStates'
    BY <1>3, Names DEF write_owner, Goto, Unlocked
<1>4. ASSUME NEW p \in Processes, sync_owner(p) PROVE FileStates'
    BY <1>4, Names DEF sync_owner, Goto
<1>5. ASSUME NEW p \in Processes, Shutdown(p) PROVE FileStates'
    BY <1>5, Names DEF Shutdown, Goto
<1>6. ASSUME NEW p \in Processes, Exit(p) PROVE FileStates'
    BY <1>6, Names DEF Exit, Goto, Unlocked, Ended
<1>7. ASSUME NEW p \in Processes, do_action_execution_identity(p) PROVE FileStates'
    BY <1>7 DEF do_action_execution_identity
<1>8. ASSUME NEW p \in Processes, NEW c \in Calls, do_action_execute(p, c) PROVE FileStates'
    BY <1>8, Names DEF do_action_execute, Envelope, ActiveId
<1>9. ASSUME NEW p \in Processes, NEW c \in Calls, do_action_execute_guarded(p, c) PROVE FileStates'
    BY <1>9, Names DEF do_action_execute_guarded, Envelope
<1>10. ASSUME PowerFailure PROVE FileStates'
    BY <1>10, Names DEF PowerFailure, Ended
<1>11. ASSUME NEW c \in Calls, Send(c) PROVE FileStates'
    BY <1>11 DEF Send
<1>12. ASSUME NEW c \in Calls, Disconnect(c) PROVE FileStates'
    BY <1>12 DEF Disconnect
<1>13. ASSUME NEW r \in Requests, Conclude(r) PROVE FileStates'
    BY <1>13 DEF Conclude
<1>14. CASE UNCHANGED vars
    BY <1>14
<1>15. QED BY <1>1, <1>2, <1>3, <1>4, <1>5, <1>6, <1>7, <1>8, <1>9, <1>10,
            <1>11, <1>12, <1>13, <1>14 DEF Next

\* A call executes where it was meant to, once per id.
LEMMA CallStep == TypeOK /\ Named /\ InItsGeneration /\ OneActivePerId /\ [Next]_vars
        => (InItsGeneration /\ OneActivePerId)'
<1> SUFFICES ASSUME TypeOK, Named, InItsGeneration, OneActivePerId, [Next]_vars
        PROVE (InItsGeneration /\ OneActivePerId)'
    OBVIOUS
<1> USE DEF TypeOK, Named, InItsGeneration, OneActivePerId, Executing, Live, vars, processVars, clientVars
<1>1. ASSUME NEW p \in Processes, for_process(p) PROVE (InItsGeneration /\ OneActivePerId)'
    BY <1>1 DEF for_process, Goto
<1>2. ASSUME NEW p \in Processes, read_owner(p) PROVE (InItsGeneration /\ OneActivePerId)'
    BY <1>2 DEF read_owner, Goto, Unlocked
<1>3. ASSUME NEW p \in Processes, write_owner(p) PROVE (InItsGeneration /\ OneActivePerId)'
    BY <1>3 DEF write_owner, Goto, Unlocked
<1>4. ASSUME NEW p \in Processes, sync_owner(p) PROVE (InItsGeneration /\ OneActivePerId)'
    BY <1>4 DEF sync_owner, Goto
<1>5. ASSUME NEW p \in Processes, Shutdown(p) PROVE (InItsGeneration /\ OneActivePerId)'
    BY <1>5 DEF Shutdown, Goto
<1>6. ASSUME NEW p \in Processes, Exit(p) PROVE (InItsGeneration /\ OneActivePerId)'
    BY <1>6 DEF Exit, Goto, Unlocked, Ended
<1>7. ASSUME NEW p \in Processes, do_action_execution_identity(p)
        PROVE (InItsGeneration /\ OneActivePerId)'
    BY <1>7 DEF do_action_execution_identity
<1>8. ASSUME NEW p \in Processes, NEW c \in Calls, do_action_execute(p, c)
        PROVE (InItsGeneration /\ OneActivePerId)'
  <2>1. CASE /\ meant[c].generation = p /\ ~ActiveId(p, c[1])
                /\ call' = [call EXCEPT ![c] = [at |-> "executing", by |-> p]]
                /\ UNCHANGED reply
    BY <1>8, <2>1 DEF do_action_execute, ActiveId
  <2>2. CASE call' = [call EXCEPT ![c] = [at |-> "over", by |-> p]] /\ Envelope(c)
    BY <1>8, <2>2 DEF do_action_execute, Envelope
  <2> QED BY <1>8, <2>1, <2>2 DEF do_action_execute
<1>9. ASSUME NEW p \in Processes, NEW c \in Calls, do_action_execute_guarded(p, c)
        PROVE (InItsGeneration /\ OneActivePerId)'
    BY <1>9 DEF do_action_execute_guarded, Envelope
<1>10. ASSUME PowerFailure PROVE (InItsGeneration /\ OneActivePerId)'
    BY <1>10 DEF PowerFailure, Ended
<1>11. ASSUME NEW c \in Calls, Send(c) PROVE (InItsGeneration /\ OneActivePerId)'
    BY <1>11 DEF Send
<1>12. ASSUME NEW c \in Calls, Disconnect(c) PROVE (InItsGeneration /\ OneActivePerId)'
    BY <1>12 DEF Disconnect
<1>13. ASSUME NEW r \in Requests, Conclude(r) PROVE (InItsGeneration /\ OneActivePerId)'
    BY <1>13 DEF Conclude
<1>14. CASE UNCHANGED vars
    BY <1>14
<1>15. QED BY <1>1, <1>2, <1>3, <1>4, <1>5, <1>6, <1>7, <1>8, <1>9, <1>10,
            <1>11, <1>12, <1>13, <1>14 DEF Next

\* What the loader was told stays true.
LEMMA KnownStep == TypeOK /\ OneLives /\ Serves /\ KnownTrue /\ Named /\ [Next]_vars
        => (KnownTrue /\ Named)'
<1> SUFFICES ASSUME TypeOK, OneLives, Serves, KnownTrue, Named, [Next]_vars PROVE (KnownTrue /\ Named)'
    OBVIOUS
<1> USE DEF TypeOK, OneLives, Serves, KnownTrue, Named, IdentityTrue, NoIdentity, Live,
            Executing, vars, processVars, clientVars
<1>1. ASSUME NEW p \in Processes, for_process(p) PROVE (KnownTrue /\ Named)'
    BY <1>1, Names DEF for_process, Goto
<1>2. ASSUME NEW p \in Processes, read_owner(p) PROVE (KnownTrue /\ Named)'
    BY <1>2, Names DEF read_owner, Goto, Unlocked
<1>3. ASSUME NEW p \in Processes, write_owner(p) PROVE (KnownTrue /\ Named)'
    BY <1>3, Names DEF write_owner, Goto, Unlocked
<1>4. ASSUME NEW p \in Processes, sync_owner(p) PROVE (KnownTrue /\ Named)'
    BY <1>4, Names DEF sync_owner, Goto
<1>5. ASSUME NEW p \in Processes, Shutdown(p) PROVE (KnownTrue /\ Named)'
    BY <1>5, Names DEF Shutdown, Goto
<1>6. ASSUME NEW p \in Processes, Exit(p) PROVE (KnownTrue /\ Named)'
    BY <1>6, Names DEF Exit, Goto, Unlocked, Ended
<1>7. ASSUME NEW p \in Processes, do_action_execution_identity(p) PROVE (KnownTrue /\ Named)'
    BY <1>7, Names DEF do_action_execution_identity
<1>8. ASSUME NEW p \in Processes, NEW c \in Calls, do_action_execute(p, c) PROVE (KnownTrue /\ Named)'
    BY <1>8, Names DEF do_action_execute, Envelope, ActiveId
<1>9. ASSUME NEW p \in Processes, NEW c \in Calls, do_action_execute_guarded(p, c)
        PROVE (KnownTrue /\ Named)'
    BY <1>9, Names DEF do_action_execute_guarded, Envelope
<1>10. ASSUME PowerFailure PROVE (KnownTrue /\ Named)'
    BY <1>10, Names DEF PowerFailure, Ended
<1>11. ASSUME NEW c \in Calls, Send(c) PROVE (KnownTrue /\ Named)'
    BY <1>11, Names DEF Send
<1>12. ASSUME NEW c \in Calls, Disconnect(c) PROVE (KnownTrue /\ Named)'
    BY <1>12 DEF Disconnect
<1>13. ASSUME NEW r \in Requests, Conclude(r) PROVE (KnownTrue /\ Named)'
    BY <1>13 DEF Conclude
<1>14. CASE UNCHANGED vars
    BY <1>14
<1>15. QED BY <1>1, <1>2, <1>3, <1>4, <1>5, <1>6, <1>7, <1>8, <1>9, <1>10,
            <1>11, <1>12, <1>13, <1>14 DEF Next

\* A new generation with an owner is served only after the others have exited.
LEMMA SupersededStep == TypeOK /\ OneLives /\ Serves /\ KnownTrue /\ Named /\ Superseded
        /\ ConcludedOver /\ [Next]_vars
        => (Superseded /\ ConcludedOver)'
<1> SUFFICES ASSUME TypeOK, OneLives, Serves, KnownTrue, Named, Superseded, ConcludedOver, [Next]_vars
        PROVE (Superseded /\ ConcludedOver)'
    OBVIOUS
<1> USE DEF TypeOK, OneLives, Serves, KnownTrue, Named, IdentityTrue, NoIdentity,
            Superseded, ConcludedOver, Live, vars, processVars, clientVars
<1>1. ASSUME NEW p \in Processes, for_process(p) PROVE (Superseded /\ ConcludedOver)'
    BY <1>1, Names DEF for_process, Goto
<1>2. ASSUME NEW p \in Processes, read_owner(p) PROVE (Superseded /\ ConcludedOver)'
    BY <1>2, Names DEF read_owner, Goto, Unlocked
<1>3. ASSUME NEW p \in Processes, write_owner(p) PROVE (Superseded /\ ConcludedOver)'
    BY <1>3, Names DEF write_owner, Goto, Unlocked
<1>4. ASSUME NEW p \in Processes, sync_owner(p) PROVE (Superseded /\ ConcludedOver)'
    BY <1>4, Names DEF sync_owner, Goto
<1>5. ASSUME NEW p \in Processes, Shutdown(p) PROVE (Superseded /\ ConcludedOver)'
    BY <1>5, Names DEF Shutdown, Goto
<1>6. ASSUME NEW p \in Processes, Exit(p) PROVE (Superseded /\ ConcludedOver)'
    BY <1>6, Names DEF Exit, Goto, Unlocked, Ended
<1>7. ASSUME NEW p \in Processes, do_action_execution_identity(p) PROVE (Superseded /\ ConcludedOver)'
    BY <1>7, Names DEF do_action_execution_identity
<1>8. ASSUME NEW p \in Processes, NEW c \in Calls, do_action_execute(p, c)
        PROVE (Superseded /\ ConcludedOver)'
    BY <1>8, Names DEF do_action_execute, Envelope, ActiveId
<1>9. ASSUME NEW p \in Processes, NEW c \in Calls, do_action_execute_guarded(p, c)
        PROVE (Superseded /\ ConcludedOver)'
    BY <1>9, Names DEF do_action_execute_guarded, Envelope
<1>10. ASSUME PowerFailure PROVE (Superseded /\ ConcludedOver)'
    BY <1>10, Names DEF PowerFailure, Ended
<1>11. ASSUME NEW c \in Calls, Send(c) PROVE (Superseded /\ ConcludedOver)'
    BY <1>11, Names DEF Send
<1>12. ASSUME NEW c \in Calls, Disconnect(c) PROVE (Superseded /\ ConcludedOver)'
    BY <1>12 DEF Disconnect
<1>13. ASSUME NEW r \in Requests, Conclude(r) PROVE (Superseded /\ ConcludedOver)'
    BY <1>13, Names DEF Conclude
<1>14. CASE UNCHANGED vars
    BY <1>14
<1>15. QED BY <1>1, <1>2, <1>3, <1>4, <1>5, <1>6, <1>7, <1>8, <1>9, <1>10,
            <1>11, <1>12, <1>13, <1>14 DEF Next

-----------------------------------------------------------------------------
(* The theorems.                                                             *)

\* It holds at first.
LEMMA GuardedStart == Init => GuardedInv
<1> SUFFICES ASSUME Init PROVE GuardedInv
    OBVIOUS
<1>1. TypeOK
    BY DEF Init, TypeOK, Owners, Identities, NoIdentity, Nowhere, Live
<1>2. OneLives /\ Serves /\ FileStates
    BY Names DEF Init, OneLives, Serves, FileStates, Live
<1>3. InItsGeneration /\ OneActivePerId /\ Superseded /\ ConcludedOver
    BY DEF Init, InItsGeneration, OneActivePerId, Superseded, ConcludedOver, Executing, Nowhere,
           NoIdentity
<1>4. KnownTrue /\ Named
    BY Names DEF Init, KnownTrue, Named, IdentityTrue, NoIdentity, Nowhere
<1> QED BY <1>1, <1>2, <1>3, <1>4 DEF GuardedInv

\* It holds always.
LEMMA GuardedInductive == Spec => []GuardedInv
<1>1. GuardedInv /\ [Next]_vars => GuardedInv'
  <2> SUFFICES ASSUME GuardedInv, [Next]_vars PROVE GuardedInv'
      OBVIOUS
  <2>1. TypeOK' BY TypeStep DEF GuardedInv
  <2>2. (OneLives /\ Serves)' BY LivesStep DEF GuardedInv
  <2>3. FileStates' BY FileStep DEF GuardedInv
  <2>4. (InItsGeneration /\ OneActivePerId)' BY CallStep DEF GuardedInv
  <2>5. (KnownTrue /\ Named)' BY KnownStep DEF GuardedInv
  <2>6. (Superseded /\ ConcludedOver)' BY SupersededStep DEF GuardedInv
  <2> QED BY <2>1, <2>2, <2>3, <2>4, <2>5, <2>6 DEF GuardedInv
<1> QED BY GuardedStart, <1>1, PTL DEF Spec

\* The state of GuardedExecution stays well typed.
THEOREM GuardedTypeCorrect == Spec => []TypeOK
<1>1. GuardedInv => TypeOK
    BY DEF GuardedInv
<1> QED BY GuardedInductive, <1>1, PTL

\* What handlers/README.md promises: once the loader has concluded from another
\* generation with the same owner that a request's process has exited, nothing of
\* the request runs, however late a call of it arrives.
THEOREM ReplacementIsProof == Spec => []ReplacementProvesTermination
<1>1. GuardedInv => ReplacementProvesTermination
  <2> SUFFICES ASSUME GuardedInv, NEW c \in Calls, c[1] \in concluded, Executing(c) PROVE FALSE
      BY DEF ReplacementProvesTermination
  <2>1. reply[c] # "none"
      BY DEF GuardedInv, Named, Executing
  <2>2. proc[meant[c].generation] = "exited"
      BY <2>1 DEF GuardedInv, ConcludedOver
  <2>3. proc[meant[c].generation] \in {"serving", "draining"}
      BY DEF GuardedInv, InItsGeneration
  <2> QED BY <2>2, <2>3
<1> QED BY GuardedInductive, <1>1, PTL

\* One process lives with an owner at a time, and a synced owner is for ever.
THEOREM OwnerIsOne == Spec => []OneOwner
<1>1. GuardedInv => OneOwner
  <2> SUFFICES ASSUME GuardedInv, NEW p \in Processes, NEW q \in Processes
               PROVE  /\ (p # q /\ owner[p] # NoProcess /\ owner[q] # NoProcess)
                            => proc[p] = "exited" \/ proc[q] = "exited"
                      /\ Synced(p) /\ Synced(q) => owner[p] = owner[q]
      BY DEF OneOwner
  <2>1. (p # q /\ owner[p] # NoProcess /\ owner[q] # NoProcess)
           => proc[p] = "exited" \/ proc[q] = "exited"
      BY DEF GuardedInv, OneLives, Serves, Live
  <2>2. \A r \in Processes : Synced(r) => file = owner[r]
      BY DEF GuardedInv, TypeOK, Owners, FileStates, Synced
  <2> QED BY <2>1, <2>2
<1> QED BY GuardedInductive, <1>1, PTL

\* The register of active request ids does its work.
THEOREM OneActive == Spec => []OneActivePerId
<1>1. GuardedInv => OneActivePerId
    BY DEF GuardedInv
<1> QED BY GuardedInductive, <1>1, PTL

-----------------------------------------------------------------------------
(***************************************************************************)
(* Checkpoint maintenance.                                                 *)
(*                                                                         *)
(* The argument: a task past try_lock holds the advisory lock of its       *)
(* database unless its connection is gone (OwnsLock), so two of them are   *)
(* never at a checkpoint of one database; the end of a checkpoint is in    *)
(* the table before the lock is free, or its record was lost (Reported),   *)
(* so a task that reads the table under the lock finds the interval gone   *)
(* by (FoundDue), and finds it so until it begins.                         *)
(***************************************************************************)

\* A task that is in a round has databases left.
InRound == \A i \in Instances : pc[i] \notin {"idle", "down"} => todo[i] # <<>>

\* A task that believes it owns the lock of its database does, unless it has lost
\* the connection.
OwnsLock == \A i \in Instances : pc[i] \in Owning /\ ~lost[i] => lock[Db(i)] = i

\* A checkpoint ends before now; its end is in the table, or was lost on the way,
\* or is about to be written by the owner of the lock.
InThePast == \A d \in DbNames : ended[d] # Never => ended[d] <= now
Covered(d) == \/ ended[d] = Never \/ missed[d]
              \/ record[d] # Never /\ ended[d] <= record[d]
Reported == \A d \in DbNames :
    Covered(d) \/ \E i \in Instances : pc[i] = "record" /\ ~lost[i] /\ Db(i) = d

\* What a task found when it read the table stays so while it owns the lock.
Elapses(d) == \/ ended[d] = Never \/ missed[d]
              \/ now - ended[d] >= Interval - MaxSkew
FoundDue == \A i \in Instances : pc[i] = "run" => lost[i] \/ Elapses(Db(i))

CkInv == CkTypeOK /\ InRound /\ OwnsLock /\ InThePast /\ Reported /\ FoundDue

\* The database of a task in a round is one of the list.
LEMMA CurrentDatabase ==
    ASSUME CkInv, NEW i \in Instances, pc[i] \notin {"idle", "down"}
    PROVE  Db(i) \in DbNames /\ Db(i) = Head(todo[i]) /\ todo[i] \in Seq(DbNames) \ {<<>>}
BY HeadTailProperties DEF CkInv, CkTypeOK, InRound, Db

\* No two owners of one lock.
LEMMA SoleOwner ==
    ASSUME CkInv, NEW i \in Instances, NEW j \in Instances,
           pc[i] \in Owning, pc[j] \in Owning, ~lost[i], ~lost[j], Db(i) = Db(j)
    PROVE  i = j
BY DEF CkInv, OwnsLock

\* The lock is dropped by i: the others keep theirs.
LEMMA ReleasedFacts ==
    ASSUME CkInv, NEW i \in Instances, lock' = Released(i)
    PROVE  /\ lock' \in [DbNames -> Instances \cup {Nobody}]
           /\ \A d \in DbNames : \A j \in Instances : j # i /\ lock[d] = j => lock'[d] = j
BY DEF CkInv, CkTypeOK, Released

\* A task goes to another step of its round and changes nothing else.
LEMMA ContinueStep ==
    ASSUME CkInv, NEW i \in Instances, pc[i] \notin {"idle", "down", "record"},
           NEW p \in Steps \ {"idle", "down"}, Continue(i, p),
           p \in Owning => pc[i] \in Owning,
           p = "run" => Elapses(Db(i)),
           UNCHANGED <<now, faults, record, lock, todo, lost, poisoned, ended, missed>>,
           conn' \in [Instances -> {"none", "good", "bad"}]
    PROVE  CkInv'
<1>1. /\ pc' \in [Instances -> Steps] /\ pc'[i] = p
      /\ \A j \in Instances : j # i => pc'[j] = pc[j]
  BY DEF CkInv, CkTypeOK, Continue
<1>2. CkTypeOK'
  BY <1>1 DEF CkInv, CkTypeOK
<1>3. InRound' /\ OwnsLock' /\ InThePast'
  BY <1>1 DEF CkInv, InRound, OwnsLock, InThePast, Db
<1>4. Reported'
  BY <1>1 DEF CkInv, Reported, Covered, Db
<1>5. FoundDue'
  BY <1>1 DEF CkInv, FoundDue, Elapses, Db
<1> QED BY <1>2, <1>3, <1>4, <1>5 DEF CkInv

\* A task is through with a database; it has written the record if it was to.
LEMMA ReturnStep ==
    ASSUME CkInv, NEW i \in Instances, pc[i] \notin {"idle", "down"}, Return(i),
           UNCHANGED <<now, ended, missed>>, faults' \in 0..MaxFaults,
           record' = record \/ record' = [record EXCEPT ![Db(i)] = now],
           pc[i] = "record" /\ ~lost[i] => record' = [record EXCEPT ![Db(i)] = now],
           conn' \in [Instances -> {"none", "good", "bad"}],
           poisoned' \in [Instances -> BOOLEAN]
    PROVE  CkInv'
<1> DEFINE p == IF Len(todo[i]) = 1 THEN "idle" ELSE "connect"
<1>1. /\ pc' = [pc EXCEPT ![i] = p] /\ todo' = [todo EXCEPT ![i] = Tail(@)]
      /\ lost' = [lost EXCEPT ![i] = FALSE] /\ lock' = Released(i)
  BY DEF Return, Continue
<1>2. /\ Tail(todo[i]) \in Seq(DbNames) /\ Db(i) \in DbNames
      /\ p = "connect" => Tail(todo[i]) # <<>>
  <2>1. todo[i] \in Seq(DbNames) \ {<<>>} /\ Db(i) \in DbNames
    BY CurrentDatabase
  <2> DEFINE t == Tail(todo[i])
  <2>2. t \in Seq(DbNames) /\ Len(t) = Len(todo[i]) - 1 /\ Len(todo[i]) \in Nat
    BY <2>1, HeadTailProperties, LenProperties
  <2> HIDE DEF t
  <2>3. t = <<>> => Len(t) = 0
    OBVIOUS
  <2>4. p = "connect" => t # <<>>
    BY <2>2, <2>3
  <2> QED BY <2>1, <2>2, <2>4 DEF t
<1>3. p \in {"idle", "connect"}
  OBVIOUS
<1> HIDE DEF p
<1>4. /\ pc' \in [Instances -> Steps] /\ pc'[i] = p
      /\ todo' \in [Instances -> Seq(DbNames)] /\ todo'[i] = Tail(todo[i])
      /\ lost' \in [Instances -> BOOLEAN]
      /\ \A j \in Instances : j # i =>
            pc'[j] = pc[j] /\ todo'[j] = todo[j] /\ lost'[j] = lost[j]
  BY <1>1, <1>2, <1>3 DEF CkInv, CkTypeOK, Steps
<1>5. /\ lock' \in [DbNames -> Instances \cup {Nobody}]
      /\ \A d \in DbNames : \A j \in Instances : j # i /\ lock[d] = j => lock'[d] = j
  BY <1>1, ReleasedFacts
<1>6. /\ record' \in [DbNames -> 0..Horizon \cup {Never}] /\ now \in 0..Horizon
      /\ \A d \in DbNames : d # Db(i) => record'[d] = record[d]
      /\ record'[Db(i)] \in {record[Db(i)], now}
  BY <1>2 DEF CkInv, CkTypeOK
<1>7. CkTypeOK'
  BY <1>4, <1>5, <1>6 DEF CkInv, CkTypeOK
<1>8. InRound' /\ InThePast'
  BY <1>2, <1>3, <1>4 DEF CkInv, InRound, InThePast
<1>9. \A j \in Instances : j # i => Db(j)' = Db(j)
  BY <1>4 DEF Db
<1>10. OwnsLock'
  <2> SUFFICES ASSUME NEW j \in Instances, pc'[j] \in Owning, ~lost'[j]
               PROVE  lock'[Db(j)'] = j
    BY DEF OwnsLock
  <2>1. j # i
    BY <1>3, <1>4 DEF Owning
  <2>2. lock[Db(j)] = j /\ Db(j) \in DbNames
    BY <1>4, <2>1, CurrentDatabase DEF CkInv, OwnsLock, Owning
  <2> QED BY <1>5, <1>9, <2>1, <2>2
<1>11. Reported'
  <2> SUFFICES ASSUME NEW d \in DbNames
               PROVE  Covered(d)' \/ \E j \in Instances : pc'[j] = "record" /\ ~lost'[j] /\ Db(j)' = d
    BY DEF Reported
  <2>1. CASE Covered(d)
    <3>1. now \in Int /\ Never \notin Int /\ (ended[d] # Never => ended[d] <= now)
      BY <1>6, NobodyAssumption DEF CkInv, InThePast
    <3>2. record'[d] = record[d] \/ record'[d] = now
      BY <1>6
    <3> QED BY <2>1, <3>1, <3>2 DEF Covered
  <2>2. CASE \E j \in Instances : j # i /\ pc[j] = "record" /\ ~lost[j] /\ Db(j) = d
    BY <1>4, <1>9, <2>2
  <2>3. CASE pc[i] = "record" /\ ~lost[i] /\ Db(i) = d
    <3>1. record'[d] = now /\ now \in Int
      BY <1>2, <1>6, <2>3 DEF CkInv, CkTypeOK
    <3> QED BY <3>1, NobodyAssumption DEF CkInv, InThePast, Covered
  <2> QED BY <2>1, <2>2, <2>3 DEF CkInv, Reported
<1>12. FoundDue'
  BY <1>3, <1>4, <1>9 DEF CkInv, FoundDue, Elapses
<1> QED BY <1>7, <1>8, <1>10, <1>11, <1>12 DEF CkInv

\* A task begins a round.
LEMMA RoundStep == ASSUME CkInv, NEW i \in Instances, Tick(i) PROVE CkInv'
<1>1. /\ pc[i] = "idle" /\ pc' = [pc EXCEPT ![i] = "connect"]
      /\ todo' = [todo EXCEPT ![i] = Databases]
      /\ UNCHANGED <<now, faults, record, lock, lost, conn, poisoned, ended, missed>>
  BY DEF Tick, Continue, clocks
<1>2. Databases \in Seq(DbNames) /\ Databases # <<>>
  <2>1. /\ Len(Databases) \in Nat /\ Databases \in [1..Len(Databases) -> STRING]
        /\ \A k \in 1..Len(Databases) : Databases[k] \in DbNames
    BY DatabasesAssumption, LenProperties DEF DbNames
  <2>2. Databases \in [1..Len(Databases) -> DbNames]
    BY <2>1
  <2> QED BY <2>1, <2>2, DatabasesAssumption, SeqDef
<1>3. /\ pc' \in [Instances -> Steps] /\ pc'[i] = "connect"
      /\ todo' \in [Instances -> Seq(DbNames)] /\ todo'[i] = Databases
      /\ \A j \in Instances : j # i => pc'[j] = pc[j] /\ todo'[j] = todo[j]
  BY <1>1, <1>2 DEF CkInv, CkTypeOK, Steps
<1>4. CkTypeOK'
  BY <1>1, <1>3 DEF CkInv, CkTypeOK
<1>5. InRound' /\ InThePast' /\ OwnsLock'
  BY <1>1, <1>2, <1>3 DEF CkInv, InRound, InThePast, OwnsLock, Owning, Db
<1>6. Reported'
  BY <1>1, <1>3 DEF CkInv, Reported, Covered, Db
<1>7. FoundDue'
  BY <1>1, <1>3 DEF CkInv, FoundDue, Elapses, Db
<1> QED BY <1>4, <1>5, <1>6, <1>7 DEF CkInv

\* PostgreSQL is reached or not.
LEMMA ConnectStep == ASSUME CkInv, NEW i \in Instances, connect_client(i) PROVE CkInv'
<1>1. /\ pc[i] = "connect" /\ faults' \in 0..MaxFaults
      /\ UNCHANGED <<now, faults, record, conn, poisoned, ended, missed>>
      /\ conn' \in [Instances -> {"none", "good", "bad"}] /\ poisoned' \in [Instances -> BOOLEAN]
  BY DEF connect_client, clocks, CkInv, CkTypeOK
<1>2. CASE Return(i)
  BY <1>1, <1>2, ReturnStep
<1>3. CASE Continue(i, "lock") /\ UNCHANGED <<lock, lost, todo>>
  BY <1>1, <1>3, ContinueStep DEF Steps, Owning
<1> QED BY <1>2, <1>3 DEF connect_client

\* The lock is taken when it is free.
LEMMA AcquireStep == ASSUME CkInv, NEW i \in Instances, try_acquire(i) PROVE CkInv'
<1>1. /\ pc[i] = "lock" /\ faults' \in 0..MaxFaults
      /\ UNCHANGED <<now, faults, record, conn, poisoned, ended, missed>>
      /\ conn' \in [Instances -> {"none", "good", "bad"}] /\ poisoned' \in [Instances -> BOOLEAN]
  BY DEF try_acquire, clocks, CkInv, CkTypeOK
<1>2. CASE lock[Db(i)] # Nobody
  BY <1>1, <1>2, ReturnStep DEF try_acquire
<1>3. CASE lock[Db(i)] = Nobody
  <2>1. /\ lock' = [lock EXCEPT ![Db(i)] = i] /\ pc' = [pc EXCEPT ![i] = "read"]
        /\ UNCHANGED <<lost, todo>>
    BY <1>3 DEF try_acquire, Continue
  <2>2. Db(i) \in DbNames
    BY <1>1, CurrentDatabase
  <2>3. /\ pc' \in [Instances -> Steps] /\ pc'[i] = "read"
        /\ \A j \in Instances : j # i => pc'[j] = pc[j]
        /\ lock' \in [DbNames -> Instances \cup {Nobody}] /\ lock'[Db(i)] = i
        /\ \A d \in DbNames : d # Db(i) => lock'[d] = lock[d]
    BY <2>1, <2>2 DEF CkInv, CkTypeOK, Steps
  <2>4. CkTypeOK'
    BY <1>1, <2>1, <2>3 DEF CkInv, CkTypeOK
  <2>5. InRound' /\ InThePast'
    BY <1>1, <2>1, <2>3 DEF CkInv, InRound, InThePast
  <2>6. OwnsLock'
    <3> SUFFICES ASSUME NEW j \in Instances, j # i, pc[j] \in Owning, ~lost[j]
                 PROVE  lock'[Db(j)] = j
      BY <2>1, <2>3 DEF OwnsLock, Db
    <3>1. lock[Db(j)] = j /\ Db(j) \in DbNames
      BY CurrentDatabase DEF CkInv, OwnsLock, Owning
    <3> QED BY <1>3, <2>3, <3>1, NobodyAssumption
  <2>7. Reported'
    BY <1>1, <2>1, <2>3 DEF CkInv, Reported, Covered, Db
  <2>8. FoundDue'
    BY <1>1, <2>1, <2>3 DEF CkInv, FoundDue, Elapses, Db
  <2> QED BY <2>4, <2>5, <2>6, <2>7, <2>8 DEF CkInv
<1> QED BY <1>2, <1>3

\* The owner of the lock finds in the table when the last checkpoint ended, so that
\* a checkpoint it begins is due.
LEMMA ReadStep == ASSUME CkInv, NEW i \in Instances, last_checkpoint_at(i) PROVE CkInv'
<1> DEFINE d == Db(i)
<1>1. /\ pc[i] = "read" /\ faults' \in 0..MaxFaults
      /\ UNCHANGED <<now, faults, record, conn, poisoned, ended, missed>>
      /\ conn' \in [Instances -> {"none", "good", "bad"}] /\ poisoned' \in [Instances -> BOOLEAN]
  BY DEF last_checkpoint_at, clocks, CkInv, CkTypeOK
<1>2. CASE Return(i)
  BY <1>1, <1>2, ReturnStep
<1>3. CASE Continue(i, "record") /\ UNCHANGED <<lock, lost, todo>>
  BY <1>1, <1>3, ContinueStep DEF Steps, Owning
<1>4. CASE /\ ~lost[i] /\ record[d] # Never /\ ~(Elapsed(i, record[d]) < Interval)
           /\ Continue(i, "run") /\ UNCHANGED <<lock, lost, todo>>
  <2>1. d \in DbNames /\ Covered(d)
    <3>1. d \in DbNames
      BY <1>1, CurrentDatabase
    <3>2. \A j \in Instances : ~(pc[j] = "record" /\ ~lost[j] /\ Db(j) = d)
      BY <1>1, <1>4, SoleOwner DEF Owning
    <3> QED BY <3>1, <3>2 DEF CkInv, Reported
  <2>2. /\ now \in Int /\ record[d] \in Int /\ Skew[i] \in Int /\ Skew[i] <= MaxSkew
        /\ MaxSkew \in Int /\ Interval \in Int /\ Interval > 0
        /\ ended[d] # Never => ended[d] \in Int
    BY <1>4, <2>1, TimeAssumption DEF CkInv, CkTypeOK
  <2>3. now + Skew[i] - record[d] >= Interval
    BY <1>4, <2>2 DEF Elapsed
  <2>4. Elapses(d)
    <3>1. ended[d] # Never /\ ended[d] <= record[d] => now - ended[d] >= Interval - MaxSkew
      BY <2>2, <2>3
    <3> QED BY <2>1, <3>1 DEF Covered, Elapses
  <2> QED BY <1>1, <1>4, <2>4, ContinueStep DEF Steps, Owning
<1> QED BY <1>2, <1>3, <1>4 DEF last_checkpoint_at

\* A checkpoint begins.
LEMMA BeginStep == ASSUME CkInv, NEW i \in Instances, run_checkpoint(i) PROVE CkInv'
<1>1. /\ pc[i] = "run" /\ faults' \in 0..MaxFaults
      /\ UNCHANGED <<now, faults, record, poisoned, ended, missed>>
      /\ poisoned' \in [Instances -> BOOLEAN]
  BY DEF run_checkpoint, clocks, CkInv, CkTypeOK
<1>2. conn' \in [Instances -> {"none", "good", "bad"}]
  BY DEF run_checkpoint, CkInv, CkTypeOK
<1>3. CASE Return(i)
  BY <1>1, <1>2, <1>3, ReturnStep
<1>4. CASE Continue(i, "running") /\ UNCHANGED <<lock, lost, todo>>
  BY <1>1, <1>2, <1>4, ContinueStep DEF Steps, Owning
<1> QED BY <1>3, <1>4 DEF run_checkpoint

\* A checkpoint ends: no other owner of the lock has found one due, and its end is
\* about to be written, or lost with the lock.
LEMMA EndingStep == ASSUME CkInv, NEW i \in Instances, checkpoint_succeeds(i) PROVE CkInv'
<1> DEFINE d == Db(i)
<1>1. /\ pc[i] = "running" /\ pc' = [pc EXCEPT ![i] = "record"]
      /\ ended' = [ended EXCEPT ![d] = now] /\ missed' = [missed EXCEPT ![d] = lost[i]]
      /\ UNCHANGED <<now, faults, record, lock, todo, lost, conn, poisoned>>
  BY DEF checkpoint_succeeds, Continue, clocks
<1>2. d \in DbNames /\ now \in 0..Horizon /\ lost[i] \in BOOLEAN
  BY <1>1, CurrentDatabase DEF CkInv, CkTypeOK
<1>3. /\ pc' \in [Instances -> Steps] /\ pc'[i] = "record"
      /\ \A j \in Instances : j # i => pc'[j] = pc[j]
  BY <1>1 DEF CkInv, CkTypeOK, Steps
<1>4. /\ ended' \in [DbNames -> 0..Horizon \cup {Never}] /\ ended'[d] = now
      /\ \A e \in DbNames : e # d => ended'[e] = ended[e] /\ missed'[e] = missed[e]
      /\ missed' \in [DbNames -> BOOLEAN] /\ missed'[d] = lost[i]
  BY <1>1, <1>2 DEF CkInv, CkTypeOK
<1>5. CkTypeOK'
  BY <1>1, <1>3, <1>4 DEF CkInv, CkTypeOK
<1>6. InRound' /\ OwnsLock'
  BY <1>1, <1>3 DEF CkInv, InRound, OwnsLock, Owning, Db
<1>7. InThePast'
  BY <1>1, <1>2, <1>4 DEF CkInv, InThePast
<1>8. \A j \in Instances : Db(j)' = Db(j)
  BY <1>1 DEF Db
<1>9. Reported'
  <2> SUFFICES ASSUME NEW e \in DbNames
               PROVE  Covered(e)' \/ \E j \in Instances : pc'[j] = "record" /\ ~lost'[j] /\ Db(j)' = e
    BY DEF Reported
  <2>1. CASE e = d
    BY <1>1, <1>3, <1>4, <1>8, <2>1 DEF Covered
  <2>2. CASE e # d
    BY <1>1, <1>3, <1>4, <1>8, <2>2 DEF CkInv, Reported, Covered
  <2> QED BY <2>1, <2>2
<1>10. FoundDue'
  <2> SUFFICES ASSUME NEW j \in Instances, pc'[j] = "run", ~lost[j]
               PROVE  Elapses(Db(j))'
    BY <1>1, <1>8 DEF FoundDue
  <2>1. j # i /\ pc[j] = "run" /\ Db(j) \in DbNames /\ Elapses(Db(j))
    BY <1>3, CurrentDatabase DEF CkInv, FoundDue
  <2>2. CASE Db(j) = d
    <3>1. lost[i]
      BY <1>1, <2>1, <2>2, SoleOwner DEF Owning
    <3> QED BY <1>4, <1>8, <2>2, <3>1 DEF Elapses
  <2>3. CASE Db(j) # d
    BY <1>1, <1>4, <1>8, <2>1, <2>3 DEF Elapses
  <2> QED BY <2>2, <2>3
<1> QED BY <1>5, <1>6, <1>7, <1>9, <1>10 DEF CkInv

\* A checkpoint fails.
LEMMA FailingStep == ASSUME CkInv, NEW i \in Instances, checkpoint_fails(i) PROVE CkInv'
<1>1. /\ pc[i] = "running" /\ faults' \in 0..MaxFaults /\ Return(i)
      /\ UNCHANGED <<now, faults, record, poisoned, ended, missed>>
      /\ conn' \in [Instances -> {"none", "good", "bad"}] /\ poisoned' \in [Instances -> BOOLEAN]
  BY DEF checkpoint_fails, clocks, CkInv, CkTypeOK
<1> QED BY <1>1, ReturnStep

\* The end of a checkpoint is written to the table, if the connection is there.
LEMMA RecordStep == ASSUME CkInv, NEW i \in Instances, record_checkpoint(i) PROVE CkInv'
<1>1. /\ pc[i] = "record" /\ faults' \in 0..MaxFaults /\ Return(i)
      /\ UNCHANGED <<now, faults, ended, missed>>
      /\ conn' \in [Instances -> {"none", "good", "bad"}] /\ poisoned' \in [Instances -> BOOLEAN]
      /\ record' = IF lost[i] THEN record ELSE [record EXCEPT ![Db(i)] = now]
  BY DEF record_checkpoint, clocks, CkInv, CkTypeOK
<1> QED BY <1>1, ReturnStep

\* The blocking task panics.
LEMMA PanicStep == ASSUME CkInv, NEW i \in Instances, Panic(i) PROVE CkInv'
<1>1. /\ pc[i] = "running" /\ Return(i) /\ UNCHANGED <<now, record, conn, ended, missed>>
      /\ conn' \in [Instances -> {"none", "good", "bad"}] /\ poisoned' \in [Instances -> BOOLEAN]
  BY DEF Panic, CkInv, CkTypeOK
<1>2. faults' \in 0..MaxFaults
  BY TimeAssumption DEF Panic, Fault, CkInv, CkTypeOK
<1> QED BY <1>1, <1>2, ReturnStep

\* An instance starts again, or its DuckDB connection breaks.
LEMMA RestartStep == ASSUME CkInv, NEW i \in Instances, Restart(i) PROVE CkInv'
<1>1. /\ pc[i] = "down" /\ pc' = [pc EXCEPT ![i] = "idle"]
      /\ UNCHANGED <<now, faults, record, lock, todo, lost, conn, poisoned, ended, missed>>
  BY DEF Restart, Continue, clocks
<1>2. /\ pc' \in [Instances -> Steps] /\ pc'[i] = "idle"
      /\ \A j \in Instances : j # i => pc'[j] = pc[j]
  BY <1>1 DEF CkInv, CkTypeOK, Steps
<1>3. CkTypeOK'
  BY <1>1, <1>2 DEF CkInv, CkTypeOK
<1>4. InRound' /\ InThePast' /\ OwnsLock'
  BY <1>1, <1>2 DEF CkInv, InRound, InThePast, OwnsLock, Owning, Db
<1>5. Reported' /\ FoundDue'
  BY <1>1, <1>2 DEF CkInv, Reported, Covered, FoundDue, Elapses, Db
<1> QED BY <1>3, <1>4, <1>5 DEF CkInv

\* A broken connection keeps the invariant.
LEMMA BreakStep == ASSUME CkInv, NEW i \in Instances, Break(i) PROVE CkInv'
<1>1. /\ UNCHANGED <<now, record, lock, pc, todo, lost, poisoned, ended, missed>>
      /\ conn' \in [Instances -> {"none", "good", "bad"}]
  BY DEF Break, CkInv, CkTypeOK
<1>2. faults' \in 0..MaxFaults
  BY TimeAssumption DEF Break, Fault, CkInv, CkTypeOK
<1> QED BY <1>1, <1>2 DEF CkInv, CkTypeOK, InRound, InThePast, OwnsLock, Reported, Covered,
                          FoundDue, Elapses, Db

\* An instance loses the connection of its lock, or crashes: what it had not written
\* is lost on the way.
LEMMA LosingStep ==
    ASSUME CkInv, NEW i \in Instances, LoseConnection(i) \/ Crash(i)
    PROVE  CkInv'
<1>1. /\ lock' = Released(i) /\ Forgets(i) /\ UNCHANGED <<now, record, ended>>
      /\ \A j \in Instances : j # i =>
            pc'[j] = pc[j] /\ todo'[j] = todo[j] /\ lost'[j] = lost[j]
      /\ lost'[i] \/ pc'[i] = "down"
      /\ (pc'[i] = pc[i] /\ todo'[i] = todo[i]) \/ pc'[i] = "down"
  BY DEF LoseConnection, Crash, Continue, CkInv, CkTypeOK
<1>2. faults' \in 0..MaxFaults
  BY TimeAssumption DEF LoseConnection, Crash, Fault, CkInv, CkTypeOK
<1>3. /\ pc' \in [Instances -> Steps] /\ lost' \in [Instances -> BOOLEAN]
      /\ conn' \in [Instances -> {"none", "good", "bad"}] /\ poisoned' \in [Instances -> BOOLEAN]
  BY DEF LoseConnection, Crash, Continue, CkInv, CkTypeOK, Steps
<1>4. todo' \in [Instances -> Seq(DbNames)]
  <2>1. <<>> \in Seq(DbNames)
    BY EmptySeq
  <2> QED BY <2>1 DEF LoseConnection, Crash, CkInv, CkTypeOK
<1>5. /\ lock' \in [DbNames -> Instances \cup {Nobody}]
      /\ \A d \in DbNames : \A j \in Instances : j # i /\ lock[d] = j => lock'[d] = j
  BY <1>1, ReleasedFacts
<1>6. /\ missed' \in [DbNames -> BOOLEAN]
      /\ \A d \in DbNames : missed[d] => missed'[d]
      /\ \A d \in DbNames : pc[i] = "record" /\ Db(i) = d /\ ended[d] # Never => missed'[d]
  <2> DEFINE m(d) == missed[d] \/ (pc[i] = "record" /\ Db(i) = d /\ ended[d] # Never)
  <2>1. missed' = [d \in DbNames |-> m(d)] /\ \A d \in DbNames : m(d) \in BOOLEAN
    BY <1>1, Zenon DEF Forgets
  <2> HIDE DEF m
  <2>2. missed' \in [DbNames -> BOOLEAN] /\ \A d \in DbNames : missed'[d] = m(d)
    BY <2>1
  <2> QED BY <2>2, Zenon DEF m
<1>7. CkTypeOK'
  BY <1>1, <1>2, <1>3, <1>4, <1>5, <1>6 DEF CkInv, CkTypeOK
<1>8. InRound' /\ InThePast'
  BY <1>1 DEF CkInv, InRound, InThePast
<1>9. \A j \in Instances : j # i => Db(j)' = Db(j)
  BY <1>1 DEF Db
<1>10. OwnsLock'
  <2> SUFFICES ASSUME NEW j \in Instances, j # i, pc[j] \in Owning, ~lost[j]
               PROVE  lock'[Db(j)'] = j
    BY <1>1 DEF OwnsLock, Owning
  <2>1. lock[Db(j)] = j /\ Db(j) \in DbNames
    BY CurrentDatabase DEF CkInv, OwnsLock, Owning
  <2> QED BY <1>5, <1>9, <2>1
<1>11. Reported'
  <2> SUFFICES ASSUME NEW d \in DbNames
               PROVE  Covered(d)' \/ \E j \in Instances : pc'[j] = "record" /\ ~lost'[j] /\ Db(j)' = d
    BY DEF Reported
  <2>1. CASE Covered(d)
    BY <1>1, <1>6, <2>1 DEF Covered
  <2>2. CASE pc[i] = "record" /\ Db(i) = d
    BY <1>1, <1>6, <2>2 DEF Covered
  <2>3. CASE \E j \in Instances : j # i /\ pc[j] = "record" /\ ~lost[j] /\ Db(j) = d
    BY <1>1, <1>9, <2>3
  <2> QED BY <2>1, <2>2, <2>3 DEF CkInv, Reported
<1>12. FoundDue'
  <2> SUFFICES ASSUME NEW j \in Instances, j # i, pc[j] = "run", ~lost[j]
               PROVE  Elapses(Db(j))'
    BY <1>1 DEF FoundDue
  <2>1. Db(j) \in DbNames /\ Elapses(Db(j))
    BY CurrentDatabase DEF CkInv, FoundDue
  <2> QED BY <1>1, <1>6, <1>9, <2>1 DEF Elapses
<1> QED BY <1>7, <1>8, <1>10, <1>11, <1>12 DEF CkInv

\* Time passes.
LEMMA AdvanceStep == ASSUME CkInv, Advance PROVE CkInv'
<1>1. /\ now < Horizon /\ now' = now + 1
      /\ UNCHANGED <<faults, record, lock, pc, todo, lost, conn, poisoned, ended, missed>>
  BY DEF Advance
<1>2. now \in Nat /\ now' \in 0..Horizon /\ Interval \in Int /\ MaxSkew \in Int
  BY <1>1, TimeAssumption DEF CkInv, CkTypeOK
<1>3. CkTypeOK'
  BY <1>1, <1>2 DEF CkInv, CkTypeOK
<1>4. InRound' /\ OwnsLock' /\ Reported'
  BY <1>1 DEF CkInv, InRound, OwnsLock, Reported, Covered, Db
<1>5. \A d \in DbNames : ended[d] # Never => ended[d] \in Int
  BY DEF CkInv, CkTypeOK
<1>6. InThePast'
  BY <1>1, <1>2, <1>5 DEF CkInv, InThePast
<1>7. FoundDue'
  <2> SUFFICES ASSUME NEW i \in Instances, pc[i] = "run", ~lost[i]
               PROVE  Elapses(Db(i))'
    BY <1>1 DEF FoundDue
  <2>1. Db(i) \in DbNames /\ Elapses(Db(i)) /\ Db(i)' = Db(i)
    BY <1>1, CurrentDatabase DEF CkInv, FoundDue, Db
  <2> QED BY <1>1, <1>2, <1>5, <2>1 DEF Elapses
<1> QED BY <1>3, <1>4, <1>6, <1>7 DEF CkInv

\* Every step keeps the invariant.
LEMMA CkStep == ASSUME CkInv, [CkNext]_ckVars PROVE CkInv'
<1>1. CASE UNCHANGED ckVars
  BY <1>1 DEF ckVars, CkInv, CkTypeOK, InRound, InThePast, OwnsLock, Reported, Covered,
              FoundDue, Elapses, Db
<1>2. ASSUME NEW i \in Instances, Work(i) PROVE CkInv'
  BY <1>2, RoundStep, ConnectStep, AcquireStep, ReadStep, BeginStep, EndingStep, FailingStep,
     RecordStep, RestartStep DEF Work
<1> QED BY <1>1, <1>2, LosingStep, PanicStep, BreakStep, AdvanceStep DEF CkNext

\* The invariant of the checkpoints holds at the start.
LEMMA CkStart == CkInit => CkInv
<1> SUFFICES ASSUME CkInit PROVE CkInv
  OBVIOUS
<1>1. \A i \in Instances : pc[i] = "idle"
  BY DEF CkInit
<1>2. \A d \in DbNames : ended[d] = Never
  BY DEF CkInit
<1>3. CkTypeOK
  <2>1. <<>> \in Seq(DbNames)
    BY EmptySeq
  <2> QED BY <2>1, TimeAssumption DEF CkInit, CkTypeOK, Steps
<1>4. InRound /\ OwnsLock /\ InThePast /\ Reported /\ FoundDue
  BY <1>1, <1>2 DEF InRound, OwnsLock, Owning, InThePast, Reported, Covered, FoundDue
<1> QED BY <1>3, <1>4 DEF CkInv

\* It holds in every state.
LEMMA CkInductive == CkSpec => []CkInv
BY CkStart, CkStep, PTL DEF CkSpec

\* The types of the checkpoint tasks and of what they share.
THEOREM CheckpointTypes == CkSpec => []CkTypeOK
<1>1. CkInv => CkTypeOK
  BY DEF CkInv
<1> QED BY <1>1, CkInductive, PTL

\* Two checkpoints of one database overlap only when one of the tasks has lost its
\* lock without knowing (PostgresLock; process_database).
THEOREM CheckpointsExclude == CkSpec => []OneCheckpointAtATime
<1>1. CkInv => OneCheckpointAtATime
  BY SoleOwner DEF OneCheckpointAtATime, Owning
<1> QED BY <1>1, CkInductive, PTL

\* Checkpoints of one database are the interval apart, less the difference of the
\* clocks, but for ends that did not reach the table (last_checkpoint_at).
THEOREM CheckpointsApart == CkSpec => SpacedOut
<1> DEFINE Apart == \A i \in Instances : (pc[i] = "run" /\ pc'[i] = "running") =>
                       \/ ended[Db(i)] = Never \/ missed[Db(i)] \/ lost[i]
                       \/ now - ended[Db(i)] >= Interval - MaxSkew
<1>1. CkInv /\ [CkNext]_ckVars => [Apart]_ckVars
  BY DEF CkInv, FoundDue, Elapses
<1> QED BY <1>1, CkInductive, PTL DEF CkSpec, SpacedOut

-----------------------------------------------------------------------------
(***************************************************************************)
(* Duckvis authentication.                                                 *)
(*                                                                         *)
(* The argument: an answer that a forced refresh waits for was given after *)
(* its validation began (Validates), and an older one that overtakes it    *)
(* leaves its mark (InCache); the mark of the last forced refresh in the   *)
(* cache is no earlier than any that is over (LastApplied); the expiry the *)
(* server counts with is later than the API's by no more than the mint     *)
(* took (TokenTrue); a token sent after a 401 was minted after it          *)
(* (Authorizes).                                                           *)
(***************************************************************************)

Places == Ends \cup {"idle", "refresh", "fetch", "apply", "verify", "limit", "retry",
                     "get_token", "mint", "minted", "send", "force", "remint", "reminted",
                     "resend"}
Tokens == [epoch : Nat, expires_at : Int, real : Int, took : Int]
LaneRecords ==
    [at : Places, forced : BOOLEAN, kid : Nat, since : Nat, etag : Nat, answer : Nat,
     allowed : Int, applied : Int, reason : {"none", "failed", "overwritten", "limited"},
     token : Tokens, asked : Int, refused : Nat, after : SUBSET Lanes,
     alive : BOOLEAN, slow : BOOLEAN]

\* The counters of the world, the cache of keys and the service-account token.
WorldType ==
    /\ clock \in 0..LastTick /\ published \in 1..MaxVersion /\ epoch \in 1..MaxEpoch
    /\ failures \in 0..MaxFailures /\ sa_lock \in Lanes \cup {NoLane}
    /\ lane \in [Lanes -> LaneRecords]
    /\ jwks \in [keys : SUBSET (1..MaxVersion), etag : 0..published, fetched_at : Int,
                 last_forced_refresh : Int]

\* The cache holds the keys of one version; its last forced refresh is over.
CacheHolds == jwks.keys = Keys(jwks.etag) /\ jwks.last_forced_refresh <= clock

\* The expiry the server counts with is later than the API's by the time the mint took.
TokenTrue == /\ sa_token \in Tokens /\ sa_token.epoch <= epoch
             /\ sa_token.expires_at = sa_token.real + sa_token.took

\* A validation knows keys up to the version that was published when it began; an
\* answer it has is no older; refused without a reason is a key that was retired.
Validates(r) ==
    /\ r.kid <= r.since /\ r.since <= published
    /\ r.at \in {"refresh", "fetch", "apply", "verify", "limit", "retry"} => 1 <= r.since
    /\ r.at = "apply" => r.since <= r.answer /\ r.answer <= published
    /\ r.at = "retry" => r.forced
    /\ r.at = "refused" /\ r.reason = "none" => r.kid \notin Keys(r.since) \cap Keys(published)
    /\ r.applied # NoTime => r.at \in Ends \cup {"retry"}

\* A token is of no later epoch than the API's, and the second one that a call sends
\* of none earlier than the epoch that refused the first.
Authorizes(r) ==
    /\ r.token.epoch <= epoch
    /\ r.at \in {"minted", "reminted"} => r.token.real = r.asked + Ttl
    /\ r.at \in {"force", "remint"} => r.refused <= epoch
    /\ r.at \in {"reminted", "resend", "refused_twice"} => r.refused <= r.token.epoch
    /\ r.at = "refused_twice" => ~Accepted(r.token)
    /\ r.alive \/ r.slow

\* What a forced refresh looks for is in the cache, unless an older answer undid it.
InCache(r, version) ==
    r.reason = "none" =>
        /\ r.at \in {"fetch", "apply"} /\ r.forced => r.etag <= version
        /\ r.at = "retry" => r.since <= version

\* The last forced refresh is no earlier than any other.
LastApplied ==
    \A l \in Lanes : lane[l].applied # NoTime =>
        /\ jwks.last_forced_refresh # NoTime
        /\ lane[l].applied <= jwks.last_forced_refresh

\* The forced refreshes that were over when l was allowed one were so long ago.
Spaced(l) == \A m \in lane[l].after :
    lane[m].applied # NoTime /\ lane[l].allowed - lane[m].applied >= FORCED_REFRESH_FLOOR

TkInv == /\ WorldType /\ CacheHolds /\ TokenTrue /\ LastApplied
         /\ \A l \in Lanes : /\ Validates(lane[l]) /\ Authorizes(lane[l])
                             /\ InCache(lane[l], jwks.etag) /\ Spaced(l)

\* One request moves on; the world and the cache of keys stay.
LEMMA LaneStep ==
    ASSUME TkInv, NEW l \in Lanes, UNCHANGED <<clock, published, epoch, jwks>>,
           failures' \in 0..MaxFailures, sa_lock' \in Lanes \cup {NoLane}, TokenTrue',
           lane' \in [Lanes -> LaneRecords], \A m \in Lanes : m # l => lane'[m] = lane[m],
           lane'[l].applied = lane[l].applied, Validates(lane'[l]), Authorizes(lane'[l]),
           InCache(lane'[l], jwks.etag),
           \/ lane'[l].after = {}
           \/ lane'[l].after = lane[l].after /\ lane'[l].allowed = lane[l].allowed
           \/ \A m \in lane'[l].after :
                lane[m].applied # NoTime
                /\ lane'[l].allowed - lane[m].applied >= FORCED_REFRESH_FLOOR
    PROVE  TkInv'
<1>1. WorldType' /\ CacheHolds'
  BY DEF TkInv, WorldType, CacheHolds, Keys
<1>2. \A m \in Lanes : lane'[m].applied = lane[m].applied /\ lane'[m].after \subseteq Lanes
  BY DEF LaneRecords
<1>3. LastApplied'
  BY <1>2 DEF TkInv, LastApplied
<1>4. ASSUME NEW m \in Lanes
      PROVE  Validates(lane[m])' /\ Authorizes(lane[m])' /\ InCache(lane[m], jwks.etag)'
  BY DEF TkInv, Validates, Authorizes, InCache, Keys, Accepted
<1>5. ASSUME NEW m \in Lanes PROVE Spaced(m)'
  BY <1>2 DEF TkInv, Spaced
<1> QED BY <1>1, <1>3, <1>4, <1>5 DEF TkInv

\* A request that has not begun.
LEMMA NewLaneFacts ==
    /\ NewLane \in LaneRecords /\ NoToken \in Tokens /\ NewLane.token = NoToken
    /\ NoToken.epoch = 0 /\ NoToken.expires_at = NoToken.real + NoToken.took
    /\ NewLane.applied = NoTime /\ NewLane.after = {} /\ NewLane.reason = "none"
    /\ NewLane.at = "idle" /\ NewLane.refused = 0 /\ NewLane.alive
    /\ NewLane.kid = 0 /\ NewLane.since = 0
<1>1. NoToken \in Tokens /\ NoToken.epoch = 0
      /\ NoToken.expires_at = NoToken.real + NoToken.took
  BY DEF NoToken, Tokens, NoTime
<1>2. NewLane \in LaneRecords
  BY <1>1 DEF NewLane, LaneRecords, Places, NoTime, Invalid
<1> QED BY <1>1, <1>2 DEF NewLane, Invalid

\* A validation begins.
LEMMA ValidateStep == ASSUME TkInv, NEW l \in Lanes, validate_token(l) PROVE TkInv'
<1> DEFINE at == IF is_stale THEN "refresh" ELSE "verify"
<1>1. /\ lane[l].at = "idle"
      /\ UNCHANGED <<clock, published, epoch, failures, jwks, sa_token, sa_lock>>
  BY DEF validate_token, world
<1>2. PICK kid \in 1..published \cup {Invalid} :
         lane' = [lane EXCEPT ![l] = [NewLane EXCEPT !.at = at, !.kid = kid, !.since = published]]
  BY DEF validate_token
<1>3. at \in {"refresh", "verify"}
  OBVIOUS
<1> HIDE DEF at
<1>4. published \in Nat /\ 1 <= published /\ kid \in Nat /\ kid <= published
  BY DEF TkInv, WorldType, Invalid
<1> DEFINE r == [NewLane EXCEPT !.at = at, !.kid = kid, !.since = published]
<1>5. r \in LaneRecords
  BY <1>3, <1>4, NewLaneFacts DEF LaneRecords, Places
<1>6. /\ r.at = at /\ r.kid = kid /\ r.since = published /\ r.applied = NoTime
      /\ r.after = {} /\ r.token = NoToken /\ r.alive = NewLane.alive
  BY NewLaneFacts DEF LaneRecords
<1>7. lane' = [lane EXCEPT ![l] = r]
  BY <1>2
<1> HIDE DEF r
<1>8. /\ lane' \in [Lanes -> LaneRecords] /\ lane'[l] = r
      /\ \A m \in Lanes : m # l => lane'[m] = lane[m]
  BY <1>5, <1>7 DEF TkInv, WorldType
<1>9. Validates(r) /\ InCache(r, jwks.etag) /\ Authorizes(r)
  BY <1>3, <1>4, <1>6, NewLaneFacts DEF Validates, InCache, Authorizes, TkInv, WorldType, Ends
<1>10. lane[l].applied = NoTime
  BY <1>1 DEF TkInv, Validates, Ends
<1> QED BY SMTT(30), <1>1, <1>6, <1>8, <1>9, <1>10, LaneStep DEF TkInv, WorldType, TokenTrue, Validates, Authorizes

\* A request goes to another place, and carries what it carried.
LEMMA MoveStep ==
    ASSUME TkInv, NEW l \in Lanes, UNCHANGED <<clock, published, epoch, jwks, sa_token>>,
           failures' \in 0..MaxFailures, sa_lock' \in Lanes \cup {NoLane},
           NEW r \in LaneRecords, lane' = [lane EXCEPT ![l] = r],
           r.applied = lane[l].applied, r.after = lane[l].after, r.allowed = lane[l].allowed,
           Validates(r), Authorizes(r), InCache(r, jwks.etag)
    PROVE  TkInv'
<1>1. /\ lane' \in [Lanes -> LaneRecords] /\ lane'[l] = r
      /\ \A m \in Lanes : m # l => lane'[m] = lane[m]
  BY DEF TkInv, WorldType
<1>2. TokenTrue'
  BY DEF TkInv, TokenTrue
<1> QED BY <1>1, <1>2, LaneStep

\* A request is over.
LEMMA EndLane ==
    ASSUME TkInv, NEW l \in Lanes, UNCHANGED <<clock, published, epoch, jwks, sa_token>>,
           failures' \in 0..MaxFailures, sa_lock' \in Lanes \cup {NoLane},
           NEW how \in {"accepted", "decided", "unavailable"}, End(l, how)
    PROVE  TkInv'
<1> DEFINE r == [NewLane EXCEPT !.at = how, !.applied = lane[l].applied,
                                !.alive = lane[l].alive, !.slow = lane[l].slow]
<1>1. lane[l] \in LaneRecords /\ NewLane \in LaneRecords
  BY NewLaneFacts DEF TkInv, WorldType
<1>2. r \in LaneRecords
  BY <1>1 DEF LaneRecords, Places, Ends
<1>3. /\ r.at = how /\ r.applied = lane[l].applied /\ r.after = {} /\ r.kid = 0 /\ r.since = 0
      /\ r.token = NoToken
  BY <1>1, NewLaneFacts DEF LaneRecords
<1>4. r.alive = lane[l].alive /\ r.slow = lane[l].slow
  BY <1>1 DEF LaneRecords
<1>5. lane' = [lane EXCEPT ![l] = r]
  BY DEF End
<1> HIDE DEF r
<1>6. /\ lane' \in [Lanes -> LaneRecords] /\ lane'[l] = r
      /\ \A m \in Lanes : m # l => lane'[m] = lane[m]
  BY <1>2, <1>5 DEF TkInv, WorldType
<1>7. /\ r.kid <= r.since /\ r.since <= published /\ 0 <= published /\ r.token.epoch <= epoch
  BY <1>3, NewLaneFacts DEF TkInv, WorldType
<1>8. r.at \in Ends /\ r.at \notin {"refused", "refused_twice"}
  BY <1>3 DEF Ends
<1>9. Validates(r) /\ InCache(r, jwks.etag)
  BY <1>3, <1>7 DEF Validates, InCache, Ends
<1>10. Authorizes(r)
  BY <1>3, <1>4, <1>7 DEF TkInv, Authorizes
<1>11. TokenTrue'
  BY DEF TkInv, TokenTrue
<1> QED BY <1>3, <1>6, <1>9, <1>10, <1>11, LaneStep

\* The fields of a request that goes to another place.
LEMMA AtPlace ==
    ASSUME NEW q \in LaneRecords, NEW p \in Places
    PROVE  LET r == [q EXCEPT !.at = p]
           IN  /\ r \in LaneRecords /\ r.at = p
               /\ r.forced = q.forced /\ r.kid = q.kid /\ r.since = q.since /\ r.etag = q.etag
               /\ r.answer = q.answer /\ r.allowed = q.allowed /\ r.applied = q.applied
               /\ r.reason = q.reason /\ r.token = q.token /\ r.asked = q.asked
               /\ r.refused = q.refused /\ r.after = q.after /\ r.alive = q.alive
               /\ r.slow = q.slow
BY DEF LaneRecords

\* The tag of the cache is read before the fetch.
LEMMA ReadEtagStep == ASSUME TkInv, NEW l \in Lanes, read_etag(l) PROVE TkInv'
<1> DEFINE q == lane[l]
           r == [q EXCEPT !.at = "fetch", !.etag = jwks.etag]
<1>1. /\ q.at = "refresh" /\ lane' = [lane EXCEPT ![l] = r]
      /\ UNCHANGED <<clock, published, epoch, failures, jwks, sa_token, sa_lock>>
  BY DEF read_etag, world
<1>2. q \in LaneRecords /\ jwks.etag \in Nat /\ Validates(q) /\ Authorizes(q)
  BY DEF TkInv, WorldType
<1> HIDE DEF q
<1>3. r \in LaneRecords
  BY <1>2 DEF LaneRecords, Places
<1>4. /\ r.at = "fetch" /\ r.forced = q.forced /\ r.kid = q.kid /\ r.since = q.since
      /\ r.etag = jwks.etag /\ r.allowed = q.allowed /\ r.applied = q.applied
      /\ r.token = q.token /\ r.after = q.after /\ r.alive = q.alive /\ r.slow = q.slow
  BY <1>2 DEF LaneRecords
<1> HIDE DEF r
<1>5. Validates(r) /\ Authorizes(r) /\ InCache(r, jwks.etag)
  BY <1>1, <1>2, <1>4 DEF Validates, Authorizes, InCache, Ends
<1> QED BY <1>1, <1>3, <1>4, <1>5, MoveStep DEF q, TkInv, WorldType

\* The API answers the fetch, or does not.
LEMMA FetchStep == ASSUME TkInv, NEW l \in Lanes, fetch(l) PROVE TkInv'
<1> DEFINE q == lane[l]
<1>1. /\ q.at = "fetch" /\ UNCHANGED <<clock, published, epoch, jwks, sa_token, sa_lock>>
      /\ sa_lock' \in Lanes \cup {NoLane}
  BY DEF fetch, world, TkInv, WorldType
<1>2. /\ failures' \in 0..MaxFailures
  BY TokenAssumption DEF fetch, Failure, TkInv, WorldType
<1>3. q \in LaneRecords /\ published \in Nat /\ Validates(q) /\ Authorizes(q) /\ InCache(q, jwks.etag)
  BY DEF TkInv, WorldType
<1>4. CASE lane' = [lane EXCEPT ![l].at = "apply", ![l].answer = published]
  <2> DEFINE r == [q EXCEPT !.at = "apply", !.answer = published]
  <2>1. lane' = [lane EXCEPT ![l] = r]
    BY <1>4
  <2> HIDE DEF q
  <2>2. r \in LaneRecords
    BY <1>3 DEF LaneRecords, Places
  <2>3. /\ r.at = "apply" /\ r.forced = q.forced /\ r.kid = q.kid /\ r.since = q.since
        /\ r.etag = q.etag /\ r.answer = published /\ r.allowed = q.allowed
        /\ r.applied = q.applied /\ r.reason = q.reason /\ r.token = q.token
        /\ r.after = q.after /\ r.alive = q.alive /\ r.slow = q.slow
    BY <1>3 DEF LaneRecords
  <2> HIDE DEF r
  <2>4. Validates(r) /\ Authorizes(r) /\ InCache(r, jwks.etag)
    BY <1>1, <1>3, <2>3 DEF Validates, Authorizes, InCache, Ends
  <2> QED BY <1>1, <1>2, <2>1, <2>2, <2>3, <2>4, MoveStep DEF q
<1>5. CASE lane' = [lane EXCEPT ![l].at = AfterRefresh(l),
                                ![l].reason = IF lane[l].forced THEN "failed" ELSE @]
  <2> DEFINE p == AfterRefresh(l)
             why == IF q.forced THEN "failed" ELSE q.reason
             r == [q EXCEPT !.at = p, !.reason = why]
  <2>1. lane' = [lane EXCEPT ![l] = r]
    BY <1>5
  <2>2. /\ p \in {"retry", "verify"} /\ (p = "retry" => q.forced /\ why = "failed")
    BY DEF AfterRefresh
  <2>3. why \in {"none", "failed", "overwritten", "limited"}
    BY <1>3 DEF LaneRecords
  <2> HIDE DEF q, p, why
  <2>4. r \in LaneRecords
    BY <1>3, <2>2, <2>3 DEF LaneRecords, Places
  <2>5. /\ r.at = p /\ r.forced = q.forced /\ r.kid = q.kid /\ r.since = q.since
        /\ r.allowed = q.allowed /\ r.applied = q.applied /\ r.reason = why
        /\ r.token = q.token /\ r.after = q.after /\ r.alive = q.alive /\ r.slow = q.slow
    BY <1>3 DEF LaneRecords
  <2> HIDE DEF r
  <2>6. Validates(r) /\ Authorizes(r) /\ InCache(r, jwks.etag)
    BY <1>1, <1>3, <2>2, <2>5 DEF Validates, Authorizes, InCache, Ends
  <2> QED BY <1>1, <1>2, <2>1, <2>4, <2>5, <2>6, MoveStep DEF q
<1> QED BY <1>4, <1>5 DEF fetch

\* The first attempt.
LEMMA VerifyStep == ASSUME TkInv, NEW l \in Lanes, Verify(l) PROVE TkInv'
<1>1. /\ lane[l].at = "verify"
      /\ UNCHANGED <<clock, published, epoch, failures, jwks, sa_token, sa_lock>>
      /\ failures' \in 0..MaxFailures /\ sa_lock' \in Lanes \cup {NoLane}
  BY DEF Verify, world, TkInv, WorldType
<1>2. CASE End(l, "accepted")
  BY <1>1, <1>2, EndLane
<1>3. CASE MoveTo(l, "limit")
  <2> DEFINE r == [lane[l] EXCEPT !.at = "limit"]
  <2>1. lane[l] \in LaneRecords /\ "limit" \in Places /\ lane' = [lane EXCEPT ![l] = r]
        /\ Validates(lane[l]) /\ Authorizes(lane[l])
    BY <1>3 DEF MoveTo, TkInv, WorldType, Places
  <2>2. /\ r \in LaneRecords /\ r.at = "limit"
        /\ r.forced = lane[l].forced /\ r.kid = lane[l].kid /\ r.since = lane[l].since
        /\ r.allowed = lane[l].allowed /\ r.applied = lane[l].applied
        /\ r.token = lane[l].token /\ r.after = lane[l].after /\ r.alive = lane[l].alive
        /\ r.slow = lane[l].slow
    BY <2>1, AtPlace
  <2> HIDE DEF r
  <2>3. Validates(r) /\ Authorizes(r) /\ InCache(r, jwks.etag)
    BY <1>1, <2>1, <2>2 DEF Validates, Authorizes, InCache, Ends
  <2> QED BY <1>1, <2>1, <2>2, <2>3, MoveStep
<1> QED BY <1>2, <1>3 DEF Verify

\* A forced refresh is allowed, or not.
LEMMA LimitStep == ASSUME TkInv, NEW l \in Lanes, Limit(l) PROVE TkInv'
<1> DEFINE q == lane[l]
<1>1. /\ q.at = "limit"
      /\ UNCHANGED <<clock, published, epoch, failures, jwks, sa_token, sa_lock>>
      /\ failures' \in 0..MaxFailures /\ sa_lock' \in Lanes \cup {NoLane}
  BY DEF Limit, world, TkInv, WorldType
<1>2. q \in LaneRecords /\ Validates(q) /\ Authorizes(q) /\ TokenTrue' /\ clock \in Int
  BY <1>1 DEF TkInv, WorldType, TokenTrue
<1>3. CASE can_force_refresh
  <2> DEFINE s == {m \in Lanes : lane[m].applied # NoTime}
             r == [q EXCEPT !.at = "refresh", !.forced = TRUE, !.allowed = clock, !.after = s]
  <2>1. lane' = [lane EXCEPT ![l] = r]
    BY <1>3 DEF Limit, Forced
  <2>2. \A m \in s : lane[m].applied # NoTime /\ clock - lane[m].applied >= FORCED_REFRESH_FLOOR
    <3>1. ASSUME NEW m \in Lanes, lane[m].applied # NoTime
          PROVE  clock - lane[m].applied >= FORCED_REFRESH_FLOOR
      <4>1. /\ jwks.last_forced_refresh # NoTime
            /\ lane[m].applied <= jwks.last_forced_refresh
        BY <3>1 DEF TkInv, LastApplied
      <4>2. clock - jwks.last_forced_refresh >= FORCED_REFRESH_FLOOR
        BY <1>3, <4>1 DEF can_force_refresh
      <4>3. /\ lane[m].applied \in Int /\ jwks.last_forced_refresh \in Int
            /\ FORCED_REFRESH_FLOOR \in Int
        BY TokenAssumption DEF TkInv, WorldType, LaneRecords
      <4> QED BY <1>2, <4>1, <4>2, <4>3
    <3> QED BY <3>1
  <2>3. s \in SUBSET Lanes
    OBVIOUS
  <2> HIDE DEF q, s
  <2>4. r \in LaneRecords
    BY <1>2, <2>3 DEF LaneRecords, Places
  <2>5. /\ r.at = "refresh" /\ r.kid = q.kid /\ r.since = q.since
        /\ r.allowed = clock /\ r.applied = q.applied /\ r.after = s
        /\ r.token = q.token /\ r.alive = q.alive /\ r.slow = q.slow
    BY <1>2 DEF LaneRecords
  <2> HIDE DEF r
  <2>6. Validates(r) /\ Authorizes(r) /\ InCache(r, jwks.etag)
    BY <1>1, <1>2, <2>5 DEF Validates, Authorizes, InCache, Ends
  <2>7. /\ lane' \in [Lanes -> LaneRecords] /\ lane'[l] = r
        /\ \A m \in Lanes : m # l => lane'[m] = lane[m]
    BY <2>1, <2>4 DEF TkInv, WorldType
  <2> QED BY <1>1, <1>2, <2>2, <2>5, <2>6, <2>7, LaneStep DEF q
<1>4. CASE ~can_force_refresh
  <2> DEFINE r == [q EXCEPT !.at = "refused", !.reason = "limited"]
  <2>1. lane' = [lane EXCEPT ![l] = r]
    BY <1>4 DEF Limit
  <2> HIDE DEF q
  <2>2. r \in LaneRecords
    BY <1>2 DEF LaneRecords, Places, Ends
  <2>3. /\ r.at = "refused" /\ r.reason = "limited" /\ r.kid = q.kid /\ r.since = q.since
        /\ r.allowed = q.allowed /\ r.applied = q.applied /\ r.after = q.after
        /\ r.token = q.token /\ r.alive = q.alive /\ r.slow = q.slow
    BY <1>2 DEF LaneRecords
  <2> HIDE DEF r
  <2>4. Validates(r) /\ Authorizes(r) /\ InCache(r, jwks.etag)
    BY <1>1, <1>2, <2>3 DEF Validates, Authorizes, InCache, Ends
  <2> QED BY <1>1, <2>1, <2>2, <2>3, <2>4, MoveStep DEF q
<1> QED BY <1>3, <1>4

\* A key that was published when the validation began, and still is, belongs to every
\* version in between.
LEMMA KeysBetween ==
    ASSUME NEW s \in Nat, NEW v \in Nat, NEW p \in Nat, s <= v, v <= p
    PROVE  Keys(s) \cap Keys(p) \subseteq Keys(v)
BY TokenAssumption DEF Keys

\* The second attempt.
LEMMA RetryStep == ASSUME TkInv, NEW l \in Lanes, Retry(l) PROVE TkInv'
<1> DEFINE q == lane[l]
<1>1. /\ q.at = "retry"
      /\ UNCHANGED <<clock, published, epoch, failures, jwks, sa_token, sa_lock>>
      /\ failures' \in 0..MaxFailures /\ sa_lock' \in Lanes \cup {NoLane}
  BY DEF Retry, world, TkInv, WorldType
<1>2. CASE verify_and_decode(l)
  BY <1>1, <1>2, EndLane DEF Retry
<1>3. CASE ~verify_and_decode(l)
  <2> DEFINE r == [q EXCEPT !.at = "refused"]
  <2>1. q \in LaneRecords /\ "refused" \in Places /\ lane' = [lane EXCEPT ![l] = r]
        /\ Validates(q) /\ Authorizes(q) /\ InCache(q, jwks.etag)
    BY <1>3 DEF Retry, MoveTo, TkInv, WorldType, Places, Ends
  <2>2. q.reason = "none" => q.kid \notin Keys(q.since) \cap Keys(published)
    <3> SUFFICES ASSUME q.reason = "none", q.kid \in Keys(q.since) \cap Keys(published)
                 PROVE  FALSE
      OBVIOUS
    <3>1. q.since <= jwks.etag /\ jwks.etag <= published
      BY <1>1, <2>1 DEF InCache, TkInv, WorldType
    <3>2. q.since \in Nat /\ jwks.etag \in Nat /\ published \in Nat
      BY <2>1 DEF TkInv, WorldType, LaneRecords
    <3> HIDE DEF q
    <3>3. q.kid \in jwks.keys
      BY <3>1, <3>2, KeysBetween DEF TkInv, CacheHolds
    <3> QED BY <1>3, <3>3 DEF verify_and_decode, q
  <2> HIDE DEF q
  <2>3. /\ r \in LaneRecords /\ r.at = "refused"
        /\ r.kid = q.kid /\ r.since = q.since /\ r.reason = q.reason
        /\ r.allowed = q.allowed /\ r.applied = q.applied
        /\ r.token = q.token /\ r.after = q.after /\ r.alive = q.alive /\ r.slow = q.slow
    BY <2>1, AtPlace
  <2> HIDE DEF r
  <2>4. Validates(r) /\ Authorizes(r) /\ InCache(r, jwks.etag)
    BY <1>1, <2>1, <2>2, <2>3 DEF Validates, Authorizes, InCache, Ends
  <2> QED BY <1>1, <2>1, <2>3, <2>4, MoveStep DEF q
<1> QED BY <1>2, <1>3

\* The answer is applied to the cache: it is no older than the version the request
\* began with, and who looks for a newer one is told that it was undone.
LEMMA ApplyStep == ASSUME TkInv, NEW l \in Lanes, apply(l) PROVE TkInv'
<1> DEFINE q == lane[l]
           p == AfterRefresh(l)
           t == IF q.forced THEN clock ELSE q.applied
           r == [q EXCEPT !.at = p, !.etag = 0, !.answer = 0, !.applied = t]
           k == IF NotModified(l) THEN jwks.keys ELSE Keys(q.answer)
           e == IF NotModified(l) THEN jwks.etag ELSE q.answer
           f == IF q.forced THEN clock ELSE jwks.last_forced_refresh
<1>1. /\ q.at = "apply" /\ UNCHANGED <<clock, published, epoch, failures, sa_token, sa_lock>>
      /\ lane' = Concluded(l)
      /\ jwks' = [jwks EXCEPT !.keys = k, !.etag = e, !.fetched_at = clock,
                              !.last_forced_refresh = f]
  BY DEF apply, world
<1>2. /\ q \in LaneRecords /\ Validates(q) /\ Authorizes(q) /\ InCache(q, jwks.etag)
      /\ clock \in Nat /\ published \in Nat
      /\ jwks \in [keys : SUBSET (1..MaxVersion), etag : 0..published, fetched_at : Int,
                   last_forced_refresh : Int]
  BY DEF TkInv, WorldType
<1>3. q.answer \in Nat /\ q.since <= q.answer /\ q.answer <= published /\ q.applied = NoTime
  BY <1>1, <1>2 DEF LaneRecords, Validates, Ends
<1>4. /\ k \in SUBSET (1..MaxVersion) /\ e \in 0..published /\ k = Keys(e)
      /\ f \in Int /\ f <= clock /\ (q.forced => f = clock /\ t = clock)
      /\ ~q.forced => f = jwks.last_forced_refresh /\ t = NoTime
  BY <1>2, <1>3 DEF TkInv, CacheHolds, Keys
<1>5. /\ p \in {"retry", "verify"} /\ t \in Int
      /\ q.forced => p = "retry"
      /\ ~q.forced => p = "verify"
  BY <1>2, <1>4 DEF AfterRefresh, NoTime
<1>6. q.reason = "none" /\ q.forced => q.since <= e
  BY <1>1, <1>2, <1>3 DEF InCache, NotModified, LaneRecords
<1>7. \A m \in Lanes : lane'[m] =
         IF m = l THEN r
         ELSE IF Overwritten(l, m) THEN [lane[m] EXCEPT !.reason = "overwritten"] ELSE lane[m]
  BY <1>1 DEF Concluded
<1>8. lane' = [m \in Lanes |-> lane'[m]]
  BY <1>1 DEF Concluded
<1>9. ~NotModified(l) => e = q.answer
  OBVIOUS
<1>10. NotModified(l) => e = jwks.etag
  OBVIOUS
<1> HIDE DEF q, p, t, k, e, f
<1>11. /\ jwks' \in [keys : SUBSET (1..MaxVersion), etag : 0..published, fetched_at : Int,
                     last_forced_refresh : Int]
       /\ jwks'.keys = k /\ jwks'.etag = e /\ jwks'.last_forced_refresh = f
  <2> DEFINE S == SUBSET (1..MaxVersion)
             V == 0..published
  <2>1. jwks \in [keys : S, etag : V, fetched_at : Int, last_forced_refresh : Int]
        /\ k \in S /\ e \in V /\ f \in Int /\ clock \in Int
    BY <1>2, <1>4
  <2>2. jwks' = [jwks EXCEPT !.keys = k, !.etag = e, !.fetched_at = clock,
                             !.last_forced_refresh = f]
    BY <1>1
  <2> HIDE DEF S, V
  <2>3. jwks' \in [keys : S, etag : V, fetched_at : Int, last_forced_refresh : Int]
        /\ jwks'.keys = k /\ jwks'.etag = e /\ jwks'.last_forced_refresh = f
    BY <2>1, <2>2
  <2> QED BY <2>3 DEF S, V
<1>12. r \in LaneRecords
  BY <1>2, <1>5 DEF LaneRecords, Places
<1>13. /\ r.at = p /\ r.forced = q.forced /\ r.kid = q.kid /\ r.since = q.since
       /\ r.allowed = q.allowed /\ r.applied = t /\ r.reason = q.reason
       /\ r.token = q.token /\ r.after = q.after /\ r.alive = q.alive /\ r.slow = q.slow
  BY <1>2 DEF LaneRecords
<1> HIDE DEF r
<1>14. ASSUME NEW m \in Lanes, m # l
       PROVE  /\ lane'[m] \in LaneRecords /\ lane'[m].applied = lane[m].applied
              /\ lane'[m].allowed = lane[m].allowed /\ lane'[m].after = lane[m].after
              /\ lane'[m].at = lane[m].at /\ lane'[m].token = lane[m].token
              /\ Validates(lane'[m]) /\ Authorizes(lane'[m]) /\ InCache(lane'[m], e)
  <2>1. /\ lane[m] \in LaneRecords /\ Validates(lane[m]) /\ Authorizes(lane[m])
        /\ InCache(lane[m], jwks.etag)
    BY DEF TkInv, WorldType
  <2>2. CASE Overwritten(l, m)
    <3> DEFINE s == [lane[m] EXCEPT !.reason = "overwritten"]
    <3>1. lane'[m] = s
      BY <1>7, <1>14, <2>2
    <3>2. /\ s \in LaneRecords /\ s.reason = "overwritten" /\ s.at = lane[m].at
          /\ s.forced = lane[m].forced /\ s.kid = lane[m].kid /\ s.since = lane[m].since
          /\ s.etag = lane[m].etag /\ s.answer = lane[m].answer
          /\ s.allowed = lane[m].allowed /\ s.applied = lane[m].applied
          /\ s.token = lane[m].token /\ s.asked = lane[m].asked
          /\ s.refused = lane[m].refused /\ s.after = lane[m].after
          /\ s.alive = lane[m].alive /\ s.slow = lane[m].slow
      BY <2>1 DEF LaneRecords
    <3> HIDE DEF s
    <3>3. Validates(s) /\ Authorizes(s) /\ InCache(s, e)
      BY <2>1, <3>2 DEF Validates, Authorizes, InCache
    <3> QED BY <3>1, <3>2, <3>3
  <2>3. CASE ~Overwritten(l, m)
    <3>1. lane'[m] = lane[m]
      BY <1>7, <1>14, <2>3
    <3>2. InCache(lane[m], e)
      <4>1. CASE e >= jwks.etag
        BY <1>2, <1>4, <1>11, <2>1, <3>1, <4>1 DEF InCache, LaneRecords
      <4>2. CASE e < jwks.etag
        <5>1. ~NotModified(l) /\ q.answer < jwks.etag
          BY <1>2, <1>9, <1>10, <4>2
        <5>2. ~(lane[m].forced /\ lane[m].at \in {"fetch", "apply", "retry"})
          BY <1>14, <2>3, <5>1 DEF Overwritten, q
        <5> QED BY <2>1, <3>1, <5>2 DEF InCache, Validates
      <4> QED BY <1>2, <1>4, <4>1, <4>2
    <3> QED BY <2>1, <3>1, <3>2
  <2> QED BY <2>2, <2>3
<1>15. /\ lane'[l] = r /\ \A m \in Lanes : lane'[m] \in LaneRecords
  BY <1>7, <1>12, <1>14
<1>16. WorldType'
  <2>1. lane' \in [Lanes -> LaneRecords]
    BY <1>8, <1>15
  <2> QED BY <1>1, <1>11, <2>1 DEF TkInv, WorldType
<1>17. CacheHolds' /\ TokenTrue'
  BY <1>1, <1>4, <1>11 DEF TkInv, TokenTrue, CacheHolds, Keys
<1>18. Validates(r) /\ Authorizes(r) /\ InCache(r, e)
  <2>1. InCache(r, e)
    BY <1>5, <1>6, <1>11, <1>13, <1>15 DEF InCache
  <2> QED BY <1>1, <1>2, <1>4, <1>5, <1>13, <2>1 DEF Validates, Authorizes, Ends
<1>19. \A m \in Lanes : Validates(lane[m])' /\ Authorizes(lane[m])' /\ InCache(lane[m], jwks.etag)'
  <2> SUFFICES ASSUME NEW m \in Lanes
               PROVE  /\ Validates(lane'[m]) /\ Authorizes(lane'[m]) /\ InCache(lane'[m], e)
    BY <1>1 DEF Validates, Authorizes, Accepted
  <2> QED BY <1>14, <1>15, <1>18
<1>20. LastApplied'
  <2> SUFFICES ASSUME NEW m \in Lanes, lane'[m].applied # NoTime
               PROVE  f # NoTime /\ lane'[m].applied <= f
    BY <1>11 DEF LastApplied
  <2>1. CASE m = l
    BY <1>2, <1>4, <1>13, <1>15, <2>1 DEF NoTime
  <2>2. CASE m # l
    <3>1. /\ lane[m].applied # NoTime /\ lane'[m].applied = lane[m].applied
          /\ lane[m].applied \in Int
      BY <1>14, <2>2 DEF TkInv, WorldType, LaneRecords
    <3>2. /\ jwks.last_forced_refresh # NoTime /\ jwks.last_forced_refresh \in Int
          /\ lane[m].applied <= jwks.last_forced_refresh /\ jwks.last_forced_refresh <= clock
      BY <1>2, <3>1 DEF TkInv, LastApplied, CacheHolds
    <3> QED BY <1>2, <1>4, <3>1, <3>2 DEF NoTime
  <2> QED BY <2>1, <2>2
<1>21. \A m \in Lanes : Spaced(m)'
  <2> SUFFICES ASSUME NEW m \in Lanes, NEW n \in lane'[m].after
               PROVE  lane'[n].applied # NoTime
                      /\ lane'[m].allowed - lane'[n].applied >= FORCED_REFRESH_FLOOR
    BY DEF Spaced
  <2>1. lane'[m].after = lane[m].after /\ lane'[m].allowed = lane[m].allowed
    BY <1>13, <1>14, <1>15 DEF q
  <2>2. /\ n \in Lanes /\ lane[n].applied # NoTime
        /\ lane[m].allowed - lane[n].applied >= FORCED_REFRESH_FLOOR
    BY <2>1 DEF TkInv, Spaced, WorldType, LaneRecords
  <2>3. n # l
    BY <1>3, <2>2 DEF q
  <2> QED BY <1>14, <2>1, <2>2, <2>3
<1> QED BY <1>16, <1>17, <1>19, <1>20, <1>21 DEF TkInv

\* A call of the API begins.
LEMMA ApiCallStep == ASSUME TkInv, NEW l \in Lanes, Call(l) PROVE TkInv'
<1> DEFINE q == lane[l]
           r == [q EXCEPT !.at = "get_token"]
<1>1. /\ q.at = "idle" /\ lane' = [lane EXCEPT ![l] = r]
      /\ UNCHANGED <<clock, published, epoch, failures, jwks, sa_token, sa_lock>>
      /\ failures' \in 0..MaxFailures /\ sa_lock' \in Lanes \cup {NoLane}
  BY DEF Call, MoveTo, world, TkInv, WorldType
<1>2. /\ q \in LaneRecords /\ "get_token" \in Places /\ Validates(q) /\ Authorizes(q)
  BY DEF TkInv, WorldType, Places
<1> HIDE DEF q
<1>3. /\ r \in LaneRecords /\ r.at = "get_token" /\ r.kid = q.kid /\ r.since = q.since
      /\ r.allowed = q.allowed /\ r.applied = q.applied
      /\ r.token = q.token /\ r.after = q.after /\ r.alive = q.alive /\ r.slow = q.slow
  BY <1>2, AtPlace
<1> HIDE DEF r
<1>4. Validates(r) /\ Authorizes(r) /\ InCache(r, jwks.etag)
  BY <1>1, <1>2, <1>3 DEF Validates, Authorizes, InCache, Ends
<1> QED BY <1>1, <1>3, <1>4, MoveStep DEF q

\* A fresh token is handed out: by its expiry it is alive for longer than the margin,
\* so that only a mint that took longer than the margin makes it a dead one.
LEMMA GetTokenStep == ASSUME TkInv, NEW l \in Lanes, get_token(l) PROVE TkInv'
<1> DEFINE q == lane[l]
<1>1. /\ q.at = "get_token" /\ UNCHANGED <<clock, published, epoch, failures, jwks, sa_token>>
      /\ failures' \in 0..MaxFailures /\ sa_lock' \in Lanes \cup {NoLane}
  BY DEF get_token, world, TkInv, WorldType
<1>2. /\ q \in LaneRecords /\ Validates(q) /\ Authorizes(q) /\ clock \in Int
      /\ sa_token \in Tokens /\ sa_token.epoch <= epoch
      /\ sa_token.expires_at = sa_token.real + sa_token.took
  BY DEF TkInv, WorldType, TokenTrue
<1>3. CASE is_fresh
  <2> DEFINE a == sa_token.real > clock
             w == sa_token.took > REFRESH_MARGIN
             r == [q EXCEPT !.at = "send", !.token = sa_token, !.alive = a, !.slow = w]
  <2>1. lane' = [lane EXCEPT ![l] = r]
    BY <1>3 DEF get_token
  <2>2. a \/ w
    BY <1>2, <1>3, TokenAssumption DEF is_fresh, Tokens
  <2>3. a \in BOOLEAN /\ w \in BOOLEAN
    OBVIOUS
  <2> HIDE DEF q, a, w
  <2>4. r \in LaneRecords
    BY <1>2, <2>3 DEF LaneRecords, Places
  <2>5. /\ r.at = "send" /\ r.kid = q.kid /\ r.since = q.since
        /\ r.allowed = q.allowed /\ r.applied = q.applied /\ r.after = q.after
        /\ r.token = sa_token
    BY <1>2 DEF LaneRecords
  <2>6. r.alive = a /\ r.slow = w
    BY <1>2 DEF LaneRecords
  <2> HIDE DEF r
  <2>7. r.alive \/ r.slow
    BY <2>2, <2>6, Zenon
  <2>8. Validates(r) /\ Authorizes(r) /\ InCache(r, jwks.etag)
    BY <1>1, <1>2, <2>5, <2>7 DEF Validates, Authorizes, InCache, Ends
  <2> QED BY <1>1, <2>1, <2>4, <2>5, <2>8, MoveStep DEF q
<1>4. CASE ~is_fresh
  <2> DEFINE r == [q EXCEPT !.at = "mint", !.asked = clock]
  <2>1. lane' = [lane EXCEPT ![l] = r]
    BY <1>4 DEF get_token
  <2> HIDE DEF q
  <2>2. r \in LaneRecords
    BY <1>2 DEF LaneRecords, Places
  <2>3. /\ r.at = "mint" /\ r.kid = q.kid /\ r.since = q.since
        /\ r.allowed = q.allowed /\ r.applied = q.applied /\ r.after = q.after
        /\ r.token = q.token /\ r.alive = q.alive /\ r.slow = q.slow
    BY <1>2 DEF LaneRecords
  <2> HIDE DEF r
  <2>4. Validates(r) /\ Authorizes(r) /\ InCache(r, jwks.etag)
    BY <1>1, <1>2, <2>3 DEF Validates, Authorizes, InCache, Ends
  <2> QED BY <1>1, <2>1, <2>2, <2>3, <2>4, MoveStep DEF q
<1> QED BY <1>3, <1>4

\* A token is issued, or the mint fails and ends the call.
LEMMA MintStep == ASSUME TkInv, NEW l \in Lanes, mint(l) PROVE TkInv'
<1> DEFINE q == lane[l]
<1>1. /\ q.at \in {"mint", "remint"} /\ UNCHANGED <<clock, published, epoch, jwks, sa_token>>
      /\ sa_lock' \in Lanes \cup {NoLane}
  BY DEF mint, world, TkInv, WorldType
<1>2. /\ failures' \in 0..MaxFailures
  BY TokenAssumption DEF mint, Failure, TkInv, WorldType
<1>3. /\ q \in LaneRecords /\ Validates(q) /\ Authorizes(q) /\ clock \in Int /\ epoch \in Nat
      /\ Ttl \in Int
  BY TokenAssumption DEF TkInv, WorldType
<1>4. CASE End(l, "unavailable")
  BY <1>1, <1>2, <1>4, EndLane
<1>5. CASE ~End(l, "unavailable")
  <2> DEFINE t == [NoToken EXCEPT !.epoch = epoch, !.real = clock + Ttl]
             p == IF q.at = "mint" THEN "minted" ELSE "reminted"
             r == [q EXCEPT !.token = t, !.asked = clock, !.at = p]
  <2>1. lane' = [lane EXCEPT ![l] = r]
    BY <1>5 DEF mint
  <2>2. t \in Tokens /\ t.epoch = epoch /\ t.real = clock + Ttl
    <3> DEFINE i == clock + Ttl
    <3>1. NoToken \in Tokens /\ i \in Int
      BY <1>3, NewLaneFacts
    <3>2. t = [NoToken EXCEPT !.epoch = epoch, !.real = i]
      OBVIOUS
    <3> HIDE DEF i, t
    <3>3. t \in Tokens /\ t.epoch = epoch /\ t.real = i
      BY <1>3, <3>1, <3>2 DEF Tokens
    <3> QED BY <3>3 DEF i
  <2>3. p \in {"minted", "reminted"} /\ (p = "reminted" => q.at = "remint")
    BY <1>1
  <2> HIDE DEF q, t, p
  <2>4. r \in LaneRecords
    BY <1>3, <2>2, <2>3 DEF LaneRecords, Places
  <2>5. /\ r.at = p /\ r.kid = q.kid /\ r.since = q.since
        /\ r.allowed = q.allowed /\ r.applied = q.applied /\ r.after = q.after
        /\ r.token = t /\ r.alive = q.alive /\ r.slow = q.slow
        /\ r.asked = clock /\ r.refused = q.refused
    BY <1>3 DEF LaneRecords
  <2> HIDE DEF r
  <2>6. Validates(r) /\ InCache(r, jwks.etag)
    BY <1>1, <1>3, <2>3, <2>5 DEF Validates, InCache, Ends
  <2>7. Authorizes(r)
    BY <1>1, <1>3, <2>2, <2>3, <2>5 DEF Authorizes
  <2> QED BY <1>1, <1>2, <2>1, <2>4, <2>5, <2>6, <2>7, MoveStep DEF q
<1> QED BY <1>4, <1>5

\* The answer of the mint is read.
LEMMA MintedStep == ASSUME TkInv, NEW l \in Lanes, minted(l) PROVE TkInv'
<1> DEFINE q == lane[l]
           t == [q.token EXCEPT !.expires_at = clock + Ttl, !.took = clock - q.asked]
           p == IF q.at = "minted" THEN "send" ELSE "resend"
           r == [q EXCEPT !.token = t, !.at = p]
<1>1. /\ q.at \in {"minted", "reminted"} /\ UNCHANGED <<clock, published, epoch, failures, jwks>>
      /\ sa_lock' = NoLane /\ sa_token' = t /\ lane' = [lane EXCEPT ![l] = r]
  BY DEF minted, world
<1>2. /\ q \in LaneRecords /\ Validates(q) /\ Authorizes(q) /\ clock \in Int /\ Ttl \in Int
      /\ failures' \in 0..MaxFailures /\ sa_lock' \in Lanes \cup {NoLane}
  BY <1>1, TokenAssumption DEF TkInv, WorldType
<1>3. /\ q.token \in Tokens /\ q.asked \in Int /\ q.token.real = q.asked + Ttl
      /\ q.token.epoch <= epoch
  BY <1>1, <1>2 DEF Authorizes, LaneRecords
<1>4. p \in {"send", "resend"} /\ (p = "resend" => q.at = "reminted")
  BY <1>1
<1> HIDE DEF q, p
<1>5. /\ t \in Tokens /\ t.epoch = q.token.epoch /\ t.real = q.token.real
      /\ t.expires_at = clock + Ttl /\ t.took = clock - q.asked
  <2> DEFINE i == clock + Ttl
             j == clock - q.asked
  <2>1. i \in Int /\ j \in Int
    BY <1>2, <1>3
  <2>2. t = [q.token EXCEPT !.expires_at = i, !.took = j]
    OBVIOUS
  <2> HIDE DEF i, j, t
  <2>3. /\ t \in Tokens /\ t.epoch = q.token.epoch /\ t.real = q.token.real
        /\ t.expires_at = i /\ t.took = j
    BY <1>3, <2>1, <2>2 DEF Tokens
  <2> QED BY <2>3 DEF i, j
<1> HIDE DEF t
<1>6. TokenTrue'
  <2>1. t.expires_at = t.real + t.took
    BY <1>2, <1>3, <1>5
  <2> QED BY <1>1, <1>3, <1>5, <2>1 DEF TokenTrue
<1>7. r \in LaneRecords
  BY <1>2, <1>4, <1>5 DEF LaneRecords, Places
<1>8. /\ r.at = p /\ r.kid = q.kid /\ r.since = q.since
      /\ r.allowed = q.allowed /\ r.applied = q.applied /\ r.after = q.after
      /\ r.token = t /\ r.alive = q.alive /\ r.slow = q.slow /\ r.refused = q.refused
  BY <1>2 DEF LaneRecords
<1> HIDE DEF r
<1>9. Validates(r) /\ Authorizes(r) /\ InCache(r, jwks.etag)
  BY <1>1, <1>2, <1>3, <1>4, <1>5, <1>8 DEF Validates, Authorizes, InCache, Ends
<1>10. /\ lane' \in [Lanes -> LaneRecords] /\ lane'[l] = r
       /\ \A m \in Lanes : m # l => lane'[m] = lane[m]
  BY <1>1, <1>7 DEF TkInv, WorldType
<1> QED BY <1>1, <1>2, <1>6, <1>8, <1>9, <1>10, LaneStep DEF q

\* The request of a call and its answer.
LEMMA SendStep == ASSUME TkInv, NEW l \in Lanes, send_json(l) PROVE TkInv'
<1> DEFINE q == lane[l]
<1>1. /\ q.at = "send" /\ UNCHANGED <<clock, published, epoch, jwks, sa_token>>
      /\ sa_lock' \in Lanes \cup {NoLane}
  BY DEF send_json, world, TkInv, WorldType
<1>2. failures' \in 0..MaxFailures
  BY TokenAssumption DEF send_json, Failure, TkInv, WorldType
<1>3. q \in LaneRecords /\ Validates(q) /\ Authorizes(q) /\ epoch \in Nat
  BY TokenAssumption DEF TkInv, WorldType
<1>4. CASE End(l, "decided")
  BY <1>1, <1>2, <1>4, EndLane
<1>5. CASE End(l, "unavailable")
  BY <1>1, <1>2, <1>5, EndLane
<1>6. CASE lane' = [lane EXCEPT ![l].at = "force", ![l].refused = epoch]
  <2> DEFINE r == [q EXCEPT !.at = "force", !.refused = epoch]
  <2>1. lane' = [lane EXCEPT ![l] = r]
    BY <1>6
  <2> HIDE DEF q
  <2>2. r \in LaneRecords
    BY <1>3 DEF LaneRecords, Places
  <2>3. /\ r.at = "force" /\ r.kid = q.kid /\ r.since = q.since
        /\ r.allowed = q.allowed /\ r.applied = q.applied /\ r.after = q.after
        /\ r.token = q.token /\ r.alive = q.alive /\ r.slow = q.slow /\ r.refused = epoch
    BY <1>3 DEF LaneRecords
  <2> HIDE DEF r
  <2>4. Validates(r) /\ Authorizes(r) /\ InCache(r, jwks.etag)
    BY <1>1, <1>3, <2>3 DEF Validates, Authorizes, InCache, Ends
  <2> QED BY <1>1, <1>2, <2>1, <2>2, <2>3, <2>4, MoveStep DEF q
<1> QED BY <1>4, <1>5, <1>6 DEF send_json

\* The cached token is dropped, and another is asked for.
LEMMA ForceStep == ASSUME TkInv, NEW l \in Lanes, force_refresh(l) PROVE TkInv'
<1> DEFINE q == lane[l]
           r == [q EXCEPT !.at = "remint", !.asked = clock]
<1>1. /\ q.at = "force" /\ UNCHANGED <<clock, published, epoch, failures, jwks>>
      /\ sa_token' = NoToken /\ sa_lock' = l /\ lane' = [lane EXCEPT ![l] = r]
  BY DEF force_refresh, world
<1>2. /\ q \in LaneRecords /\ Validates(q) /\ Authorizes(q) /\ clock \in Int /\ epoch \in Nat
      /\ failures' \in 0..MaxFailures /\ sa_lock' \in Lanes \cup {NoLane}
  BY <1>1, TokenAssumption DEF TkInv, WorldType
<1>3. TokenTrue'
  BY <1>1, <1>2, NewLaneFacts DEF TokenTrue
<1> HIDE DEF q
<1>4. r \in LaneRecords
  BY <1>2 DEF LaneRecords, Places
<1>5. /\ r.at = "remint" /\ r.kid = q.kid /\ r.since = q.since
      /\ r.allowed = q.allowed /\ r.applied = q.applied /\ r.after = q.after
      /\ r.token = q.token /\ r.alive = q.alive /\ r.slow = q.slow /\ r.refused = q.refused
  BY <1>2 DEF LaneRecords
<1> HIDE DEF r
<1>6. Validates(r) /\ Authorizes(r) /\ InCache(r, jwks.etag)
  BY <1>1, <1>2, <1>5 DEF Validates, Authorizes, InCache, Ends
<1>7. /\ lane' \in [Lanes -> LaneRecords] /\ lane'[l] = r
      /\ \A m \in Lanes : m # l => lane'[m] = lane[m]
  BY <1>1, <1>4 DEF TkInv, WorldType
<1> QED BY <1>1, <1>2, <1>3, <1>5, <1>6, <1>7, LaneStep DEF q

\* The second request of a call and its answer.
LEMMA ResendStep == ASSUME TkInv, NEW l \in Lanes, resend_json(l) PROVE TkInv'
<1> DEFINE q == lane[l]
<1>1. /\ q.at = "resend" /\ UNCHANGED <<clock, published, epoch, jwks, sa_token>>
      /\ sa_lock' \in Lanes \cup {NoLane}
  BY DEF resend_json, world, TkInv, WorldType
<1>2. failures' \in 0..MaxFailures
  BY TokenAssumption DEF resend_json, Failure, TkInv, WorldType
<1>3. q \in LaneRecords /\ Validates(q) /\ Authorizes(q)
  BY DEF TkInv, WorldType
<1>4. CASE End(l, "decided")
  BY <1>1, <1>2, <1>4, EndLane
<1>5. CASE End(l, "unavailable")
  BY <1>1, <1>2, <1>5, EndLane
<1>6. CASE ~Accepted(lane[l].token) /\ MoveTo(l, "refused_twice")
  <2> DEFINE r == [q EXCEPT !.at = "refused_twice"]
  <2>1. lane' = [lane EXCEPT ![l] = r] /\ "refused_twice" \in Places
    BY <1>6 DEF MoveTo, Places, Ends
  <2>2. ~Accepted(q.token)
    BY <1>6
  <2> HIDE DEF q
  <2>3. /\ r \in LaneRecords /\ r.at = "refused_twice" /\ r.kid = q.kid /\ r.since = q.since
        /\ r.allowed = q.allowed /\ r.applied = q.applied /\ r.after = q.after
        /\ r.token = q.token /\ r.alive = q.alive /\ r.slow = q.slow /\ r.refused = q.refused
    BY <1>3, <2>1, AtPlace
  <2> HIDE DEF r
  <2>4. Validates(r) /\ Authorizes(r) /\ InCache(r, jwks.etag)
    BY <1>1, <1>3, <2>2, <2>3 DEF Validates, Authorizes, InCache, Ends
  <2> QED BY <1>1, <1>2, <2>1, <2>3, <2>4, MoveStep DEF q
<1> QED BY <1>4, <1>5, <1>6 DEF resend_json

\* What the passing of time and the API's own steps leave of the requests.
LEMMA WorldStep ==
    ASSUME TkInv, UNCHANGED <<failures, jwks, sa_token, sa_lock, lane>>,
           clock' \in 0..LastTick, published' \in 1..MaxVersion, epoch' \in 1..MaxEpoch,
           clock <= clock', published <= published', epoch <= epoch'
    PROVE  TkInv'
<1>1. /\ clock \in Int /\ published \in Int /\ epoch \in Int
      /\ clock' \in Int /\ published' \in Int /\ epoch' \in Int
  BY DEF TkInv, WorldType
<1>2. /\ jwks.keys \in SUBSET (1..MaxVersion) /\ jwks.etag \in 0..published
      /\ jwks.fetched_at \in Int /\ jwks.last_forced_refresh \in Int
  BY DEF TkInv, WorldType
<1>3. WorldType'
  <2>1. jwks \in [keys : SUBSET (1..MaxVersion), etag : 0..published', fetched_at : Int,
                  last_forced_refresh : Int]
    <3>1. 0..published \subseteq 0..published'
      BY <1>1
    <3> DEFINE S == SUBSET (1..MaxVersion)
    <3>2. jwks \in [keys : S, etag : 0..published, fetched_at : Int,
                    last_forced_refresh : Int]
      BY DEF TkInv, WorldType
    <3> HIDE DEF S
    <3>3. jwks \in [keys : S, etag : 0..published', fetched_at : Int,
                    last_forced_refresh : Int]
      BY <3>1, <3>2
    <3> QED BY <3>3 DEF S
  <2> QED BY <2>1 DEF TkInv, WorldType
<1>4. CacheHolds'
  BY <1>1, <1>2 DEF TkInv, CacheHolds, Keys
<1>5. TokenTrue'
  BY <1>1 DEF TkInv, TokenTrue, Tokens
<1>6. LastApplied'
  BY DEF TkInv, LastApplied
<1>7. ASSUME NEW l \in Lanes
      PROVE  Validates(lane[l])' /\ Authorizes(lane[l])' /\ InCache(lane[l], jwks.etag)'
             /\ Spaced(l)'
  <2> DEFINE q == lane[l]
  <2>1. /\ q \in LaneRecords /\ Validates(q) /\ Authorizes(q) /\ InCache(q, jwks.etag)
        /\ Spaced(l) /\ lane' = lane /\ jwks' = jwks
    BY DEF TkInv, WorldType
  <2>2. InCache(q, jwks.etag)' /\ Spaced(l)'
    BY <2>1 DEF InCache, Spaced
  <2>3. q' = q
    BY <2>1
  <2>4. /\ q.kid \in Nat /\ q.since \in Nat /\ q.answer \in Nat /\ q.refused \in Nat
        /\ q.token \in Tokens
    BY <2>1 DEF LaneRecords
  <2> HIDE DEF q
  <2>5. q.kid \notin Keys(q.since) \cap Keys(published) =>
          q.kid \notin Keys(q.since)' \cap Keys(published)'
    BY <1>1, <2>1, <2>3, <2>4 DEF Keys, Validates
  <2>6. Validates(q)'
    BY <1>1, <2>1, <2>3, <2>4, <2>5 DEF Validates, Keys
  <2>7. ~Accepted(q.token) /\ q.token.epoch <= epoch => ~Accepted(q.token)'
    BY <1>1, <2>3, <2>4 DEF Accepted, Tokens
  <2>8. Authorizes(q)'
    BY <1>1, <2>1, <2>3, <2>4, <2>7 DEF Authorizes, Tokens
  <2> QED BY <2>2, <2>6, <2>8 DEF q
<1> QED BY <1>3, <1>4, <1>5, <1>6, <1>7 DEF TkInv

\* Every step of a request, of the API and of time keeps the invariant.
LEMMA TkStep == TkInv /\ [TkNext]_tkVars => TkInv'
<1> SUFFICES ASSUME TkInv, [TkNext]_tkVars PROVE TkInv'
  OBVIOUS
<1>0. /\ clock \in 0..LastTick /\ published \in 1..MaxVersion /\ epoch \in 1..MaxEpoch
      /\ {MaxVersion, MaxEpoch, LastTick} \subseteq Nat
  BY TokenAssumption DEF TkInv, WorldType
<1>1. ASSUME NEW l \in Lanes, Validate(l) PROVE TkInv'
  BY <1>1, ValidateStep, ReadEtagStep, FetchStep, ApplyStep, VerifyStep, LimitStep, RetryStep
     DEF Validate
<1>2. ASSUME NEW l \in Lanes, Authorize(l) PROVE TkInv'
  BY <1>2, ApiCallStep, GetTokenStep, MintStep, MintedStep, SendStep, ForceStep, ResendStep
     DEF Authorize
<1>3. CASE Rotate
  <2>1. published' = published + 1 /\ published < MaxVersion
        /\ UNCHANGED <<clock, epoch, failures, jwks, sa_token, sa_lock, lane>>
    BY <1>3 DEF Rotate
  <2> QED BY <1>0, <2>1, WorldStep
<1>4. CASE Forget
  <2>1. epoch' = epoch + 1 /\ epoch < MaxEpoch
        /\ UNCHANGED <<clock, published, failures, jwks, sa_token, sa_lock, lane>>
    BY <1>4 DEF Forget
  <2> QED BY <1>0, <2>1, WorldStep
<1>5. CASE Elapse
  <2>1. clock' = clock + 1 /\ clock < LastTick
        /\ UNCHANGED <<published, epoch, failures, jwks, sa_token, sa_lock, lane>>
    BY <1>5 DEF Elapse
  <2> QED BY <1>0, <2>1, WorldStep
<1>6. CASE UNCHANGED tkVars
  <2>1. UNCHANGED <<clock, published, epoch, failures, jwks, sa_token, sa_lock, lane>>
    BY <1>6 DEF tkVars
  <2> QED BY <1>0, <2>1, WorldStep
<1> QED BY <1>1, <1>2, <1>3, <1>4, <1>5, <1>6 DEF TkNext

\* The cache is empty, no token is held and no request has begun.
LEMMA TkStart == TkInit => TkInv
<1> SUFFICES ASSUME TkInit PROVE TkInv
  OBVIOUS
<1>1. /\ clock = 0 /\ published = 1 /\ epoch = 1 /\ failures = 0
      /\ jwks = [keys |-> {}, etag |-> 0, fetched_at |-> NoTime, last_forced_refresh |-> NoTime]
      /\ sa_token = NoToken /\ sa_lock = NoLane /\ lane = [l \in Lanes |-> NewLane]
  BY DEF TkInit
<1>2. WorldType
  <2>1. lane \in [Lanes -> LaneRecords]
    BY <1>1, NewLaneFacts
  <2>2. jwks \in [keys : SUBSET (1..MaxVersion), etag : 0..published, fetched_at : Int,
                  last_forced_refresh : Int]
    BY <1>1 DEF NoTime
  <2>3. /\ clock \in 0..LastTick /\ published \in 1..MaxVersion /\ epoch \in 1..MaxEpoch
        /\ failures \in 0..MaxFailures /\ sa_lock \in Lanes \cup {NoLane}
    BY <1>1, TokenAssumption
  <2> QED BY <2>1, <2>2, <2>3 DEF WorldType
<1>3. CacheHolds
  BY <1>1, TokenAssumption DEF CacheHolds, Keys, NoTime
<1>4. TokenTrue
  BY <1>1, NewLaneFacts DEF TokenTrue
<1>5. \A l \in Lanes : lane[l] = NewLane
  BY <1>1
<1>6. Validates(NewLane)
  BY <1>1, NewLaneFacts DEF Validates
<1>7. Authorizes(NewLane)
  BY <1>1, NewLaneFacts DEF Authorizes
<1>8. InCache(NewLane, jwks.etag)
  BY NewLaneFacts DEF InCache
<1>9. LastApplied /\ \A l \in Lanes : Spaced(l)
  BY <1>5, NewLaneFacts DEF LastApplied, Spaced
<1> QED BY <1>2, <1>3, <1>4, <1>5, <1>6, <1>7, <1>8, <1>9 DEF TkInv

\* The invariant holds in every state.
LEMMA TkInductive == TkSpec => []TkInv
BY TkStart, TkStep, PTL DEF TkSpec

\* The counters stay within their bounds, the cache's tag among the versions, and
\* every request at a place of the code.
THEOREM TokenTypes == TkSpec => []TkTypeOK
<1>1. TkInv => TkTypeOK
  <2> SUFFICES ASSUME TkInv PROVE TkTypeOK
    OBVIOUS
  <2>1. /\ clock \in 0..LastTick /\ published \in 1..MaxVersion /\ epoch \in 1..MaxEpoch
        /\ failures \in 0..MaxFailures /\ sa_lock \in Lanes \cup {NoLane}
    BY DEF TkInv, WorldType
  <2>2. jwks.keys \subseteq 1..MaxVersion /\ jwks.etag \in 0..MaxVersion
    <3>1. jwks.keys \in SUBSET (1..MaxVersion) /\ jwks.etag \in 0..published
      BY DEF TkInv, WorldType
    <3> QED BY <2>1, <3>1, TokenAssumption
  <2>3. \A l \in Lanes : lane[l].at \in Places
    BY DEF TkInv, WorldType, LaneRecords
  <2> QED BY <2>1, <2>2, <2>3 DEF TkTypeOK, Places
<1> QED BY <1>1, TkInductive, PTL

\* validate_token: a good token whose key was published all along is refused only for
\* a reason: the forced refresh was not allowed, failed, or was undone by an older answer.
THEOREM GoodTokenRefused == TkSpec => []RefusedForAReason
<1>1. TkInv => RefusedForAReason
  BY DEF TkInv, Validates, RefusedForAReason
<1> QED BY <1>1, TkInductive, PTL

\* can_force_refresh: forced refreshes are a floor apart, counted from the answer of
\* one to the moment the next is allowed.
THEOREM RefreshesSpaced == TkSpec => []ForcedSpaced
<1>1. TkInv => ForcedSpaced
  BY DEF TkInv, Spaced, ForcedSpaced
<1> QED BY <1>1, TkInductive, PTL

\* post_json_with_retry: the API refuses a call twice only for a token that it minted
\* after the first refusal, and that it no longer accepts.
THEOREM CallRefusedTwice == TkSpec => []RefusedTwiceForAReason
<1>1. TkInv => RefusedTwiceForAReason
  <2> SUFFICES ASSUME TkInv, NEW l \in Lanes, lane[l].at = "refused_twice"
               PROVE  lane[l].token.epoch >= lane[l].refused /\ ~Accepted(lane[l].token)
    BY DEF RefusedTwiceForAReason
  <2>1. Authorizes(lane[l]) /\ lane[l].token \in Tokens /\ lane[l].refused \in Nat
    BY DEF TkInv, WorldType, LaneRecords
  <2> QED BY <2>1 DEF Authorizes, Tokens
<1> QED BY <1>1, TkInductive, PTL

\* get_token: the token that is handed out as fresh is one the API holds to be alive,
\* unless the mint itself took longer than the margin.
THEOREM FreshMeansAlive == TkSpec => []HandedOutAlive
<1>1. TkInv => HandedOutAlive
  BY DEF TkInv, Authorizes, HandedOutAlive
<1> QED BY <1>1, TkInductive, PTL
=============================================================================
