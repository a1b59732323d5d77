--------------------------- MODULE IdleLifecycle ---------------------------
(***************************************************************************)
(* The IMAP IDLE loop of one account: operations that suspend it and start *)
(* it again, start_idle, stop_idle, and the loop's own thread with the     *)
(* socket through which it is woken.                                       *)
(*                                                                         *)
(* Source: commands/sync_cmd.rs, state.rs (IdleControl), mail/idle.rs. A   *)
(* section under the lifecycle lock or under the handle map's mutex holds  *)
(* no await and is one step.                                               *)
(***************************************************************************)
EXTENDS Integers, FiniteSets

CONSTANTS
    Procs,    \* concurrent invocations
    Roles,    \* what they do: "op" (suspend, work, resume), "start", "stop"
    None,     \* nobody holds the account lock
    Faults    \* which of "panic", "credentials" and "timeout" can happen

ASSUME IdleAssumption ==
    /\ IsFiniteSet(Procs) /\ None \notin Procs
    /\ Roles \subseteq {"op", "start", "stop"}
    /\ Faults \subseteq {"panic", "credentials", "timeout"}

\* Generations are only ever compared for equality, so a number is used again
\* once nobody refers to it.
Gens == 1..(Cardinality(Procs) + 1)

VARIABLES
    enabled,   \* idle_push_enabled
    accLock,   \* who holds the account's IDLE lock
    handle,    \* idle_handles[account]; gen 0 when there is none
    thr,       \* per generation, its thread: none, check, connect, io, done, panicked
    stop,      \* per generation, IdleControl.stop_flag
    sock,      \* per generation, IdleControl.socket: none, open, shut
    pc, why,   \* per invocation: where it is, and what it is waiting for
    gen,       \* per invocation: the generation it stops or starts
    stopped    \* history: stop_idle reported success and start_idle came not since

control == <<thr, stop, sock>>
vars == <<enabled, accLock, handle, thr, stop, sock, pc, why, gen, stopped>>

NoHandle == [gen |-> 0, phase |-> "none", thread |-> FALSE]
Live(g) == thr[g] \in {"check", "connect", "io"}
IsFinished(g) == thr[g] \in {"done", "panicked"}

InUse(g) == handle.gen = g \/ Live(g) \/ \E p \in Procs : gen[p] = g
FreshGen == CHOOSE g \in Gens : ~InUse(g)

At(p, here) == pc[p] = here
Goto(p, there) == pc' = [pc EXCEPT ![p] = there]
Unlock(p) == accLock' = IF accLock = p THEN None ELSE accLock

\* The invocation returns: its guard is dropped.
Return(p) == Goto(p, "idle") /\ Unlock(p) /\ gen' = [gen EXCEPT ![p] = 0]

Stopping(h) ==
    IF h.phase \in {"Joining", "StopFailed"} THEN h ELSE [h EXCEPT !.phase = "Stopping"]

-----------------------------------------------------------------------------
(* Suspending for an operation.                                             *)

BeginOp(p) ==
    /\ At(p, "idle") /\ "op" \in Roles /\ Goto(p, "lock")
    /\ why' = [why EXCEPT ![p] = "suspend"]
    /\ UNCHANGED <<enabled, accLock, handle, control, gen, stopped>>

\* Waiting for the account lock, to suspend or to restart after a failed suspend.
Lock(p) ==
    /\ At(p, "lock") /\ accLock = None /\ accLock' = p
    /\ Goto(p, IF why[p] = "suspend" THEN "request" ELSE "reserve")
    /\ UNCHANGED <<enabled, handle, control, why, gen, stopped>>

\* request_imap_idle_stop, under the handle mutex.
RequestStop(p) ==
    /\ At(p, "request")
    /\ IF handle = NoHandle
       THEN Goto(p, "work") /\ UNCHANGED <<handle, gen>>
       ELSE /\ handle' = Stopping(handle) /\ Goto(p, "flag")
            /\ gen' = [gen EXCEPT ![p] = handle.gen]
    /\ UNCHANGED <<enabled, accLock, control, why, stopped>>

\* IdleControl::request_stop: first the flag, then the socket. The control of a
\* generation that is already gone is a dangling reference nobody reads.
StopFlag(p) ==
    /\ At(p, "flag") /\ Goto(p, "shut")
    /\ stop' = [stop EXCEPT ![gen[p]] = thr[gen[p]] # "none" \/ handle.gen = gen[p]]
    /\ UNCHANGED <<enabled, accLock, handle, thr, sock, why, gen, stopped>>

ShutSocket(p) ==
    /\ At(p, "shut") /\ Goto(p, "wait")
    /\ sock' = [sock EXCEPT ![gen[p]] = IF @ = "open" THEN "shut" ELSE @]
    /\ UNCHANGED <<enabled, accLock, handle, thr, stop, why, gen, stopped>>

\* wait_for_imap_idle_stop returns. A failed suspension drops the account guard
\* before it is recovered from.
WaitOk(p) ==
    /\ gen' = [gen EXCEPT ![p] = 0] /\ UNCHANGED why
    /\ CASE why[p] = "suspend" -> Goto(p, "work") /\ UNCHANGED <<accLock, stopped>>
         [] why[p] = "start" -> Goto(p, "reserve") /\ UNCHANGED <<accLock, stopped>>
         [] why[p] = "stop" -> Goto(p, "idle") /\ Unlock(p) /\ stopped' = ~enabled

WaitErr(p) ==
    IF why[p] = "suspend"
    THEN Goto(p, "lock") /\ why' = [why EXCEPT ![p] = "start"] /\ Unlock(p)
         /\ gen' = [gen EXCEPT ![p] = 0] /\ UNCHANGED stopped
    ELSE Return(p) /\ UNCHANGED <<why, stopped>>

\* One poll: the handle is gone, is another's, has failed, or is finished and
\* this waiter takes the thread to join it. Only stop_idle has a deadline.
Poll(p) ==
    /\ At(p, "wait")
    /\ \/ handle = NoHandle /\ WaitOk(p) /\ UNCHANGED handle
       \/ /\ handle # NoHandle /\ (handle.gen # gen[p] \/ handle.phase = "StopFailed")
          /\ WaitErr(p) /\ UNCHANGED handle
       \/ /\ handle.gen = gen[p] /\ handle.phase # "StopFailed"
          /\ handle.thread /\ IsFinished(gen[p])
          /\ handle' = [handle EXCEPT !.phase = "Joining", !.thread = FALSE]
          /\ Goto(p, "join") /\ UNCHANGED <<accLock, why, gen, stopped>>
       \/ /\ handle.gen = gen[p] /\ handle.phase # "StopFailed"
          /\ ~(handle.thread /\ IsFinished(gen[p]))
          /\ why[p] = "stop" /\ "timeout" \in Faults
          /\ WaitErr(p) /\ UNCHANGED handle
    /\ UNCHANGED <<enabled, control>>

\* With the thread its control is dropped; a waiter that still has a reference
\* to it finds nothing to stop.
Join(p) ==
    /\ At(p, "join")
    /\ thr' = [thr EXCEPT ![gen[p]] = "none"] /\ stop' = [stop EXCEPT ![gen[p]] = FALSE]
    /\ sock' = [sock EXCEPT ![gen[p]] = "none"]
    /\ IF thr[gen[p]] = "done"
       THEN handle' = (IF handle.gen = gen[p] THEN NoHandle ELSE handle) /\ WaitOk(p)
       ELSE /\ handle' = (IF handle.gen = gen[p] THEN [handle EXCEPT !.phase = "StopFailed"]
                                                 ELSE handle)
            /\ WaitErr(p)
    /\ UNCHANGED enabled

\* The operation itself, on its own connection; then resume_imap_idle_for_account.
Work(p) ==
    /\ At(p, "work") /\ Goto(p, "reserve")
    /\ why' = [why EXCEPT ![p] = "start"] /\ gen' = [gen EXCEPT ![p] = 0]
    /\ UNCHANGED <<enabled, accLock, handle, control, stopped>>

-----------------------------------------------------------------------------
(* start_imap_idle_inner, with the account lock held.                       *)

NewGeneration(p, g) ==
    /\ handle' = [gen |-> g, phase |-> "Starting", thread |-> FALSE]
    /\ thr' = [thr EXCEPT ![g] = "none"] /\ stop' = [stop EXCEPT ![g] = FALSE]
    /\ sock' = [sock EXCEPT ![g] = "none"]
    /\ gen' = [gen EXCEPT ![p] = g] /\ Goto(p, "spawn")
    /\ UNCHANGED <<accLock, why>>

\* Mutant: a stopping generation does not hold up its replacement.
ReserveOverStopping(p) ==
    /\ At(p, "reserve")
    /\ \/ ~enabled /\ Return(p) /\ UNCHANGED <<handle, control, why>>
       \/ /\ enabled /\ handle.phase \in {"Starting", "Running"}
          /\ Return(p) /\ UNCHANGED <<handle, control, why>>
       \/ /\ enabled /\ handle.phase \notin {"Starting", "Running"}
          /\ NewGeneration(p, FreshGen)
    /\ UNCHANGED <<enabled, stopped>>

\* Mutant: an operation that resumes does not ask whether IDLE is still enabled.
ReserveIgnoresEnabled(p) ==
    /\ At(p, "reserve")
    /\ \/ /\ handle.phase \in {"Stopping", "Joining"}
          /\ Goto(p, "wait") /\ gen' = [gen EXCEPT ![p] = handle.gen]
          /\ UNCHANGED <<accLock, handle, control, why>>
       \/ /\ handle.phase \in {"Starting", "Running"}
          /\ Return(p) /\ UNCHANGED <<handle, control, why>>
       \/ handle.phase \in {"none", "StopFailed"} /\ NewGeneration(p, FreshGen)
    /\ UNCHANGED <<enabled, stopped>>

\* One turn of the loop around reserve_imap_idle_start.
Reserve(p) ==
    /\ At(p, "reserve")
    /\ \/ ~enabled /\ Return(p) /\ UNCHANGED <<handle, control, why>>
       \/ /\ enabled /\ handle.phase \in {"Stopping", "Joining"}
          /\ Goto(p, "wait") /\ gen' = [gen EXCEPT ![p] = handle.gen]
          /\ UNCHANGED <<accLock, handle, control, why>>
       \/ /\ enabled /\ handle.phase \in {"Starting", "Running"}
          /\ handle.thread => ~IsFinished(handle.gen)
          /\ Return(p) /\ UNCHANGED <<handle, control, why>>
       \/ /\ enabled /\ handle.phase = "Running" /\ thr[handle.gen] = "panicked"
          /\ Return(p) /\ handle' = NoHandle /\ UNCHANGED <<control, why>>
       \/ /\ enabled /\ handle.phase \in {"none", "StopFailed"}
          /\ NewGeneration(p, FreshGen)
    /\ UNCHANGED <<enabled, stopped>>

\* The credentials arrive, or do not; the reservation may have been stopped.
Spawn(p) ==
    /\ At(p, "spawn") /\ Return(p)
    /\ \/ /\ "credentials" \in Faults
          /\ handle' = (IF handle.gen = gen[p] THEN NoHandle ELSE handle)
          /\ UNCHANGED thr
       \/ /\ handle.gen = gen[p] /\ handle.phase = "Starting"
          /\ handle' = [handle EXCEPT !.phase = "Running", !.thread = TRUE]
          /\ thr' = [thr EXCEPT ![gen[p]] = "check"]
       \/ /\ ~(handle.gen = gen[p] /\ handle.phase = "Starting")
          /\ handle' = (IF handle.gen = gen[p] /\ handle.phase = "Stopping"
                        THEN NoHandle ELSE handle)
          /\ UNCHANGED thr
    /\ UNCHANGED <<enabled, stop, sock, why, stopped>>

-----------------------------------------------------------------------------
(* The start_idle and stop_idle commands.                                   *)

StartIdle(p) ==
    /\ At(p, "idle") /\ "start" \in Roles /\ Goto(p, "trylock")
    /\ enabled' = TRUE /\ stopped' = FALSE
    /\ why' = [why EXCEPT ![p] = "start"]
    /\ UNCHANGED <<accLock, handle, control, gen>>

\* Mutant: start_idle does not wait for the operation that holds the lock.
TryLockIgnored(p) ==
    /\ At(p, "trylock") /\ Goto(p, "reserve")
    /\ UNCHANGED <<enabled, accLock, handle, control, why, gen, stopped>>

\* An account whose lock is taken is left to the operation that holds it.
TryLock(p) ==
    /\ At(p, "trylock")
    /\ IF accLock = None THEN accLock' = p /\ Goto(p, "reserve")
                         ELSE Goto(p, "idle") /\ UNCHANGED accLock
    /\ UNCHANGED <<enabled, handle, control, why, gen, stopped>>

StopIdle(p) ==
    /\ At(p, "idle") /\ "stop" \in Roles
    /\ enabled' = FALSE
    /\ why' = [why EXCEPT ![p] = "stop"]
    /\ IF handle = NoHandle
       THEN stopped' = TRUE /\ UNCHANGED <<handle, gen, pc>>
       ELSE /\ handle' = Stopping(handle) /\ Goto(p, "flag")
            /\ gen' = [gen EXCEPT ![p] = handle.gen] /\ UNCHANGED stopped
    /\ UNCHANGED <<accLock, control>>

-----------------------------------------------------------------------------
(* mail/idle.rs, run_idle_loop, and the socket handle in IdleControl.       *)

SetThread(g, there) == thr' = [thr EXCEPT ![g] = there]

ThreadCheck(g) ==
    /\ thr[g] = "check" /\ SetThread(g, IF stop[g] THEN "done" ELSE "connect")
    /\ UNCHANGED <<enabled, accLock, handle, stop, sock, pc, why, gen, stopped>>

\* Mutant: register_socket does not look at the stop flag.
ThreadConnectUnchecked(g) ==
    /\ thr[g] = "connect"
    /\ \/ SetThread(g, "check") /\ UNCHANGED sock
       \/ SetThread(g, "io") /\ sock' = [sock EXCEPT ![g] = "open"]
    /\ UNCHANGED <<enabled, accLock, handle, stop, pc, why, gen, stopped>>

\* The connection fails, or register_socket publishes it unless told to stop.
ThreadConnect(g) ==
    /\ thr[g] = "connect"
    /\ \/ SetThread(g, "check") /\ UNCHANGED sock
       \/ SetThread(g, "io") /\ sock' = [sock EXCEPT ![g] = IF stop[g] THEN "shut" ELSE "open"]
    /\ UNCHANGED <<enabled, accLock, handle, stop, pc, why, gen, stopped>>

\* Blocking reads on a socket that was shut down return.
ThreadWoken(g) ==
    /\ thr[g] = "io" /\ sock[g] = "shut"
    /\ SetThread(g, "check") /\ sock' = [sock EXCEPT ![g] = "none"]
    /\ UNCHANGED <<enabled, accLock, handle, stop, pc, why, gen, stopped>>

\* They may also return by themselves: a notification, an error, the 25 minutes.
ThreadReturns(g) ==
    /\ thr[g] = "io" /\ sock[g] = "open"
    /\ SetThread(g, "check") /\ sock' = [sock EXCEPT ![g] = "none"]
    /\ UNCHANGED <<enabled, accLock, handle, stop, pc, why, gen, stopped>>

ThreadPanics(g) ==
    /\ "panic" \in Faults /\ Live(g) /\ SetThread(g, "panicked")
    /\ UNCHANGED <<enabled, accLock, handle, stop, sock, pc, why, gen, stopped>>

-----------------------------------------------------------------------------
Init ==
    /\ enabled = FALSE /\ accLock = None /\ handle = NoHandle /\ stopped = FALSE
    /\ thr = [g \in Gens |-> "none"] /\ stop = [g \in Gens |-> FALSE]
    /\ sock = [g \in Gens |-> "none"]
    /\ pc = [p \in Procs |-> "idle"] /\ why = [p \in Procs |-> "start"]
    /\ gen = [p \in Procs |-> 0]

Step(p) ==
    \/ Lock(p) \/ RequestStop(p) \/ StopFlag(p) \/ ShutSocket(p) \/ Poll(p) \/ Join(p)
    \/ Work(p) \/ Reserve(p) \/ Spawn(p) \/ TryLock(p)
Thread(g) == ThreadCheck(g) \/ ThreadConnect(g) \/ ThreadWoken(g)

Next ==
    \/ \E p \in Procs : BeginOp(p) \/ StartIdle(p) \/ StopIdle(p) \/ Step(p)
    \/ \E g \in Gens : Thread(g) \/ ThreadReturns(g) \/ ThreadPanics(g)

Spec == Init /\ [][Next]_vars

\* Tasks and threads are scheduled, operations end, a connection attempt ends,
\* a read on a shut-down socket returns, and the account lock is first-in
\* first-out. That an idle connection ever hears from the server is not assumed.
Fairness ==
    /\ \A p \in Procs : WF_vars(Step(p)) /\ SF_vars(Lock(p))
    /\ \A g \in Gens : WF_vars(Thread(g))

FairSpec == Spec /\ Fairness

-----------------------------------------------------------------------------
\* The account never has two IDLE connections: a replacement generation starts
\* only after its predecessor's thread has ended, and every live thread is the
\* one the handle describes, so that it can still be stopped.
OneIdleThread ==
    \A g \in Gens : Live(g) => /\ handle.gen = g /\ handle.thread
                               /\ \A h \in Gens : Live(h) => h = g

\* While an operation works on its own connection the IDLE loop is down, whoever
\* starts or stops IDLE meanwhile.
SuspendedWhileWorking ==
    \A p \in Procs : At(p, "work") => \A g \in Gens : ~Live(g)

\* After stop_idle has reported success no IDLE thread runs until start_idle:
\* not the one it stopped, nor one whose start was already under way.
StoppedStaysDown == stopped => \A g \in Gens : ~Live(g)

\* Whoever waits for the loop to stop stops waiting, though the thread may be
\* connecting or blocked in a read when the stop is requested.
StopCompletes == \A p \in Procs : At(p, "wait") ~> ~At(p, "wait")

=============================================================================
