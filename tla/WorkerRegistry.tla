--------------------------- MODULE WorkerRegistry ---------------------------
(***************************************************************************)
(* The registry of operation workers, for one account: callers that get or *)
(* spawn the worker and send it an operation, account mutations that run   *)
(* with the worker stopped, application shutdown, and the worker's own     *)
(* life from its initialization to its supervisor's report.                *)
(*                                                                         *)
(* Source: ops/lifecycle.rs, ops/worker.rs (spawn_supervised, run),        *)
(* state.rs (get_op_sender). The gate is a tokio RwLock: a waiting writer  *)
(* holds up new readers. A section under the handle map's mutex holds no   *)
(* await and is one step.                                                  *)
(***************************************************************************)
EXTENDS Integers, FiniteSets

CONSTANTS
    Callers,    \* concurrent invocations
    Roles,      \* what they do: "send" (get_op_sender, then send), "mutate"
    None,       \* nobody holds the account lock
    Capacity,   \* of the worker's channel (256 in the code)
    Faults      \* which of "panic", "init" and "abort" can happen

ASSUME RegistryAssumption ==
    /\ IsFiniteSet(Callers) /\ None \notin Callers /\ Capacity \in Nat \ {0}
    /\ Roles \subseteq {"send", "mutate"} /\ Faults \subseteq {"panic", "init", "abort"}

\* Generations are only ever compared for equality, so a number is used again
\* once nobody refers to it.
Gens == 1..(Cardinality(Callers) + 2)

VARIABLES
    handle,      \* handles[account]; gen 0 when there is none
    accLock,     \* who holds the account's lifecycle lock
    readers,     \* who holds the shutdown gate for reading
    shut,        \* stop_all: no, flag, gate, join, done
    shutGen,     \* the generation stop_all waits for
    cancelled,   \* per generation: its token
    w,           \* per generation: none, init, loop, exec, ended, reported
    ready,       \* per generation: what the ready channel holds
    closed,      \* per generation: the receiver takes no more
    queue,       \* per generation: operations in the channel
    pc, role,    \* per invocation
    gen,         \* per invocation: the generation it waits for or sends to
    lost         \* history: a worker that had started dropped an accepted operation

workers == <<cancelled, w, ready, closed, queue>>
vars == <<handle, accLock, readers, shut, shutGen, cancelled, w, ready, closed,
          queue, pc, role, gen, lost>>

NoHandle == [gen |-> 0, running |-> FALSE]
ShuttingDown == shut # "no"
Live(g) == w[g] \in {"init", "loop", "exec"}
RxOpen(g) == Live(g) /\ ~closed[g]

InUse(g) ==
    \/ handle.gen = g \/ shutGen = g \/ Live(g) \/ w[g] = "ended"
    \/ \E c \in Callers : gen[c] = g
FreshGen == CHOOSE g \in Gens : ~InUse(g)

At(c, here) == pc[c] = here
Goto(c, there) == pc' = [pc EXCEPT ![c] = there]
Refer(c, g) == gen' = [gen EXCEPT ![c] = g]

\* The guards of the invocation are dropped.
DropGuards(c) ==
    /\ readers' = readers \ {c}
    /\ accLock' = IF accLock = c THEN None ELSE accLock
KeepGuards == UNCHANGED <<readers, accLock>>

\* begin_stop: the token is cancelled and the registry's sender dropped.
begin_stop ==
    /\ handle' = [handle EXCEPT !.running = FALSE]
    /\ cancelled' = [cancelled EXCEPT ![handle.gen] = TRUE]

\* finish_stop, once the supervisor has reported.
Removed(g) == IF handle.gen = g THEN NoHandle ELSE handle

-----------------------------------------------------------------------------
(* get_or_spawn and with_account_stopped.                                   *)

Call(c, r) ==
    /\ At(c, "idle") /\ r \in Roles
    /\ Goto(c, "gate") /\ role' = [role EXCEPT ![c] = r]
    /\ UNCHANGED <<handle, accLock, readers, shut, shutGen, workers, gen, lost>>

\* Mutant: a caller that comes during shutdown is not turned away.
EnterGateUnchecked(c) ==
    /\ At(c, "gate") /\ shut \in {"no", "flag", "done"}
    /\ readers' = readers \cup {c} /\ Goto(c, "lock")
    /\ UNCHANGED <<handle, accLock, shut, shutGen, workers, role, gen, lost>>

\* The gate; only get_or_spawn looks at shutting_down.
EnterGate(c) ==
    /\ At(c, "gate") /\ shut \in {"no", "flag", "done"}
    /\ IF role[c] = "send" /\ ShuttingDown
       THEN Goto(c, "idle") /\ UNCHANGED readers
       ELSE Goto(c, "lock") /\ readers' = readers \cup {c}
    /\ UNCHANGED <<handle, accLock, shut, shutGen, workers, role, gen, lost>>

LockAccount(c) ==
    /\ At(c, "lock") /\ accLock = None
    /\ accLock' = c /\ Goto(c, "look")
    /\ UNCHANGED <<handle, readers, shut, shutGen, workers, role, gen, lost>>

current_is_healthy ==
    handle # NoHandle /\ handle.running /\ RxOpen(handle.gen) /\ w[handle.gen] # "reported"

\* Mutant: an unhealthy worker is replaced without being joined.
LookReplaces(c) ==
    /\ At(c, "look")
    /\ \/ /\ role[c] = "send" /\ current_is_healthy
          /\ Refer(c, handle.gen) /\ Goto(c, "send") /\ DropGuards(c)
          /\ UNCHANGED <<handle, cancelled>>
       \/ /\ handle # NoHandle /\ ~(role[c] = "send" /\ current_is_healthy) /\ KeepGuards
          /\ begin_stop /\ Refer(c, IF role[c] = "send" THEN 0 ELSE handle.gen)
          /\ Goto(c, IF role[c] = "send" THEN "spawn" ELSE "join")
       \/ /\ handle = NoHandle /\ Refer(c, 0) /\ KeepGuards
          /\ Goto(c, IF role[c] = "send" THEN "spawn" ELSE "action")
          /\ UNCHANGED <<handle, cancelled>>
    /\ UNCHANGED <<shut, shutGen, w, ready, closed, queue, role, lost>>

\* A healthy worker's sender is handed out; any other worker is stopped, and
\* before a mutation every worker is.
Look(c) ==
    /\ At(c, "look")
    /\ \/ /\ role[c] = "send" /\ current_is_healthy
          /\ Refer(c, handle.gen) /\ Goto(c, "send") /\ DropGuards(c)
          /\ UNCHANGED <<handle, cancelled>>
       \/ /\ handle # NoHandle /\ ~(role[c] = "send" /\ current_is_healthy)
          /\ begin_stop /\ Refer(c, handle.gen) /\ Goto(c, "join") /\ KeepGuards
       \/ /\ handle = NoHandle /\ Refer(c, 0) /\ KeepGuards
          /\ Goto(c, IF role[c] = "send" THEN "spawn" ELSE "action")
          /\ UNCHANGED <<handle, cancelled>>
    /\ UNCHANGED <<shut, shutGen, w, ready, closed, queue, role, lost>>

\* Mutant: a mutation does not wait for the worker it stopped.
JoinImpatient(c) ==
    /\ At(c, "join") /\ (role[c] = "send" => w[gen[c]] = "reported")
    /\ handle' = Removed(gen[c]) /\ Refer(c, 0) /\ KeepGuards
    /\ Goto(c, IF role[c] = "send" THEN "spawn" ELSE "action")
    /\ UNCHANGED <<shut, shutGen, workers, role, lost>>

\* finish_stop: the supervisor has reported.
Join(c) ==
    /\ At(c, "join") /\ w[gen[c]] = "reported"
    /\ handle' = Removed(gen[c]) /\ Refer(c, 0) /\ KeepGuards
    /\ Goto(c, IF role[c] = "send" THEN "spawn" ELSE "action")
    /\ UNCHANGED <<shut, shutGen, workers, role, lost>>

\* The handle is inserted before the worker is ready; its token is a child of
\* the shutdown token.
Spawn(c) ==
    /\ At(c, "spawn")
    /\ LET g == FreshGen
       IN  /\ handle' = [gen |-> g, running |-> TRUE]
           /\ cancelled' = [cancelled EXCEPT ![g] = ShuttingDown]
           /\ w' = [w EXCEPT ![g] = "init"] /\ ready' = [ready EXCEPT ![g] = "none"]
           /\ closed' = [closed EXCEPT ![g] = FALSE] /\ queue' = [queue EXCEPT ![g] = 0]
           /\ Refer(c, g)
    /\ Goto(c, "ready") /\ KeepGuards
    /\ UNCHANGED <<shut, shutGen, role, lost>>

\* Mutant: a worker that failed to start is waited for again and again.
AwaitReadyAgain(c) ==
    /\ At(c, "ready") /\ ready[gen[c]] # "none"
    /\ IF ready[gen[c]] = "ok" THEN Goto(c, "send") /\ DropGuards(c)
                               ELSE UNCHANGED <<pc, readers, accLock>>
    /\ UNCHANGED <<handle, shut, shutGen, workers, role, gen, lost>>

AwaitReady(c) ==
    /\ At(c, "ready") /\ ready[gen[c]] # "none"
    /\ IF ready[gen[c]] = "ok"
       THEN Goto(c, "send") /\ DropGuards(c) /\ UNCHANGED <<handle, cancelled>>
       ELSE Goto(c, "joinfailed") /\ KeepGuards /\ begin_stop
    /\ UNCHANGED <<shut, shutGen, w, ready, closed, queue, role, gen, lost>>

\* The worker that failed to start is joined before the error is returned.
JoinFailed(c) ==
    /\ At(c, "joinfailed") /\ w[gen[c]] = "reported"
    /\ handle' = Removed(gen[c]) /\ Refer(c, 0) /\ DropGuards(c) /\ Goto(c, "idle")
    /\ UNCHANGED <<shut, shutGen, workers, role, lost>>

\* sender.send: waits while the channel is full; on a closed one it fails, and
\* the command preserves the operation itself.
Send(c) ==
    /\ At(c, "send") /\ (RxOpen(gen[c]) => queue[gen[c]] < Capacity)
    /\ queue' = IF RxOpen(gen[c]) THEN [queue EXCEPT ![gen[c]] = @ + 1] ELSE queue
    /\ Refer(c, 0) /\ Goto(c, "idle")
    /\ UNCHANGED <<handle, accLock, readers, shut, shutGen, cancelled, w, ready, closed,
                   role, lost>>

\* The action runs under both guards.
Action(c) ==
    /\ At(c, "action") /\ DropGuards(c) /\ Goto(c, "idle")
    /\ UNCHANGED <<handle, shut, shutGen, workers, role, gen, lost>>

\* The invocation's future is dropped at an await.
Abort(c) ==
    /\ "abort" \in Faults /\ pc[c] \in {"gate", "lock", "join", "ready", "joinfailed", "send"}
    /\ DropGuards(c) /\ Refer(c, 0) /\ Goto(c, "idle")
    /\ UNCHANGED <<handle, shut, shutGen, workers, role, lost>>

-----------------------------------------------------------------------------
(* stop_all.                                                                *)

\* The flag is set and the shutdown token, parent of every worker's, cancelled.
StopAll ==
    /\ shut = "no" /\ shut' = "flag"
    /\ cancelled' = [g \in Gens |-> TRUE]
    /\ UNCHANGED <<handle, accLock, readers, shutGen, w, ready, closed, queue,
                   pc, role, gen, lost>>

\* shutdown_gate.write() is waited for: from here on no reader gets in.
StopAllRequest ==
    /\ shut = "flag" /\ shut' = "gate"
    /\ UNCHANGED <<handle, accLock, readers, shutGen, workers, pc, role, gen, lost>>

\* With the gate held there is no other lifecycle operation.
StopAllGate ==
    /\ shut = "gate" /\ readers = {}
    /\ IF handle = NoHandle THEN shut' = "done" /\ UNCHANGED <<handle, cancelled, shutGen>>
       ELSE begin_stop /\ shutGen' = handle.gen /\ shut' = "join"
    /\ UNCHANGED <<accLock, readers, w, ready, closed, queue, pc, role, gen, lost>>

StopAllJoin ==
    /\ shut = "join" /\ w[shutGen] = "reported"
    /\ handle' = Removed(shutGen) /\ shutGen' = 0 /\ shut' = "done"
    /\ UNCHANGED <<accLock, readers, workers, pc, role, gen, lost>>

-----------------------------------------------------------------------------
(* ops/worker.rs: run, and the supervisor.                                  *)

WorkerTo(g, there) == w' = [w EXCEPT ![g] = there]
CallersUnchanged == UNCHANGED <<handle, accLock, readers, shut, shutGen, cancelled, pc, role, gen>>

\* The receiver is dropped with whatever it still holds.
Ends(g) ==
    /\ WorkerTo(g, "ended") /\ queue' = [queue EXCEPT ![g] = 0]
    /\ lost' = (lost \/ (w[g] = "loop" /\ queue[g] > 0))

\* Cancellation wins over the result of init_backend.
Initialize(g) ==
    /\ w[g] = "init"
    /\ \/ /\ ~cancelled[g] /\ WorkerTo(g, "loop")
          /\ ready' = [ready EXCEPT ![g] = "ok"] /\ UNCHANGED <<queue, lost>>
       \/ /\ cancelled[g] \/ "init" \in Faults
          /\ Ends(g) /\ ready' = [ready EXCEPT ![g] = "err"]
    /\ UNCHANGED closed /\ CallersUnchanged

\* Mutant: a cancelled worker returns at once.
CloseReceiverDropping(g) ==
    /\ w[g] = "loop" /\ cancelled[g] /\ ~closed[g]
    /\ closed' = [closed EXCEPT ![g] = TRUE] /\ Ends(g)
    /\ UNCHANGED ready /\ CallersUnchanged

\* Mutant: the cancelled branch of the select goes round the loop again.
CloseReceiverSpins(g) ==
    /\ w[g] = "loop" /\ cancelled[g] /\ ~closed[g]
    /\ UNCHANGED <<w, ready, closed, queue, lost>> /\ CallersUnchanged

\* The select is biased: a cancelled worker closes its receiver first.
CloseReceiver(g) ==
    /\ w[g] = "loop" /\ cancelled[g] /\ ~closed[g]
    /\ closed' = [closed EXCEPT ![g] = TRUE]
    /\ UNCHANGED <<w, ready, queue, lost>> /\ CallersUnchanged

\* recv, try_recv until empty: the whole queue becomes the batch.
TakeBatch(g) ==
    /\ w[g] = "loop" /\ (cancelled[g] => closed[g]) /\ queue[g] > 0
    /\ WorkerTo(g, "exec") /\ queue' = [queue EXCEPT ![g] = 0]
    /\ UNCHANGED <<ready, closed, lost>> /\ CallersUnchanged

\* Executed, or failed and preserved: module Outbox.
FinishBatch(g) ==
    /\ w[g] = "exec" /\ WorkerTo(g, "loop")
    /\ UNCHANGED <<ready, closed, queue, lost>> /\ CallersUnchanged

Exit(g) ==
    /\ w[g] = "loop" /\ closed[g] /\ queue[g] = 0 /\ Ends(g)
    /\ UNCHANGED <<ready, closed>> /\ CallersUnchanged

\* A panic drops the batch, the receiver and, before it was used, the ready channel.
Panic(g) ==
    /\ "panic" \in Faults /\ w[g] \in {"init", "exec"}
    /\ WorkerTo(g, "ended") /\ queue' = [queue EXCEPT ![g] = 0]
    /\ ready' = [ready EXCEPT ![g] = IF @ = "none" THEN "err" ELSE @]
    /\ UNCHANGED <<closed, lost>> /\ CallersUnchanged

Report(g) ==
    /\ w[g] = "ended" /\ WorkerTo(g, "reported")
    /\ UNCHANGED <<ready, closed, queue, lost>> /\ CallersUnchanged

-----------------------------------------------------------------------------
Init ==
    /\ handle = NoHandle /\ accLock = None /\ readers = {} /\ shut = "no" /\ shutGen = 0
    /\ cancelled = [g \in Gens |-> FALSE] /\ w = [g \in Gens |-> "none"]
    /\ ready = [g \in Gens |-> "none"] /\ closed = [g \in Gens |-> FALSE]
    /\ queue = [g \in Gens |-> 0]
    /\ pc = [c \in Callers |-> "idle"] /\ role = [c \in Callers |-> "send"]
    /\ gen = [c \in Callers |-> 0] /\ lost = FALSE

Step(c) ==
    \/ EnterGate(c) \/ LockAccount(c) \/ Look(c) \/ Join(c) \/ Spawn(c)
    \/ AwaitReady(c) \/ JoinFailed(c) \/ Send(c) \/ Action(c)
Shutdown == StopAllRequest \/ StopAllGate \/ StopAllJoin
Worker(g) ==
    \/ Initialize(g) \/ CloseReceiver(g) \/ TakeBatch(g) \/ FinishBatch(g) \/ Exit(g) \/ Report(g)

Next ==
    \/ \E c \in Callers : Step(c) \/ Abort(c) \/ \E r \in Roles : Call(c, r)
    \/ StopAll \/ Shutdown
    \/ \E g \in Gens : Worker(g) \/ Panic(g)

Spec == Init /\ [][Next]_vars

\* Tasks are scheduled, operations and account mutations end (their network
\* calls time out), and tokio's locks and channels serve waiters in order.
Fairness ==
    /\ \A c \in Callers : /\ WF_vars(Step(c)) /\ SF_vars(LockAccount(c)) /\ SF_vars(Send(c))
    /\ WF_vars(Shutdown)
    /\ \A g \in Gens : WF_vars(Worker(g))

FairSpec == Spec /\ Fairness

-----------------------------------------------------------------------------
\* "A stopped or failed generation is always joined before a replacement can be
\* installed": an account never has two workers, whatever panics and whoever is
\* aborted while stopping or starting one.
OneWorker == \A g, h \in Gens : Live(g) /\ Live(h) => g = h

\* An account is changed or deleted only while no worker of it runs, and none is
\* started until that is done (with_account_stopped).
StoppedDuringAction == \A c \in Callers : At(c, "action") => \A g \in Gens : ~Live(g)

\* Once stop_all has returned no worker runs or is started, also by a caller
\* that was on its way in when shutdown began.
NoWorkerAfterShutdown == shut = "done" => handle = NoHandle /\ \A g \in Gens : ~Live(g)

\* Unless it panics, a worker that has started executes every operation its
\* channel accepted: stopping, replacing and shutdown drop none.
AcceptedNotLost == ~lost

\* Shutdown completes, whatever callers, mutations and workers are doing.
ShutdownCompletes == shut = "flag" ~> shut = "done"

\* No caller waits for ever: not for a lock, a worker's start or end, or for room
\* in the channel of a worker that is being stopped.
CallersReturn == \A c \in Callers : ~At(c, "idle") ~> At(c, "idle")
=============================================================================
