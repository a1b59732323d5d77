------------------------------ MODULE MailSync ------------------------------
(***************************************************************************)
(* The mail-sync guard of one account and the request that is deferred     *)
(* while it is held (commands/sync_cmd.rs): trigger_sync, sync_folder and  *)
(* prefetch_bodies run concurrently, each in the steps between which       *)
(* another task can run.                                                   *)
(*                                                                         *)
(* The folder a request carries only says which folder an account sync     *)
(* looks at first, so a deferred request is a Boolean. A sync may fail:    *)
(* the guard is released and the deferred request taken just the same.     *)
(***************************************************************************)
EXTENDS Integers, FiniteSets

CONSTANTS
    Callers,   \* concurrent command invocations
    Kinds,     \* the commands they may be
    MaxOthers  \* bound: calls of sync_folder and prefetch_bodies, both user actions

ASSUME SyncAssumption ==
    /\ IsFiniteSet(Callers) /\ Callers # {} /\ MaxOthers \in Nat
    /\ Kinds \subseteq {"trigger", "folder", "prefetch"}

VARIABLES
    flag,      \* sync_in_progress[account]
    pending,   \* pending_mail_sync has an entry for the account
    at,        \* per caller: idle, acquire, defer, run, take, reacquire
    kind,      \* per caller: the command, or "deferred" in run_deferred_mail_syncs
    owed,      \* history: a sync was asked for and none has started since
    others     \* count, for MaxOthers

syncVars == <<flag, pending, at, kind, owed, others>>

SyncInit ==
    /\ flag = FALSE /\ pending = FALSE /\ owed = FALSE /\ others = 0
    /\ at = [p \in Callers |-> "idle"]
    /\ kind \in [Callers -> Kinds]

IsAt(p, here) == at[p] = here
GoOn(p, there) == at' = [at EXCEPT ![p] = there]

\* A command arrives; trigger_sync is the one that asks for an account sync.
Call(p, k) ==
    /\ IsAt(p, "idle") /\ GoOn(p, "acquire")
    /\ IF k = "trigger" THEN UNCHANGED others
                        ELSE others < MaxOthers /\ others' = others + 1
    /\ kind' = [kind EXCEPT ![p] = k]
    /\ owed' = (owed \/ k = "trigger")
    /\ UNCHANGED <<flag, pending>>

\* try_acquire_sync_guard: one atomic swap. An account sync that starts now
\* answers every request made so far.
Begin(p) ==
    /\ flag' = TRUE /\ GoOn(p, "run")
    /\ owed' = (owed /\ kind[p] \in {"folder", "prefetch"})

\* The head of the three commands: only trigger_sync defers.
Acquire(p) ==
    /\ IsAt(p, "acquire")
    /\ \/ ~flag /\ Begin(p)
       \/ /\ flag
          /\ GoOn(p, IF kind[p] = "trigger" THEN "defer" ELSE "idle")
          /\ UNCHANGED <<flag, owed>>
    /\ UNCHANGED <<pending, kind, others>>

\* defer_mail_sync, after the swap failed: not atomic with it.
Defer(p) ==
    /\ IsAt(p, "defer") /\ GoOn(p, "idle")
    /\ pending' = TRUE
    /\ UNCHANGED <<flag, kind, owed, others>>

\* Mutant: a folder sync that fails is tried again and again under the guard.
ReleaseRetries(p) ==
    /\ IsAt(p, "run")
    /\ IF kind[p] = "folder" THEN UNCHANGED <<flag, at>> ELSE flag' = FALSE /\ GoOn(p, "take")
    /\ UNCHANGED <<pending, kind, owed, others>>

\* The operation ends and the guard is dropped. sync_folder returns here.
Release(p) ==
    /\ IsAt(p, "run")
    /\ flag' = FALSE
    /\ GoOn(p, IF kind[p] = "folder" THEN "idle" ELSE "take")
    /\ UNCHANGED <<pending, kind, owed, others>>

\* take_deferred_mail_sync, after the guard was dropped: not atomic with it.
Take(p) ==
    /\ IsAt(p, "take")
    /\ pending' = FALSE
    /\ GoOn(p, IF pending THEN "reacquire" ELSE "idle")
    /\ UNCHANGED <<flag, kind, owed, others>>

\* Mutant: the deferred sync runs without the guard.
ReacquireUnguarded(p) ==
    /\ IsAt(p, "reacquire")
    /\ kind' = [kind EXCEPT ![p] = "deferred"]
    /\ flag' = TRUE /\ GoOn(p, "run") /\ owed' = FALSE
    /\ UNCHANGED <<pending, others>>

\* Mutant: a request that was taken is dropped when the guard is not free.
ReacquireDrops(p) ==
    /\ IsAt(p, "reacquire")
    /\ kind' = [kind EXCEPT ![p] = "deferred"]
    /\ IF flag THEN GoOn(p, "idle") /\ UNCHANGED <<flag, owed>>
       ELSE flag' = TRUE /\ GoOn(p, "run") /\ owed' = FALSE
    /\ UNCHANGED <<pending, others>>

\* One turn of run_deferred_mail_syncs: run, or hand the request back.
Reacquire(p) ==
    /\ IsAt(p, "reacquire")
    /\ kind' = [kind EXCEPT ![p] = "deferred"]
    /\ IF flag THEN GoOn(p, "defer") /\ UNCHANGED <<flag, owed>>
       ELSE flag' = TRUE /\ GoOn(p, "run") /\ owed' = FALSE
    /\ UNCHANGED <<pending, others>>

SyncStep(p) == Acquire(p) \/ Defer(p) \/ Release(p) \/ Take(p) \/ Reacquire(p)

SyncNext == \E p \in Callers : SyncStep(p) \/ \E k \in Kinds : Call(p, k)

SyncSpec == SyncInit /\ [][SyncNext]_syncVars

\* Every task is scheduled and every sync ends (its network calls time out);
\* the status bar's interval timer triggers a sync again and again.
SyncFairness ==
    /\ \A p \in Callers : WF_syncVars(SyncStep(p))
    /\ WF_syncVars(\E p \in Callers : Call(p, "trigger"))

FairSyncSpec == SyncSpec /\ SyncFairness

-----------------------------------------------------------------------------
\* Type correctness of the guard, the deferred request and the callers.
SyncTypeOK ==
    /\ flag \in BOOLEAN /\ pending \in BOOLEAN /\ owed \in BOOLEAN
    /\ at \in [Callers -> {"idle", "acquire", "defer", "run", "take", "reacquire"}]
    /\ kind \in [Callers -> Kinds \cup {"deferred"}] /\ others \in 0..MaxOthers

\* At most one sync or prefetch of the account runs at a time, and the flag is
\* set exactly while one does: no holder's drop clears another's flag.
SyncExclusive ==
    /\ \A p, q \in Callers : IsAt(p, "run") /\ IsAt(q, "run") => p = q
    /\ flag <=> \E p \in Callers : IsAt(p, "run")

\* A requested sync is never forgotten: until one starts, the request is
\* recorded as deferred or some task still carries it, even when two tasks pass
\* it between them.
RequestRemembered ==
    owed => \/ pending
            \/ \E p \in Callers :
                \/ IsAt(p, "defer") \/ IsAt(p, "reacquire")
                \/ IsAt(p, "acquire") /\ kind[p] = "trigger"

\* As long as syncs are triggered periodically, and folder syncs and prefetches
\* do not take the guard for ever, every requested sync runs: also one that
\* sync_folder, which never looks for a deferred request, left behind.
RequestServed == owed ~> ~owed
=============================================================================
