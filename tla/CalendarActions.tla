-------------------------- MODULE CalendarActions --------------------------
(***************************************************************************)
(* Durable calendar actions (edits and moves of an event) against a        *)
(* provider that other clients change, beside the calendar sync that       *)
(* replaces the local mirror. One event in one source calendar, one        *)
(* destination calendar.                                                   *)
(*                                                                         *)
(* Source: commands/calendar_actions.rs, db/calendar_actions.rs and        *)
(* db/calendar_sync.rs. Every command holds the account's lifecycle lock   *)
(* (of both accounts, in order, for a move), so one command runs at a time *)
(* and only other clients move between its steps. A read from the provider *)
(* and the local transaction that uses it are one step: what another       *)
(* client does between them it could as well do after. A write to the      *)
(* provider and the checkpoint that records it are two.                    *)
(*                                                                         *)
(* The content of the event is the set of changes made to it. A row        *)
(* revision is only ever compared with the current one, and every write to *)
(* a row replaces it: fresh holds the snapshots whose revision is current. *)
(***************************************************************************)
EXTENDS Naturals, FiniteSets

CONSTANTS
    Ops,          \* operation ids
    Edits,        \* changes other clients make
    Rows,         \* ids a local row of the event can have
    Kinds,        \* what the user plans: edit, auto, move, editmove, occ
    Faults,       \* which of "delete", "hide" and "database" can happen
    SameAccount,  \* source and destination calendar belong to one account
    MaxFailures,  \* bound on failed calls, lost replies and commands cut short
    None

ASSUME ActionAssumption ==
    /\ IsFiniteSet(Ops) /\ Ops \cap {"src", "moved"} = {} /\ None \notin Ops
    /\ Ops \cap Edits = {} /\ "token" \notin Ops /\ Rows # {} /\ None \notin Rows
    /\ Kinds \subseteq {"edit", "auto", "move", "editmove", "occ"}
    /\ Faults \subseteq {"delete", "hide", "database"}
    /\ SameAccount \in BOOLEAN /\ MaxFailures \in Nat

\* What the provider holds in one place, and what the journal holds of an operation.
Resources == [body : SUBSET (Ops \cup Edits), rev : Nat]
Operations ==
    [stage : {"Planned", "Applying", "DestinationVerified", "SourceRemovalPending",
              "Reconciling", "Completed"},
     kind : Kinds, anchor : Rows, members : SUBSET Rows, src : Resources,
     canonical : Resources \cup {None}, after : Resources \cup {None}, native : BOOLEAN]

ASSUME NoneAssumption == None \notin Resources /\ None \notin Operations

VARIABLES
    remote,    \* the provider: the source, the natively moved event, the copy of each operation
    clock,     \* the provider's last revision
    hidden,    \* the source is in a form neither decoder reads: never, now, over
    rows,      \* local rows of the event in the source calendar
    mirror,    \* the set displayed for it, as last read
    token,     \* the snapshot the user's selection refers to
    fresh,     \* the snapshots (operations' and token) whose row revision is current
    ops,       \* the journal
    claim,     \* calendar_action_claims: the operation that owns a row
    cmd,       \* the execute command that holds the lock, None when nobody does
    failures,  \* how many of those there were
    writes,    \* history: content an operation wrote to the provider, counted
    made,      \* history: changes the provider accepted
    gone       \* history: another client deleted the event, or a copy of it

local == <<rows, mirror, token, fresh>>
history == <<writes, made, gone>>
vars == <<remote, clock, hidden, rows, mirror, token, fresh, ops, claim, cmd,
          failures, writes, made, gone>>

Slots == {"src", "moved"} \cup Ops
Set(b, v) == [body |-> b, rev |-> v]

HasDestination(m) == m.kind \in {"move", "editmove", "occ"}
Desired(o, m) == IF m.kind \in {"move", "occ"} THEN m.src.body ELSE m.src.body \cup {o}
\* What is left of a series once the occurrence is excluded from it.
Remaining(o, m) == m.src.body \cup {o}

\* Where the operation's confirmed resource is.
Home(o, m) ==
    IF ~HasDestination(m) THEN "src" ELSE IF m.native THEN "moved" ELSE o

\* fetch_event_set finds the source and can decode it.
Readable == remote["src"] # None /\ hidden # "now"

\* Mutant: the write carries no precondition.
UnchangedUnchecked(m) == remote["src"] # None

\* A conditional write (If-Match, ifInState) on the revision the operation knows.
Unchanged(m) == remote["src"] # None /\ remote["src"].rev = m.src.rev

At(here) == cmd # None /\ cmd.pc = here
Step(m, there) == cmd' = [cmd EXCEPT !.mem = m, !.pc = there]
Save(o, m) == ops' = [ops EXCEPT ![o] = m]
Fail == failures < MaxFailures /\ failures' = failures + 1
\* The command returns: with an error, or a result that is not completed.
Return == cmd' = None
KeepRemote == UNCHANGED <<remote, clock, hidden, writes, made, gone>>

-----------------------------------------------------------------------------
(* Reading and planning.                                                    *)

\* hydrate_source, persist_hydrated_source and save_snapshot: the anchor's row
\* and the mirror take what the provider holds.
ReadEventSet(r) ==
    /\ cmd = None /\ r \in rows /\ Readable
    /\ mirror' = remote["src"]
    /\ token' = [anchor |-> r, members |-> rows, set |-> remote["src"]]
    /\ fresh' = {"token"}
    /\ UNCHANGED <<rows, ops, claim, cmd, failures>> /\ KeepRemote

\* list_occurrences: a snapshot of what is displayed, without asking the provider.
ListOccurrences(r) ==
    /\ cmd = None /\ r \in rows /\ mirror # None
    /\ token' = [anchor |-> r, members |-> rows, set |-> mirror]
    /\ fresh' = fresh \cup {"token"}
    /\ UNCHANGED <<rows, mirror, ops, claim, cmd, failures>> /\ KeepRemote

NewOperation(k, r, members, set) ==
    [stage |-> "Planned", kind |-> k, anchor |-> r, members |-> members, src |-> set,
     canonical |-> None, after |-> None, native |-> FALSE]

\* plan_with_backends and persist_plan: the snapshot must still be current
\* (load_snapshot, insert_operation); nothing is claimed.
Plan(o, k) ==
    /\ cmd = None /\ ops[o] = None /\ k # "auto"
    /\ token # None /\ "token" \in fresh
    /\ ops' = [ops EXCEPT ![o] = NewOperation(k, token.anchor, token.members, token.set)]
    /\ fresh' = fresh \cup {o}
    /\ UNCHANGED <<rows, mirror, token, claim, cmd, failures>> /\ KeepRemote

\* Mutant: a claim replaces the claim of another operation.
ClaimableByAnyone(o, m) == TRUE

\* claim_operation fails if another unfinished operation owns a member.
Claimable(o, m) == \A r \in m.members : claim[r] \in {None, o}
Claimed(o, m) == [r \in Rows |-> IF r \in m.members THEN o ELSE claim[r]]

\* plan_occurrence_with_backends: read, compare with what the user saw, persist,
\* plan and claim in one transaction.
PlanOccurrence(o, r) ==
    LET m == NewOperation("auto", r, rows, remote["src"]) IN
    /\ cmd = None /\ ops[o] = None /\ r \in rows /\ "auto" \in Kinds
    /\ Readable /\ mirror # None /\ mirror.body = remote["src"].body
    /\ Claimable(o, m)
    /\ ops' = [ops EXCEPT ![o] = m]
    /\ claim' = Claimed(o, m)
    /\ mirror' = remote["src"]
    /\ fresh' = {o}
    /\ UNCHANGED <<rows, token, cmd, failures>> /\ KeepRemote

\* discard_planned_operation.
Discard(o) ==
    /\ cmd = None /\ ops[o] # None
    /\ ops[o].stage = "Planned" /\ ops[o].kind # "auto"
    /\ \A r \in Rows : claim[r] # o
    /\ ops' = [ops EXCEPT ![o] = None]
    /\ fresh' = fresh \ {o}
    /\ UNCHANGED <<rows, mirror, token, claim, cmd, failures>> /\ KeepRemote

-----------------------------------------------------------------------------
(* replace_calendar: a complete inventory replaces the mirror. A row keeps   *)
(* its id as long as it has the resource's address, an absent or undecodable *)
(* resource loses its rows, and claims are not consulted.                    *)

SyncPresent ==
    /\ Readable
    /\ \E r \in IF rows # {} THEN rows
               ELSE {r \in Rows : claim[r] = None /\ \A o \in Ops : ops[o] # None => ops[o].anchor # r} :
          rows' = {r}
    /\ mirror' = remote["src"]

SyncAbsent == ~Readable /\ rows' = {} /\ mirror' = None

Sync ==
    /\ cmd = None
    /\ SyncPresent \/ SyncAbsent
    /\ fresh' = {}
    /\ UNCHANGED <<token, ops, claim, cmd, failures>> /\ KeepRemote

-----------------------------------------------------------------------------
(* execute_with_backends, one step per provider call or transaction. A step  *)
(* whose condition does not hold is passed over.                             *)

Underway(m) == m.stage # "Planned"

\* Where the command goes: restore an evicted row, check the result confirmed
\* earlier, read the source again, or straight to the first transaction.
Prelude(m) ==
    IF Underway(m) /\ ~HasDestination(m) /\ m.anchor \notin rows THEN "evicted"
    ELSE IF Underway(m) /\ m.canonical # None THEN "recheck"
    ELSE IF Underway(m) /\ ~HasDestination(m) THEN "refresh" ELSE "admit"

\* And once there is a result: on to the removal of the source, or the commit.
Finish(m) == IF HasDestination(m) /\ ~m.native THEN "remove" ELSE "commit"

\* load_operation, confirmations given. A completed operation only returns.
Execute(o) ==
    /\ cmd = None /\ ops[o] # None /\ ops[o].stage # "Completed"
    /\ cmd' = [op |-> o, pc |-> Prelude(ops[o]), mem |-> ops[o],
               planned |-> ops[o].stage = "Planned"]
    /\ UNCHANGED <<local, ops, claim, failures>> /\ KeepRemote

\* refresh_evicted_source: a row the sync removed is restored only from what the
\* provider holds now, if that is the source or the intended result.
RefreshEvicted(o, m) ==
    /\ At("evicted")
    /\ IF Readable /\ remote["src"].body \in {m.src.body, Desired(o, m)}
       THEN /\ rows' = rows \cup {m.anchor}
            /\ mirror' = remote["src"]
            /\ fresh' = {}
            /\ Step(m, IF m.canonical # None THEN "recheck" ELSE "refresh")
            /\ UNCHANGED token
       ELSE Return /\ UNCHANGED local
    /\ UNCHANGED <<ops, claim, failures>> /\ KeepRemote

\* A result confirmed earlier must still be what the provider holds.
RecheckCanonical(o, m) ==
    LET current == remote[Home(o, m)] IN
    /\ At("recheck")
    /\ IF /\ current # None /\ (Home(o, m) = "src" => Readable)
          /\ current.body = m.canonical.body
       THEN Step([m EXCEPT !.canonical = current], "admit")
       ELSE Return
    /\ UNCHANGED <<local, ops, claim, failures>> /\ KeepRemote

\* refresh_source_snapshot, before an update of unknown outcome is resumed.
RefreshSource(o, m) ==
    /\ At("refresh")
    /\ IF Readable
       THEN /\ mirror' = remote["src"] /\ fresh' = {} /\ Step(m, "admit")
            /\ UNCHANGED <<rows, token>>
       ELSE Return /\ UNCHANGED local
    /\ UNCHANGED <<ops, claim, failures>> /\ KeepRemote

\* ensure_operation_current, with the exception for a source whose removal was
\* acknowledged and whose row is gone.
Current(o, m) ==
    \/ o \in fresh
    \/ /\ m.stage # "Planned" /\ HasDestination(m) /\ m.after # None /\ m.kind # "occ"
       /\ m.anchor \notin rows

\* recovery_snapshot: the displayed set stands in for the snapshot of a claimed
\* operation that has no destination, when the operation owns every row of it.
Recoverable(o, m) ==
    /\ m.stage # "Planned" /\ ~HasDestination(m) /\ mirror # None
    /\ m.anchor \in rows /\ rows \subseteq m.members /\ \A r \in rows : claim[r] = o

\* ensure_operation_current_or_recover_projected.
Currency(o, m) ==
    IF Current(o, m) THEN "current"
    ELSE IF ~Recoverable(o, m) THEN "stale"
    ELSE IF mirror.body = Desired(o, m) THEN "recovered"
    ELSE IF mirror.body = m.src.body THEN "rebased" ELSE "stale"

\* The operation as that leaves it.
Rebased(o, m) ==
    CASE Currency(o, m) = "rebased" -> [m EXCEPT !.members = rows, !.src = mirror]
      [] Currency(o, m) = "recovered" -> [m EXCEPT !.members = rows, !.canonical = mirror]
      [] OTHER -> m

\* The first transaction: currency, and the claim of an operation under way.
Admit(o, m) ==
    LET n == Rebased(o, m) IN
    /\ At("admit")
    /\ IF Currency(o, m) # "stale" /\ (m.stage # "Planned" => Claimable(o, n))
       THEN /\ claim' = IF m.stage # "Planned" THEN Claimed(o, n) ELSE claim
            /\ IF Currency(o, m) = "current"
               THEN UNCHANGED <<ops, fresh>>
               ELSE Save(o, n) /\ fresh' = fresh \cup {o}
            /\ Step(n, IF n.canonical # None THEN Finish(n)
                       ELSE IF n.native THEN "probe"
                       ELSE IF cmd.planned /\ n.kind = "auto" THEN "claim" ELSE "verify")
       ELSE Return /\ UNCHANGED <<ops, fresh, claim>>
    /\ UNCHANGED <<rows, mirror, token, failures>> /\ KeepRemote

\* A native move of unknown outcome is looked for at the destination; while it is
\* not found there, or cannot be read, the operation waits for reconciliation.
ProbeNativeMove(o, m) ==
    LET n == [m EXCEPT !.canonical = remote["moved"]]
        w == [m EXCEPT !.stage = "Reconciling"] IN
    /\ At("probe")
    /\ \/ /\ remote["moved"] # None /\ remote["moved"].body = Desired(o, m)
          /\ Save(o, n) /\ Step(n, "commit")
       \/ Save(o, w) /\ Return
    /\ UNCHANGED <<local, claim, failures>> /\ KeepRemote

\* The source must be exactly what was planned on, unless the edit is found done.
VerifySource(o, m) ==
    /\ At("verify")
    /\ IF ~Readable THEN Return
       ELSE IF ~HasDestination(m) /\ ~cmd.planned /\ remote["src"].body = Desired(o, m)
       THEN Step([m EXCEPT !.canonical = remote["src"]], "commit")
       ELSE IF Unchanged(m) THEN Step(m, "claim") ELSE Return
    /\ UNCHANGED <<local, ops, claim, failures>> /\ KeepRemote

NativeEligible(m) == m.kind = "move" /\ SameAccount /\ cmd.planned

\* Mutant: an operation that was planned is not claimed before it is applied.
ClaimSourceLater(o, m) ==
    LET a == [m EXCEPT !.stage = "Applying"]
        n == Rebased(o, a) IN
    /\ At("claim")
    /\ IF Currency(o, a) # "stale" /\ Claimable(o, n)
       THEN /\ fresh' = fresh \cup {o}
            /\ Save(o, n)
            /\ Step(n, IF n.canonical # None THEN "commit"
                       ELSE IF ~HasDestination(n) THEN "update"
                       ELSE IF NativeEligible(n) THEN "mark" ELSE "create")
       ELSE Return /\ UNCHANGED <<ops, fresh>>
    /\ UNCHANGED <<rows, mirror, token, claim, failures>> /\ KeepRemote

\* Applying, and the claim, are durable before the provider is changed.
ClaimSource(o, m) ==
    LET a == [m EXCEPT !.stage = "Applying"]
        n == Rebased(o, a) IN
    /\ At("claim")
    /\ IF Currency(o, a) # "stale" /\ Claimable(o, n)
       THEN /\ claim' = Claimed(o, n)
            /\ fresh' = fresh \cup {o}
            /\ Save(o, n)
            /\ Step(n, IF n.canonical # None THEN "commit"
                       ELSE IF ~HasDestination(n) THEN "update"
                       ELSE IF NativeEligible(n) THEN "mark" ELSE "create")
       ELSE Return /\ UNCHANGED <<ops, fresh, claim>>
    /\ UNCHANGED <<rows, mirror, token, failures>> /\ KeepRemote

\* An operation writes content to the provider, in slot s.
Write(o, s, b) ==
    /\ remote' = [remote EXCEPT ![s] = Set(b, clock + 1)]
    /\ clock' = clock + 1
    /\ writes' = [writes EXCEPT ![o] = @ + 1]
    /\ made' = made \cup (b \cap {o})
    /\ UNCHANGED <<hidden, gone>>

\* The checkpoint that identifies a possibly committed native move on restart.
MarkNativeMove(o, m) ==
    LET n == [m EXCEPT !.native = TRUE] IN
    /\ At("mark") /\ Save(o, n) /\ Step(n, "move")
    /\ UNCHANGED <<local, claim, failures>> /\ KeepRemote

\* move_event_set_native: done, not supported here, or refused.
MoveNative(o, m) ==
    LET n == [m EXCEPT !.native = FALSE] IN
    /\ At("move")
    /\ \/ /\ Unchanged(m)
          /\ remote' = [remote EXCEPT !["src"] = None, !["moved"] = Set(m.src.body, clock + 1)]
          /\ clock' = clock + 1
          /\ writes' = [writes EXCEPT ![o] = @ + 1]
          /\ Step([m EXCEPT !.canonical = Set(m.src.body, clock + 1)], "verified")
          /\ UNCHANGED <<ops, hidden, made, gone>>
       \/ Save(o, n) /\ Step(n, "create") /\ KeepRemote
       \/ ~Unchanged(m) /\ Return /\ UNCHANGED ops /\ KeepRemote
    /\ UNCHANGED <<local, claim, failures>>

\* Mutant: a retry creates blindly.
CreateCopyBlind(o, m) ==
    /\ At("create")
    /\ Write(o, o, Desired(o, m))
    /\ Step([m EXCEPT !.canonical = Set(Desired(o, m), clock + 1)], "verified")
    /\ UNCHANGED <<local, ops, claim, failures>>

\* create_event_set: the operation's id finds a copy made by an earlier attempt.
CreateCopy(o, m) ==
    /\ At("create")
    /\ IF remote[o] = None
       THEN /\ Write(o, o, Desired(o, m))
            /\ Step([m EXCEPT !.canonical = Set(Desired(o, m), clock + 1)], "verified")
       ELSE /\ IF remote[o].body = Desired(o, m)
               THEN Step([m EXCEPT !.canonical = remote[o]], "verified") ELSE Return
            /\ KeepRemote
    /\ UNCHANGED <<local, ops, claim, failures>>

CheckpointVerified(o, m) ==
    LET n == [m EXCEPT !.stage = "DestinationVerified"] IN
    /\ At("verified") /\ Save(o, n) /\ Step(n, Finish(n))
    /\ UNCHANGED <<local, claim, failures>> /\ KeepRemote

\* update_event_set: applied and confirmed, applied with the reply lost, or not applied.
UpdateSource(o, m) ==
    /\ At("update")
    /\ \/ /\ Unchanged(m) /\ Write(o, "src", Desired(o, m))
          /\ \/ /\ Step([m EXCEPT !.canonical = Set(Desired(o, m), clock + 1)], "updated")
                /\ UNCHANGED failures
             \/ Step(m, "reconcile") /\ Fail
       \/ Unchanged(m) /\ Step(m, "reconcile") /\ Fail /\ KeepRemote
       \/ ~Unchanged(m) /\ Step(m, "reconcile") /\ UNCHANGED failures /\ KeepRemote
    /\ UNCHANGED <<local, ops, claim>>

\* update_or_reconcile after an error: a read decides whether it took effect.
ReconcileUpdate(o, m) ==
    /\ At("reconcile")
    /\ IF Readable /\ remote["src"].body = Desired(o, m)
       THEN Step([m EXCEPT !.canonical = remote["src"]], "updated") ELSE Return
    /\ UNCHANGED <<local, ops, claim, failures>> /\ KeepRemote

CheckpointUpdated(o, m) ==
    /\ At("updated") /\ Save(o, m) /\ Step(m, "commit")
    /\ UNCHANGED <<local, claim, failures>> /\ KeepRemote

\* The copy must still be exactly the one verified before the source is removed.
PrepareRemoval(o, m) ==
    LET n == [m EXCEPT !.stage = "SourceRemovalPending"] IN
    /\ At("remove")
    /\ IF remote[o] # m.canonical THEN Return /\ UNCHANGED ops
       ELSE Save(o, n) /\ Step(n, IF m.after # None THEN "commit" ELSE "source")
    /\ UNCHANGED <<local, claim, failures>> /\ KeepRemote

\* The occurrence is excluded from the series, unless that is found done.
ExcludeOccurrence(o, m) ==
    /\ At("source") /\ m.kind = "occ"
    /\ \/ /\ Readable /\ remote["src"].body = Remaining(o, m)
          /\ Step([m EXCEPT !.after = remote["src"]], "removed") /\ KeepRemote
       \/ /\ Readable /\ remote["src"].body # Remaining(o, m) /\ Unchanged(m)
          /\ remote' = [remote EXCEPT !["src"] = Set(Remaining(o, m), clock + 1)]
          /\ clock' = clock + 1 /\ made' = made \cup {o}
          /\ Step([m EXCEPT !.after = Set(Remaining(o, m), clock + 1)], "removed")
          /\ UNCHANGED <<hidden, writes, gone>>
       \/ /\ ~(Readable /\ (remote["src"].body = Remaining(o, m) \/ Unchanged(m)))
          /\ Return /\ KeepRemote
    /\ UNCHANGED <<local, ops, claim, failures>>

\* delete_event_set: conditional, and an absent source is an error.
DeleteSource(o, m) ==
    /\ At("source") /\ m.kind # "occ"
    /\ IF Unchanged(m)
       THEN /\ remote' = [remote EXCEPT !["src"] = None]
            /\ Step([m EXCEPT !.after = m.src], "removed")
            /\ UNCHANGED <<clock, hidden, history>>
       ELSE Return /\ KeepRemote
    /\ UNCHANGED <<local, ops, claim, failures>>

CheckpointRemoved(o, m) ==
    /\ At("removed") /\ Save(o, m) /\ Step(m, "commit")
    /\ UNCHANGED <<local, claim, failures>> /\ KeepRemote

\* commit_operation: one transaction publishes the result, retires or rewrites the
\* source's rows, completes the operation and releases its claims. When it fails
\* the operation is left for local reconciliation.
Commit(o, m) ==
    LET n == Rebased(o, m)
        done == [n EXCEPT !.stage = "Completed"] IN
    /\ At("commit")
    /\ \/ /\ Currency(o, m) # "stale" /\ m.canonical.body = Desired(o, m)
          /\ IF HasDestination(m) /\ m.kind # "occ"
             THEN IF m.anchor \in rows THEN rows' = {} /\ mirror' = None ELSE UNCHANGED <<rows, mirror>>
             ELSE /\ mirror' = IF m.kind = "occ" THEN m.after ELSE m.canonical
                  /\ UNCHANGED rows
          /\ fresh' = {}
          /\ Save(o, done)
          /\ claim' = [r \in Rows |-> IF claim[r] = o THEN None ELSE claim[r]]
          /\ UNCHANGED token
          /\ UNCHANGED failures
       \/ /\ \/ "database" \in Faults /\ Fail
             \/ /\ Currency(o, m) = "stale" \/ m.canonical.body # Desired(o, m)
                /\ UNCHANGED failures
          /\ Save(o, [m EXCEPT !.stage = "Reconciling"])
          /\ UNCHANGED <<local, claim>>
    /\ Return /\ KeepRemote

Running(o, m) ==
    \/ RefreshEvicted(o, m) \/ RecheckCanonical(o, m) \/ RefreshSource(o, m) \/ Admit(o, m)
    \/ ProbeNativeMove(o, m) \/ VerifySource(o, m) \/ ClaimSource(o, m)
    \/ MarkNativeMove(o, m) \/ MoveNative(o, m) \/ CreateCopy(o, m) \/ CheckpointVerified(o, m)
    \/ UpdateSource(o, m) \/ ReconcileUpdate(o, m) \/ CheckpointUpdated(o, m)
    \/ PrepareRemoval(o, m) \/ ExcludeOccurrence(o, m) \/ DeleteSource(o, m)
    \/ CheckpointRemoved(o, m) \/ Commit(o, m)

\* The command is cut short: a provider call fails, the caller goes away or the
\* application stops. What was checkpointed stays.
Abort ==
    /\ cmd # None /\ Fail
    /\ Return
    /\ UNCHANGED <<local, ops, claim>> /\ KeepRemote

-----------------------------------------------------------------------------
(* Other clients.                                                           *)

ExternalEdit(x, s) ==
    /\ x \notin made /\ remote[s] # None
    /\ remote' = [remote EXCEPT ![s] = Set(@.body \cup {x}, clock + 1)]
    /\ clock' = clock + 1 /\ made' = made \cup {x}
    /\ UNCHANGED <<hidden, local, ops, claim, cmd, failures, writes, gone>>

ExternalDelete(s) ==
    /\ "delete" \in Faults /\ remote[s] # None /\ ~gone
    /\ remote' = [remote EXCEPT ![s] = None] /\ gone' = TRUE
    /\ UNCHANGED <<clock, hidden, local, ops, claim, cmd, failures, writes, made>>

\* The source is rewritten in a form the decoders do not read, and back.
ExternalRewrite ==
    /\ "hide" \in Faults /\ hidden # "over" /\ remote["src"] # None
    /\ hidden' = IF hidden = "never" THEN "now" ELSE "over"
    /\ remote' = [remote EXCEPT !["src"].rev = clock + 1]
    /\ clock' = clock + 1
    /\ UNCHANGED <<local, ops, claim, cmd, failures, history>>

-----------------------------------------------------------------------------
Init ==
    /\ remote = [s \in Slots |-> IF s = "src" THEN Set({}, 0) ELSE None]
    /\ clock = 0 /\ hidden = "never"
    /\ \E r \in Rows : rows = {r}
    /\ mirror = Set({}, 0) /\ token = None /\ fresh = {}
    /\ ops = [o \in Ops |-> None] /\ claim = [r \in Rows |-> None]
    /\ cmd = None /\ failures = 0
    /\ writes = [o \in Ops |-> 0] /\ made = {} /\ gone = FALSE

User ==
    \/ \E r \in Rows : ReadEventSet(r) \/ ListOccurrences(r)
    \/ \E o \in Ops : \/ \E k \in Kinds : Plan(o, k)
                      \/ \E r \in Rows : PlanOccurrence(o, r)
                      \/ Discard(o) \/ Execute(o)
Others ==
    \/ \E s \in Slots : ExternalDelete(s) \/ \E x \in Edits : ExternalEdit(x, s)
    \/ ExternalRewrite
Command == cmd # None /\ Running(cmd.op, cmd.mem)

Next == User \/ Sync \/ Command \/ Abort \/ Others

Spec == Init /\ [][Next]_vars

-----------------------------------------------------------------------------
\* Nothing is lost: unless another client deletes the event or a copy of it, the
\* event exists, and every change the provider accepted from anyone is in a copy
\* that still exists. An action planned on old content, resumed after a crash or
\* a lost reply, neither overwrites nor deletes what it has not seen.
NothingLost ==
    gone \/ LET bodies == {remote[s].body : s \in {t \in Slots : remote[t] # None}} IN
            bodies # {} /\ made \subseteq UNION bodies

\* An operation writes its content to the provider at most once, however often it
\* is resumed and whatever replies are lost.
WrittenOnce == gone \/ \A o \in Ops : writes[o] <= 1

\* A move leaves the event in one place: a completed one has removed its source,
\* and no second operation copies what the first is moving. The claim is on the
\* local row, so this holds while the row keeps its id; a source that becomes
\* undecodable loses its row, and comes back under another that nobody has claimed.
Movers == {o \in Ops : ops[o] # None /\ ops[o].kind \in {"move", "editmove"}}
OneHome ==
    /\ \A o \in Movers : ops[o].stage = "Completed" => remote["src"] = None
    /\ hidden = "never" => Cardinality({o \in Movers : writes[o] > 0}) <= 1

\* The provider is changed by a command only while its operation holds the claim
\* of the event's row, so no other command can have started from the same plan.
WritesAreClaimed ==
    [][cmd # None /\ cmd' # None /\ remote' # remote /\ cmd' # cmd
         => \A r \in cmd.mem.members : claim[r] = cmd.op]_vars

=============================================================================
