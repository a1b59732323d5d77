----------------------------- MODULE FlagQueue -----------------------------
(***************************************************************************)
(* Flag changes and deletes of one IMAP account on their way to the        *)
(* server: the command updates the local database and sends an operation   *)
(* to the worker; the worker coalesces what it finds in the channel,       *)
(* rewrites the queued rows the new operation supersedes, executes it, and *)
(* queues it when that fails; a replay request drains the queued rows.     *)
(*                                                                         *)
(* Source: commands/actions.rs, ops/coalesce.rs, ops/worker.rs (run,       *)
(* execute_user_op, replay_offline_ops), ops/offline.rs (superseding) and  *)
(* the flag part of backend/mail/imap.rs. Retry limits, claims and crashes *)
(* are module Outbox's subject; moves and copies are not modelled here.    *)
(***************************************************************************)
EXTENDS FlagMutations

CONSTANTS
    InitFlags,    \* flags present, here and on the server, at the start
    FlagSets,     \* the sets of flags one set_message_flags call may name
    MaxCommands,  \* bound: user commands
    MaxPending,   \* bound: commands between their database write and their send
    MaxFailures   \* bound: failed executions; below MAX_RETRIES, so no row is exhausted

ASSUME QueueAssumption ==
    /\ InitFlags \subseteq Flags /\ FlagSets \subseteq SUBSET Flags /\ MaxFailures < 5
    /\ MaxCommands \in Nat /\ MaxPending \in Nat \ {0}

VARIABLES
    sending,    \* commands past their database write, not yet in the channel
    channel,    \* the worker's mpsc channel
    batch,      \* the coalesced operations still to execute
    replay,     \* a replay was requested in this batch
    pc,         \* the worker: idle, preflight, execute, replay
    rows,       \* pending outbox rows in id order
    server,     \* flags on the server
    expunged,   \* messages deleted on the server
    local,      \* flags in the local database
    deleted,    \* messages the user deleted
    commands,   \* count, for MaxCommands
    failures    \* count, for MaxFailures

vars == <<sending, channel, batch, replay, pc, rows, server, expunged,
          local, deleted, commands, failures>>

SetFlags(mutations) == [op |-> "set_flags", mutations |-> mutations, refs |-> {}]
DeleteMessages(refs) == [op |-> "delete", mutations |-> <<>>, refs |-> refs]
ReplayOffline == [op |-> "replay", mutations |-> <<>>, refs |-> {}]

FlatMap(F(_), s) == FlattenSeq([i \in 1..Len(s) |-> F(s[i])])

-----------------------------------------------------------------------------
(* ops/coalesce.rs                                                          *)

\* Mutant: the direction of two adjacent flag changes is not compared.
MergeableIgnoringAdd(a, b) ==
    /\ a.op = "set_flags" /\ b.op = "set_flags"
    /\ Len(a.mutations) = 1 /\ Len(b.mutations) = 1
    /\ LET p == a.mutations[1]
           q == b.mutations[1]
       IN  p.flags = q.flags /\ ~p.bulk /\ ~q.bulk

Mergeable(a, b) ==
    /\ a.op = "set_flags" /\ b.op = "set_flags"
    /\ Len(a.mutations) = 1 /\ Len(b.mutations) = 1
    /\ LET p == a.mutations[1]
           q == b.mutations[1]
       IN  p.flags = q.flags /\ p.add = q.add /\ ~p.bulk /\ ~q.bulk

\* Mutant: of two adjacent deletes the later one replaces the earlier.
CoalesceIntoLosesDelete(result, entry) ==
    LET last == result[Len(result)]
        Replace(op) == [result EXCEPT ![Len(result)] = op]
    IN  CASE result # <<>> /\ last.op = "delete" /\ entry.op = "delete" -> Replace(entry)
          [] result # <<>> /\ Mergeable(last, entry) ->
                Replace(SetFlags(<<[last.mutations[1] EXCEPT
                                      !.refs = @ \cup entry.mutations[1].refs]>>))
          [] entry.op = "replay" /\ entry \in Range(result) -> result
          [] OTHER -> Append(result, entry)

\* An operation joins the last one of the result or is appended.
CoalesceInto(result, entry) ==
    LET last == result[Len(result)]
        Replace(op) == [result EXCEPT ![Len(result)] = op]
    IN  CASE result # <<>> /\ last.op = "delete" /\ entry.op = "delete" ->
                Replace(DeleteMessages(last.refs \cup entry.refs))
          [] result # <<>> /\ Mergeable(last, entry) ->
                Replace(SetFlags(<<[last.mutations[1] EXCEPT
                                      !.refs = @ \cup entry.mutations[1].refs]>>))
          [] entry.op = "replay" /\ entry \in Range(result) -> result
          [] OTHER -> Append(result, entry)

\* The sort is stable: user operations in channel order, then replay requests.
UserOps(ops) == FlatMap(LAMBDA entry : IF entry.op # "replay" THEN <<entry>> ELSE <<>>, ops)
Replays(ops) == FlatMap(LAMBDA entry : IF entry.op = "replay" THEN <<entry>> ELSE <<>>, ops)
coalesce(ops) == FoldLeft(CoalesceInto, <<>>, UserOps(ops) \o Replays(ops))

-----------------------------------------------------------------------------
(* ops/offline.rs: rewriting the pending rows. A row left with no mutation  *)
(* is deleted, the others keep their place.                                 *)

Superseded(mutations, newer) ==
    FoldLeft(LAMBDA current, n : FlatMap(LAMBDA o : subtract_flag_mutation(o, n), current),
             mutations, newer)

Rewritten(row, op) ==
    CASE row.op # "set_flags" -> <<row>>
      [] row.op = "set_flags" /\ op.op = "set_flags" ->
            LET left == Superseded(row.mutations, op.mutations)
            IN  IF left = <<>> THEN <<>> ELSE <<SetFlags(left)>>
      [] row.op = "set_flags" /\ op.op = "delete" ->
            LET left == FlatMap(LAMBDA m : remove_deleted_refs(m, op.refs), row.mutations)
            IN  IF left = <<>> THEN <<>> ELSE <<SetFlags(left)>>

supersede_pending(table, op) == FlatMap(LAMBDA row : Rewritten(row, op), table)

-----------------------------------------------------------------------------
(* commands/actions.rs                                                      *)

\* The database write comes first, the send to the worker follows.
Command(op, flags, gone) ==
    /\ commands < MaxCommands /\ Len(sending) < MaxPending
    /\ commands' = commands + 1
    /\ sending' = Append(sending, op)
    /\ local' = flags /\ deleted' = gone
    /\ UNCHANGED <<channel, batch, replay, pc, rows, server, expunged, failures>>

\* Messages gone from the local database cannot be named any more.
set_message_flags(refs, flags, add) ==
    /\ refs \cap deleted = {}
    /\ Command(SetFlags(<<Messages(refs, flags, add)>>), Store(local, refs, flags, add), deleted)

\* The target is the list of folders known at that moment.
mark_account_read(folders) ==
    Command(SetFlags(<<AllMessagesInFolders(folders, {}, {"seen"}, TRUE)>>),
            Store(local, RefsIn(folders), {"seen"}, TRUE), deleted)

delete_messages(refs) ==
    /\ refs \cap deleted = {}
    /\ Command(DeleteMessages(refs), local, deleted \cup refs)

\* Commands run concurrently; each sends when its task runs again.
SendOp(i) ==
    /\ i \in 1..Len(sending)
    /\ channel' = Append(channel, sending[i])
    /\ sending' = RemoveAt(sending, i)
    /\ UNCHANGED <<batch, replay, pc, rows, server, expunged, local, deleted, commands, failures>>

\* A successful sync asks for a replay; only worth a step when rows are pending.
RequestReplay ==
    /\ rows # <<>> /\ ReplayOffline \notin Range(channel) /\ pc # "replay"
    /\ channel' = Append(channel, ReplayOffline)
    /\ UNCHANGED <<sending, batch, replay, pc, rows, server, expunged,
                   local, deleted, commands, failures>>

-----------------------------------------------------------------------------
(* ops/worker.rs                                                            *)

\* recv, then try_recv until the channel is empty.
TakeBatch ==
    /\ pc = "idle" /\ channel # <<>>
    /\ LET ops == coalesce(channel)
       IN  batch' = UserOps(ops) /\ replay' = (ReplayOffline \in Range(ops))
    /\ channel' = <<>> /\ pc' = "preflight"
    /\ UNCHANGED <<sending, rows, server, expunged, local, deleted, commands, failures>>

\* Superseding is one transaction. If it fails nothing is executed and the
\* operation is queued behind the rows it would have superseded.
Preflight ==
    /\ pc = "preflight" /\ batch # <<>>
    /\ \/ /\ rows' = supersede_pending(rows, Head(batch))
          /\ pc' = "execute" /\ UNCHANGED <<batch, failures>>
       \/ /\ failures < MaxFailures /\ failures' = failures + 1
          /\ rows' = Append(rows, Head(batch)) /\ batch' = Tail(batch)
          /\ UNCHANGED pc
    /\ UNCHANGED <<sending, channel, replay, server, expunged, local, deleted, commands>>

Succeed(op) ==
    /\ server' = RunMutations(server, op.mutations)
    /\ expunged' = expunged \cup op.refs

\* The mutations before some k were applied, the k-th partly.
FailPartly(op) ==
    \/ /\ op.op = "set_flags" /\ expunged' = expunged
       /\ \E k \in 1..Len(op.mutations) :
            server' \in set_flags_partly(
                           RunMutations(server, SubSeq(op.mutations, 1, k - 1)), op.mutations[k])
    \/ /\ op.op = "delete" /\ server' = server
       /\ \E some \in SUBSET op.refs : expunged' = expunged \cup some

Execute ==
    /\ pc = "execute"
    /\ \/ Succeed(Head(batch)) /\ UNCHANGED <<rows, failures>>
       \/ /\ failures < MaxFailures /\ failures' = failures + 1
          /\ FailPartly(Head(batch))
          /\ rows' = Append(rows, Head(batch))
    /\ batch' = Tail(batch) /\ pc' = "preflight"
    /\ UNCHANGED <<sending, channel, replay, local, deleted, commands>>

EndBatch ==
    /\ pc = "preflight" /\ batch = <<>>
    /\ pc' = (IF replay THEN "replay" ELSE "idle") /\ replay' = FALSE
    /\ UNCHANGED <<sending, channel, batch, rows, server, expunged,
                   local, deleted, commands, failures>>

\* get_pending_ops sorts by replay_order, then by id.
IsFlagRow(row) == row.op = "set_flags"
replay_order_first ==
    LET flagRows == {i \in 1..Len(rows) : IsFlagRow(rows[i])}
    IN  IF flagRows # {} THEN CHOOSE i \in flagRows : \A j \in flagRows : i <= j ELSE 1

\* One entry of replay_offline_ops; the first failure ends the drain.
ReplayRow ==
    /\ pc = "replay" /\ rows # <<>>
    /\ LET i == replay_order_first
       IN  \/ /\ Succeed(rows[i]) /\ rows' = RemoveAt(rows, i)
              /\ UNCHANGED <<pc, failures>>
           \/ /\ failures < MaxFailures /\ failures' = failures + 1
              /\ FailPartly(rows[i]) /\ pc' = "idle" /\ UNCHANGED rows
    /\ UNCHANGED <<sending, channel, batch, replay, local, deleted, commands>>

ReplayDone ==
    /\ pc = "replay" /\ rows = <<>> /\ pc' = "idle"
    /\ UNCHANGED <<sending, channel, batch, replay, rows, server, expunged,
                   local, deleted, commands, failures>>

-----------------------------------------------------------------------------
Init ==
    /\ sending = <<>> /\ channel = <<>> /\ batch = <<>> /\ rows = <<>>
    /\ pc = "idle" /\ replay = FALSE
    /\ server = [f \in Flags |-> IF f \in InitFlags THEN Refs ELSE {}]
    /\ local = server
    /\ expunged = {} /\ deleted = {} /\ commands = 0 /\ failures = 0

Next ==
    \/ \E refs \in SUBSET Refs \ {{}} :
        \/ \E flags \in FlagSets, add \in BOOLEAN : set_message_flags(refs, flags, add)
        \/ delete_messages(refs)
    \/ \E folders \in SUBSET Folders \ {{}} : mark_account_read(folders)
    \/ \E i \in 1..MaxPending : SendOp(i)
    \/ RequestReplay
    \/ TakeBatch \/ Preflight \/ Execute \/ EndBatch \/ ReplayRow \/ ReplayDone

Spec == Init /\ [][Next]_vars

-----------------------------------------------------------------------------
Mutations(ops) == FlatMap(LAMBDA op : op.mutations, ops)

\* Replaying the queued rows and then running what is on its way would give the
\* server exactly the flags the user last chose, on every message not deleted,
\* whatever failed, was partly applied or was superseded in between. This is
\* what rewriting the older rows in supersede_pending_flag_ops is for.
IntentPreserved ==
    LET final == RunMutations(server, Mutations(rows \o batch \o channel \o sending))
    IN  \A f \in Flags : final[f] \ deleted = local[f] \ deleted

\* No deleted message is forgotten: it is expunged, or a queued or travelling
\* delete still names it; and none is expunged that the user did not delete.
DeletesPreserved ==
    /\ expunged \subseteq deleted
    /\ deleted = expunged \cup UNION {op.refs : op \in Range(rows \o batch \o channel \o sending)}

\* Every row in the outbox can be read back by outbox_to_mail_op, also after its
\* folders and exclusions were rewritten: a row that cannot goes dead unexecuted.
RowsReadBack ==
    \A m \in Range(Mutations(rows)) : flag_mutation_from_json_accepts(m)
=============================================================================
