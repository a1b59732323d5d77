------------------------------ MODULE Outbox ------------------------------
(***************************************************************************)
(* The durable outbox of one account: the `outbox` table, the first        *)
(* attempt that `send_message` spawns, the account worker's replay loop,   *)
(* the user's retry and discard commands, and a process that may crash     *)
(* and restart.                                                            *)
(*                                                                         *)
(* Source: ops/offline.rs, ops/worker.rs, commands/outbox.rs,              *)
(* commands/compose.rs (the part after the message is built), ops/queue.rs *)
(* and the start-up step in state.rs.                                      *)
(*                                                                         *)
(* One step is the work done between two awaits: a statement under the     *)
(* writer lock, a network call, or a read of a snapshot.                   *)
(***************************************************************************)
EXTENDS Integers, FiniteSets

CONSTANTS
    MaxRows,      \* bound: rows ever inserted; AUTOINCREMENT never reuses an id
    MaxRetries,   \* MAX_RETRIES (5 in the code)
    MaxManual,    \* bound: manual retries of one send
    EffectCap,    \* bound: where the count of remote effects saturates
    Legacy,       \* rows 1..Legacy were left pending by an earlier run
    LocalKinds,   \* the non-send operations the environment issues
    Faults        \* which of "crash" and "db" can happen

ASSUME BoundsAssumption ==
    /\ MaxRows \in Nat /\ MaxRetries \in Nat \ {0} /\ MaxManual \in Nat
    /\ EffectCap \in Nat /\ EffectCap > MaxManual + 1
    /\ Legacy \in 0..MaxRows

ASSUME KindsAssumption == LocalKinds \subseteq {"set_flags", "copy", "move", "delete"}

ASSUME FaultsAssumption == Faults \subseteq {"crash", "db"}

VARIABLES
    rows,       \* durable: the table
    nextId,     \* durable: the id the next INSERT gets
    up,         \* the process runs
    firstPc,    \* the spawned first attempt: none, transport, settle
    firstId,    \* its row
    firstOut,   \* what its transport returned
    wpc,        \* the worker: idle, userop, drain, execute, settle
    todo,       \* the entries of the snapshot not yet looked at
    cur,        \* the entry being executed
    wout,       \* what its execution returned
    userOp,     \* the user operation being executed
    auth,       \* history: attempts a user asked for (compose, manual retry)
    effects,    \* history: times the row's remote effect happened
    credit      \* history: asked for, and no effect since

durable == <<rows, nextId>>
first == <<firstPc, firstId, firstOut>>
worker == <<wpc, todo, cur, wout, userOp>>
history == <<auth, effects, credit>>
vars == <<rows, nextId, up, firstPc, firstId, firstOut,
          wpc, todo, cur, wout, userOp, auth, effects, credit>>

Ids == 1..MaxRows
AllKinds == {"set_flags", "copy", "move", "delete", "send"}
Statuses == {"absent", "pending", "sending", "dead"}
Errors == {"none", "failure", "unknown"}   \* "unknown": one of the two indeterminate messages
Outcomes == {"ok", "definite", "unknown"}
Row == [kind : AllKinds \cup {"none"}, status : Statuses, retry : 0..MaxRetries,
        err : Errors, valid : BOOLEAN]
Entry == [id : Ids, retry : 0..MaxRetries]  \* OutboxEntry; the kind never changes
NoEntry == [id |-> 0, retry |-> 0]

NoRow == [kind |-> "none", status |-> "absent", retry |-> 0, err |-> "none", valid |-> TRUE]
NewRow(kind, status, err) ==
    [kind |-> kind, status |-> status, retry |-> 0, err |-> err, valid |-> TRUE]

IsSend(id) == rows[id].kind = "send"

replay_order(kind) ==
    CASE kind = "set_flags" -> 0 [] kind = "copy" -> 1 [] kind = "move" -> 2
      [] kind = "delete" -> 3 [] kind = "send" -> 4 [] OTHER -> 5

\* Mutant: copies are retried like every other operation.
always_retryable(kind) == TRUE

\* The model's copies are IMAP or Graph copies; JMAP copies behave as moves here.
can_retry_after_execution_failure(kind) == kind # "copy"

\* A statement under the writer lock either commits or returns an error.
DbResult == IF "db" \in Faults THEN BOOLEAN ELSE {TRUE}

-----------------------------------------------------------------------------
(* The statements of ops/offline.rs and commands/outbox.rs, on one row.     *)

\* Mutant: the claim's WHERE clause forgets the status.
claim_ignores_status(r, retry) == r.kind = "send" /\ r.retry = retry

claim_pending_send_matches(r, retry) ==
    r.kind = "send" /\ r.status = "pending" /\ r.retry = retry

retry_sending_send(r) ==
    [r EXCEPT !.retry = @ + 1,
              !.status = IF r.retry + 1 >= MaxRetries THEN "dead" ELSE "pending",
              !.err = "failure"]

complete_sending_send(r) == [r EXCEPT !.status = "absent"]

\* Mutant: an attempt whose outcome is unknown goes back in the queue.
requeue_unknown_send(r) == [r EXCEPT !.status = "pending", !.err = "failure"]

\* Mutant: the quarantined row carries an ordinary error message.
quarantine_without_warning(r) == [r EXCEPT !.status = "dead", !.err = "failure"]

quarantine_sending_send(r) == [r EXCEPT !.status = "dead", !.err = "unknown"]

exhaust_pending_send(r) ==
    [r EXCEPT !.status = "dead", !.err = IF r.err = "none" THEN "failure" ELSE r.err]

mark_dead(r) == [r EXCEPT !.status = "dead"]
mark_dead_with_error(r) == [r EXCEPT !.status = "dead", !.err = "failure"]
mark_completed(r) == [r EXCEPT !.status = "absent"]

\* Mutant: the failure is recorded but not counted.
mark_failed_uncounted(r) == [r EXCEPT !.err = "failure"]

mark_failed(r) == [r EXCEPT !.retry = @ + 1, !.err = "failure"]

\* Mutant: the indeterminate branch looks for a pending row and finds none.
SettledSendMissesUnknown(r, outcome) ==
    CASE outcome = "ok" -> complete_sending_send(r)
      [] outcome = "definite" -> retry_sending_send(r)
      [] outcome = "unknown" -> r

\* What the durable transition after a transport makes of a claimed row.
SettledSend(r, outcome) ==
    CASE outcome = "ok" -> complete_sending_send(r)
      [] outcome = "definite" -> retry_sending_send(r)
      [] outcome = "unknown" -> quarantine_sending_send(r)

\* An UPDATE or DELETE whose WHERE clause finds no row changes nothing.
Present(id) == rows[id].status # "absent"
UpdateIfPresent(id, r) == IF Present(id) THEN [rows EXCEPT ![id] = r] ELSE rows

\* Only pending rows whose every flag mutation is superseded are deleted; which
\* ones those are is the business of module FlagMutations.
PendingFlags == {i \in Ids : rows[i].kind = "set_flags" /\ rows[i].status = "pending"}
Without(table, pruned) ==
    [i \in Ids |-> IF i \in pruned THEN [table[i] EXCEPT !.status = "absent"] ELSE table[i]]

\* The remote effect of an attempt, as the server sees it.
Bump(n) == IF n < EffectCap THEN n + 1 ELSE n
Observe(id, hit) ==
    /\ effects' = IF hit THEN [effects EXCEPT ![id] = Bump(@)] ELSE effects
    /\ credit' = IF hit THEN [credit EXCEPT ![id] = FALSE] ELSE credit
    /\ UNCHANGED auth

Insert(table, kind, status, err, hit) ==
    /\ rows' = [table EXCEPT ![nextId] = NewRow(kind, status, err)]
    /\ nextId' = nextId + 1
    /\ auth' = [auth EXCEPT ![nextId] = 1]
    /\ effects' = [effects EXCEPT ![nextId] = IF hit THEN 1 ELSE 0]
    /\ credit' = [credit EXCEPT ![nextId] = ~hit]

\* A user operation in the worker keeps an id in reserve for its outbox row.
IdFree == nextId + (IF wpc = "userop" THEN 1 ELSE 0) <= MaxRows

-----------------------------------------------------------------------------
(* commands/compose.rs: the row is inserted as sending, then a task sends.  *)

\* Mutant: the row is inserted as pending, for the replay loop to find.
SendMessageUnclaimed ==
    /\ up /\ firstPc = "none" /\ IdFree
    /\ Insert(rows, "send", "pending", "none", FALSE)
    /\ firstPc' = "transport" /\ firstId' = nextId /\ firstOut' = "ok"
    /\ UNCHANGED <<up, worker>>

\* The account guard is held from here to the durable transition, so an
\* account has one first attempt at a time.
SendMessage ==
    /\ up /\ firstPc = "none" /\ IdFree
    /\ Insert(rows, "send", "sending", "none", FALSE)
    /\ firstPc' = "transport" /\ firstId' = nextId /\ firstOut' = "ok"
    /\ UNCHANGED <<up, worker>>

\* Mutant: an ambiguous outcome is tried again on the spot.
FirstTransportRepeats ==
    /\ up /\ firstPc = "transport"
    /\ \E outcome \in Outcomes, hit \in BOOLEAN :
        /\ (outcome = "ok" => hit) /\ (outcome = "definite" => ~hit)
        /\ firstOut' = outcome
        /\ Observe(firstId, hit)
        /\ firstPc' = IF outcome = "unknown" THEN "transport" ELSE "settle"
    /\ UNCHANGED <<durable, up, firstId, worker>>

\* smtp::send_raw or send_email. A definite failure proves non-delivery; an
\* indeterminate one leaves it open.
FirstTransport ==
    /\ up /\ firstPc = "transport"
    /\ \E outcome \in Outcomes, hit \in BOOLEAN :
        /\ (outcome = "ok" => hit) /\ (outcome = "definite" => ~hit)
        /\ firstOut' = outcome
        /\ Observe(firstId, hit)
    /\ firstPc' = "settle"
    /\ UNCHANGED <<durable, up, firstId, worker>>

FirstSettle ==
    /\ up /\ firstPc = "settle"
    /\ \E db \in DbResult :
        rows' = IF db /\ rows[firstId].status = "sending"
                THEN [rows EXCEPT ![firstId] = SettledSend(@, firstOut)] ELSE rows
    /\ firstPc' = "none"
    /\ UNCHANGED <<nextId, up, firstId, firstOut, worker, history>>

-----------------------------------------------------------------------------
(* ops/worker.rs, execute_user_op: a live operation, queued if it fails.    *)

UserOpBegin(kind) ==
    /\ up /\ wpc = "idle" /\ IdFree
    /\ wpc' = "userop" /\ userOp' = kind
    /\ \E db \in DbResult :
        IF kind \in {"set_flags", "delete"}
        THEN /\ \E pruned \in SUBSET PendingFlags :
                rows' = IF db THEN Without(rows, pruned) ELSE rows
             /\ wout' = IF db THEN "ok" ELSE "definite"
        ELSE rows' = rows /\ wout' = "ok"
    /\ UNCHANGED <<nextId, up, first, todo, cur, history>>

\* A preflight error (wout = "definite") skips the execution and is queued too.
UserOpEnd ==
    /\ up /\ wpc = "userop"
    /\ \/ /\ wout = "ok"                              \* the executor succeeded
          /\ UNCHANGED <<durable, history>>
       \/ /\ \E hit \in BOOLEAN, db \in DbResult :    \* it returned an error
              /\ wout = "definite" => ~hit
              /\ IF db
                 THEN Insert(rows, userOp,
                             IF can_retry_after_execution_failure(userOp)
                                THEN "pending" ELSE "dead",
                             IF can_retry_after_execution_failure(userOp)
                                THEN "none" ELSE "failure", hit)
                 ELSE UNCHANGED <<durable, history>>
    /\ wpc' = "idle"
    /\ UNCHANGED <<up, first, todo, cur, wout, userOp>>

\* commands/actions.rs: the worker's channel was closed, so the command itself
\* preserves the operation; a queued delete also prunes the pending flags.
QueueFailed(kind) ==
    /\ up /\ IdFree /\ kind # "set_flags"
    /\ \E pruned \in IF kind = "delete" THEN SUBSET PendingFlags ELSE {{}} :
        Insert(Without(rows, pruned), kind, "pending", "none", FALSE)
    /\ UNCHANGED <<up, first, worker>>

-----------------------------------------------------------------------------
(* ops/worker.rs, replay_offline_ops.                                       *)

\* get_pending_ops: the snapshot, read once, used for the whole drain.
StartReplay ==
    /\ up /\ wpc = "idle"
    /\ \E i \in Ids : rows[i].status = "pending"
    /\ todo' = {[id |-> i, retry |-> rows[i].retry] : i \in {j \in Ids : rows[j].status = "pending"}}
    /\ wpc' = "drain"
    /\ UNCHANGED <<durable, up, first, cur, wout, userOp, history>>

Before(i, j) ==
    \/ replay_order(rows[i].kind) < replay_order(rows[j].kind)
    \/ replay_order(rows[i].kind) = replay_order(rows[j].kind) /\ i < j

NextEntry(e) ==
    /\ up /\ wpc = "drain" /\ e \in todo
    /\ \A f \in todo \ {e} : Before(e.id, f.id)

Continue(e) == wpc' = "drain" /\ todo' = todo \ {e}
Break == wpc' = "idle" /\ todo' = {}

\* Mutant: one retry too many.
is_dead_off_by_one(e) == e.retry > MaxRetries

is_dead(e) == e.retry >= MaxRetries

\* The snapshot's retry count is at the limit.
ReplayExhausted(e) ==
    /\ NextEntry(e) /\ is_dead(e)
    /\ \E db \in DbResult :
        IF IsSend(e.id)
        THEN /\ rows' = IF db /\ rows[e.id].status = "pending"
                              /\ rows[e.id].retry >= MaxRetries
                        THEN [rows EXCEPT ![e.id] = exhaust_pending_send(@)] ELSE rows
             /\ IF db THEN Continue(e) ELSE Break
        ELSE /\ rows' = IF db THEN UpdateIfPresent(e.id, mark_dead(rows[e.id])) ELSE rows
             /\ Continue(e)
    /\ UNCHANGED <<nextId, up, first, cur, wout, userOp, history>>

\* outbox_to_mail_op returned None.
ReplayInvalid(e) ==
    /\ NextEntry(e) /\ ~is_dead(e) /\ ~rows[e.id].valid
    /\ \E db \in DbResult :
        /\ rows' = IF db /\ (IsSend(e.id) => rows[e.id].status = "pending")
                   THEN UpdateIfPresent(e.id, mark_dead_with_error(rows[e.id])) ELSE rows
        /\ IF db THEN Continue(e) ELSE Break
    /\ UNCHANGED <<nextId, up, first, cur, wout, userOp, history>>

ReplayClaim(e) ==
    /\ NextEntry(e) /\ ~is_dead(e) /\ rows[e.id].valid /\ IsSend(e.id)
    /\ \E db \in DbResult :
        IF db /\ claim_pending_send_matches(rows[e.id], e.retry)
        THEN /\ rows' = [rows EXCEPT ![e.id].status = "sending"]
             /\ wpc' = "execute" /\ cur' = e /\ todo' = todo \ {e}
        ELSE /\ IF db THEN Continue(e) ELSE Break
             /\ UNCHANGED <<rows, cur>>
    /\ UNCHANGED <<nextId, up, first, wout, userOp, history>>

\* A non-send entry is executed without a claim.
ReplayBegin(e) ==
    /\ NextEntry(e) /\ ~is_dead(e) /\ rows[e.id].valid /\ ~IsSend(e.id)
    /\ wpc' = "execute" /\ cur' = e /\ todo' = todo \ {e}
    /\ UNCHANGED <<durable, up, first, wout, userOp, history>>

ReplayExecute ==
    /\ up /\ wpc = "execute"
    /\ \E outcome \in Outcomes, hit \in BOOLEAN :
        /\ outcome = "ok" => hit
        /\ IF IsSend(cur.id) THEN outcome = "definite" => ~hit
                             ELSE outcome # "unknown"
        /\ wout' = outcome
        /\ Observe(cur.id, hit)
    /\ wpc' = "settle"
    /\ UNCHANGED <<durable, up, first, todo, cur, userOp>>

\* The result of a send: any lost claim or database error stops the drain.
SettleSend ==
    /\ up /\ wpc = "settle" /\ IsSend(cur.id)
    /\ \E db \in DbResult :
        IF db /\ rows[cur.id].status = "sending"
        THEN rows' = [rows EXCEPT ![cur.id] = SettledSend(@, wout)] /\ Continue(cur)
        ELSE rows' = rows /\ Break
    /\ UNCHANGED <<nextId, up, first, cur, wout, userOp, history>>

\* The result of any other operation; the error of mark_completed and of
\* mark_failed is ignored.
SettleOther ==
    /\ up /\ wpc = "settle" /\ ~IsSend(cur.id)
    /\ \E db \in DbResult :
        LET r == rows[cur.id]
            settled == CASE wout = "ok" -> mark_completed(r)
                         [] can_retry_after_execution_failure(r.kind) -> mark_failed(r)
                         [] OTHER -> mark_dead_with_error(r)
        IN  /\ rows' = IF db THEN UpdateIfPresent(cur.id, settled) ELSE rows
            /\ IF wout = "ok" \/ (db /\ ~can_retry_after_execution_failure(r.kind))
               THEN Continue(cur) ELSE Break
    /\ UNCHANGED <<nextId, up, first, cur, wout, userOp, history>>

DrainDone ==
    /\ up /\ wpc = "drain" /\ todo = {} /\ wpc' = "idle"
    /\ UNCHANGED <<durable, up, first, todo, cur, wout, userOp, history>>

-----------------------------------------------------------------------------
(* commands/outbox.rs: what the user may do to a row.                       *)

RetryDead(id) ==
    /\ up /\ IsSend(id) /\ rows[id].status = "dead" /\ auth[id] <= MaxManual
    /\ rows' = [rows EXCEPT ![id].status = "pending", ![id].retry = 0, ![id].err = "none"]
    /\ auth' = [auth EXCEPT ![id] = @ + 1]
    /\ credit' = [credit EXCEPT ![id] = TRUE]
    /\ UNCHANGED <<nextId, up, first, worker, effects>>

\* Mutant: a row being sent can be discarded.
DiscardAny(id) ==
    /\ up /\ IsSend(id) /\ Present(id)
    /\ rows' = [rows EXCEPT ![id].status = "absent"]
    /\ UNCHANGED <<nextId, up, first, worker, history>>

Discard(id) ==
    /\ up /\ IsSend(id) /\ rows[id].status \in {"pending", "dead"}
    /\ rows' = [rows EXCEPT ![id].status = "absent"]
    /\ UNCHANGED <<nextId, up, first, worker, history>>

-----------------------------------------------------------------------------
(* The process ends anywhere and starts again; state.rs, AppState::new.     *)

Crash ==
    /\ "crash" \in Faults /\ up
    /\ up' = FALSE
    /\ firstPc' = "none" /\ firstId' = 0 /\ firstOut' = "ok"
    /\ wpc' = "idle" /\ todo' = {} /\ cur' = NoEntry /\ wout' = "ok" /\ userOp' = "none"
    /\ UNCHANGED <<durable, history>>

\* quarantine_stuck_sending; its error is only logged.
Restart ==
    /\ ~up /\ up' = TRUE
    /\ \E db \in DbResult :
        rows' = IF db
                THEN [i \in Ids |-> IF IsSend(i) /\ rows[i].status = "sending"
                                    THEN quarantine_sending_send(rows[i]) ELSE rows[i]]
                ELSE rows
    /\ UNCHANGED <<nextId, first, worker, history>>

-----------------------------------------------------------------------------
LegacyRows == [kind : {"send"} \cup LocalKinds, status : {"pending"},
               retry : {0, MaxRetries}, err : {"none"}, valid : BOOLEAN]

Init ==
    /\ \E legacy \in [1..Legacy -> LegacyRows] :
        rows = [i \in Ids |-> IF i \in 1..Legacy THEN legacy[i] ELSE NoRow]
    /\ nextId = Legacy + 1
    /\ up = TRUE
    /\ firstPc = "none" /\ firstId = 0 /\ firstOut = "ok"
    /\ wpc = "idle" /\ todo = {} /\ cur = NoEntry /\ wout = "ok" /\ userOp = "none"
    /\ auth = [i \in Ids |-> IF i <= Legacy THEN 1 ELSE 0]
    /\ effects = [i \in Ids |-> 0]
    /\ credit = [i \in Ids |-> i <= Legacy]

FirstAttempt == FirstTransport \/ FirstSettle

Replay ==
    \/ \E e \in todo : ReplayExhausted(e) \/ ReplayInvalid(e) \/ ReplayClaim(e) \/ ReplayBegin(e)
    \/ ReplayExecute \/ SettleSend \/ SettleOther \/ DrainDone

Next ==
    \/ SendMessage \/ FirstAttempt
    \/ \E kind \in LocalKinds : UserOpBegin(kind) \/ QueueFailed(kind)
    \/ UserOpEnd
    \/ StartReplay \/ Replay
    \/ \E id \in Ids : RetryDead(id) \/ Discard(id)
    \/ Crash \/ Restart

Spec == Init /\ [][Next]_vars

\* Every await of the worker and of the spawned task ends: each network call has
\* a timeout. A drain runs after a successful sync; its request waits in the
\* worker's first-in first-out channel, so user operations cannot overtake it
\* forever (hence strong fairness). That there is one assumes syncs keep succeeding.
Fairness == WF_vars(FirstAttempt) /\ WF_vars(Replay \/ UserOpEnd) /\ SF_vars(StartReplay)

FairSpec == Spec /\ Fairness

-----------------------------------------------------------------------------
(* Properties.                                                              *)

\* Types: among them, no retry count exceeds MAX_RETRIES, since is_dead stops a
\* row at the limit before it is executed again.
TypeOK ==
    /\ rows \in [Ids -> Row] /\ nextId \in 1..(MaxRows + 1) /\ up \in BOOLEAN
    /\ firstPc \in {"none", "transport", "settle"}
    /\ firstId \in Ids \cup {0} /\ firstOut \in Outcomes
    /\ wpc \in {"idle", "userop", "drain", "execute", "settle"}
    /\ todo \in SUBSET Entry /\ cur \in Entry \cup {NoEntry} /\ wout \in Outcomes
    /\ userOp \in LocalKinds \cup {"none"}
    /\ auth \in [Ids -> 0..(MaxManual + 1)] /\ effects \in [Ids -> 0..EffectCap]
    /\ credit \in [Ids -> BOOLEAN]

\* A message is delivered at most once for each time the user asked for it
\* (compose, manual retry), whatever crashes, database errors and ambiguous
\* outcomes happen: the reason for the sending claim and for the quarantine
\* in retry_sending_send, quarantine_sending_send and quarantine_stuck_sending.
AtMostOnceDelivery == \A i \in Ids : IsSend(i) => effects[i] <= auth[i]

\* The replay loop picks up pending rows: a send that may already have been
\* delivered is never left or put back in that state.
PendingSendIsUndelivered ==
    \A i \in Ids : IsSend(i) /\ rows[i].status = "pending" => credit[i]

\* A dead row whose message was in fact delivered carries one of the two
\* messages that make list_outbox report delivery_outcome_unknown, so the user
\* is warned before retrying it by hand.
DeadDeliveredIsFlagged ==
    \A i \in Ids : IsSend(i) /\ rows[i].status = "dead" /\ ~credit[i]
                    => rows[i].err = "unknown"

FirstOwns(i) == firstPc # "none" /\ firstId = i
WorkerOwns(i) == wpc \in {"execute", "settle"} /\ cur.id = i

\* A transport runs only under a claim, and under its own: while the spawned
\* task or the worker sends row i the row is sending, and never both send it.
\* (So the branches for a lost claim are unreachable for a live account.)
ClaimHeld ==
    \A i \in Ids : IsSend(i) /\ (FirstOwns(i) \/ WorkerOwns(i))
                    => rows[i].status = "sending" /\ ~(FirstOwns(i) /\ WorkerOwns(i))

\* While no database write fails, a sending row of a running process has an
\* owner that will settle it: none is stranded where neither the replay loop
\* nor the user's commands can reach it.
NoStrandedSend ==
    "db" \notin Faults =>
        \A i \in Ids : up /\ rows[i].status = "sending" => FirstOwns(i) \/ WorkerOwns(i)

\* A claimed row is changed by its owner's durable transition or by start-up,
\* and by nothing else: not by discard, retry or another drain.
ClaimProtectsRow ==
    [][\A i \in Ids : rows[i].status = "sending" /\ rows'[i] # rows[i]
          => \/ FirstOwns(i) /\ firstPc = "settle"
             \/ WorkerOwns(i) /\ wpc = "settle"
             \/ ~up]_vars

\* An IMAP or Graph copy is not idempotent, so it takes effect once at most.
CopyAtMostOnce == \A i \in Ids : rows[i].kind = "copy" => effects[i] <= 1

\* Every queued operation is eventually done or dead, also a send queued behind
\* operations whose failures stop the drain.
QueuedIsResolved ==
    \A i \in Ids : rows[i].status \in {"pending", "sending"}
                    ~> rows[i].status \in {"absent", "dead"}

-----------------------------------------------------------------------------
(* The inductive invariant behind the safety properties.                    *)

\* Ids beyond nextId are untouched, and every reference to a row is to one
\* already inserted; the spawned task's row is a send.
IdsInv ==
    /\ \A i \in Ids : IF i < nextId THEN rows[i].kind \in AllKinds
                                    ELSE rows[i].kind = "none" /\ rows[i].status = "absent"
    /\ \A e \in todo : e.id < nextId
    /\ firstPc # "none" => firstId \in Ids /\ firstId < nextId /\ IsSend(firstId)
    /\ wpc \in {"execute", "settle"} => cur.id \in Ids /\ cur.id < nextId
    /\ wpc = "userop" => nextId <= MaxRows /\ userOp \in LocalKinds
    /\ ~up => firstPc = "none" /\ wpc = "idle"

\* Before its transport, and after one that definitely failed, the message of
\* a claimed row has not been delivered since the user asked for it.
AttemptInv ==
    /\ firstPc = "transport" \/ (firstPc = "settle" /\ firstOut = "definite") => credit[firstId]
    /\ wpc = "execute" \/ (wpc = "settle" /\ wout = "definite")
          => (IsSend(cur.id) => credit[cur.id])

\* A claimed send has a retry left to count; nobody but the worker touches the
\* retry count of the other operations, so its snapshot of them is exact.
RetryInv ==
    /\ \A i \in Ids : IsSend(i) /\ rows[i].status = "sending" => rows[i].retry < MaxRetries
    /\ \A e \in todo : ~IsSend(e.id) => rows[e.id].retry = e.retry
    /\ wpc \in {"execute", "settle"} /\ ~IsSend(cur.id) => rows[cur.id].retry < MaxRetries
    /\ \A e \in todo : wpc \in {"execute", "settle"} => e.id # cur.id
    /\ \A e, f \in todo : e.id = f.id => e = f

\* An outstanding request is paid for by one delivery at most.
CreditInv ==
    \A i \in Ids : IsSend(i) => effects[i] + (IF credit[i] THEN 1 ELSE 0) <= auth[i]

IInv ==
    /\ TypeOK /\ IdsInv /\ AttemptInv /\ RetryInv /\ CreditInv
    /\ ClaimHeld /\ PendingSendIsUndelivered /\ DeadDeliveredIsFlagged

-----------------------------------------------------------------------------
\* The outbox implements Delivery, row for message; a row of another kind is a
\* message that was closed from the start.
MsgState ==
    [i \in Ids |-> IF i >= nextId THEN "new"
                   ELSE IF IsSend(i) /\ Present(i) THEN "open" ELSE "closed"]
D == INSTANCE Delivery WITH
        Msgs <- Ids, st <- MsgState,
        credit <- [i \in Ids |-> IsSend(i) /\ credit[i]],
        count <- [i \in Ids |-> IF IsSend(i) THEN effects[i] ELSE 0]
ImplementsDelivery == D!Spec
=============================================================================
