--------------------------- MODULE OutboxProofs ---------------------------
EXTENDS Outbox, TLAPS

\* What a durable transition leaves of a claimed send.
LEMMA SettledSendFacts ==
    ASSUME NEW r \in Row, r.retry < MaxRetries, NEW o \in Outcomes
    PROVE  /\ SettledSend(r, o) \in Row
           /\ SettledSend(r, o).kind = r.kind
           /\ SettledSend(r, o).status # "sending"
           /\ o = "ok" => SettledSend(r, o).status = "absent"
           /\ o = "unknown" => SettledSend(r, o).status = "dead" /\ SettledSend(r, o).err = "unknown"
  <1>1. CASE o = "ok"
    BY <1>1 DEF SettledSend, complete_sending_send, Row, Statuses
  <1>2. CASE o = "definite"
    <2>1. r.retry + 1 \in 0..MaxRetries
      BY BoundsAssumption DEF Row
    <2>2. PICK s \in {"dead", "pending"} :
             SettledSend(r, o) = [r EXCEPT !.retry = r.retry + 1, !.status = s, !.err = "failure"]
      BY <1>2 DEF SettledSend, retry_sending_send
    <2>. QED BY <1>2, <2>1, <2>2 DEF Row, Statuses, Errors
  <1>3. CASE o = "unknown"
    BY <1>3 DEF SettledSend, quarantine_sending_send, Row, Statuses, Errors
  <1>. QED BY <1>1, <1>2, <1>3 DEF Outcomes

\* A step that changes no row, starts no attempt and forgets nothing.
LEMMA NoRowChanges ==
    ASSUME IInv, rows' = rows, nextId' = nextId, up' = up, UNCHANGED history,
           firstPc' \in {firstPc, "none"}, firstId' = firstId, firstOut' = firstOut,
           wpc' \in {wpc, "idle", "drain"}, wpc' = wpc \/ up,
           todo' \subseteq todo, cur' = cur, wout' = wout, userOp' = userOp
    PROVE  IInv'
  <1>1. TypeOK' /\ IdsInv' /\ AttemptInv'
    BY DEF IInv, TypeOK, IdsInv, AttemptInv, IsSend, history
  <1>2. RetryInv' /\ CreditInv'
    BY DEF IInv, RetryInv, CreditInv, IsSend, history
  <1>3. ClaimHeld'
    BY DEF IInv, ClaimHeld, FirstOwns, WorkerOwns, IsSend
  <1>4. PendingSendIsUndelivered' /\ DeadDeliveredIsFlagged'
    BY DEF IInv, PendingSendIsUndelivered, DeadDeliveredIsFlagged, IsSend, history
  <1>. QED BY <1>1, <1>2, <1>3, <1>4 DEF IInv

\* A step that rewrites one row nobody owns afterwards, and starts no attempt.
LEMMA OneRowChanges ==
    ASSUME IInv, NEW x \in Ids, NEW r \in Row, x < nextId,
           rows' = [rows EXCEPT ![x] = r], r.kind = rows[x].kind, IsSend(x) => r.status # "sending",
           IsSend(x) /\ r.status = "pending" => credit[x],
           IsSend(x) /\ r.status = "dead" /\ ~credit[x] => r.err = "unknown",
           ~FirstOwns(x)', ~WorkerOwns(x)',
           \A e \in todo' : e.id = x => IsSend(x),
           nextId' = nextId, up' = up, UNCHANGED history,
           firstPc' \in {firstPc, "none"}, firstId' = firstId, firstOut' = firstOut,
           wpc' \in {wpc, "idle", "drain"}, wpc' = wpc \/ up,
           todo' \subseteq todo, cur' = cur, wout' = wout, userOp' = userOp
    PROVE  IInv'
  <1>1. rows \in [Ids -> Row] BY DEF IInv, TypeOK
  <1>2. \A i \in Ids : IsSend(i)' <=> IsSend(i)
    BY <1>1 DEF IsSend
  <1>3. TypeOK'
    BY <1>1 DEF IInv, TypeOK, history
  <1>4. IdsInv'
    BY <1>1, <1>2 DEF IInv, TypeOK, IdsInv, AllKinds
  <1>5. AttemptInv'
    BY <1>1, <1>2 DEF IInv, TypeOK, IdsInv, AttemptInv, history
  <1>6. RetryInv'
    <2>1. \A i \in Ids : IsSend(i)' /\ rows'[i].status = "sending" => rows'[i].retry < MaxRetries
      BY <1>1, <1>2 DEF IInv, RetryInv
    <2>2. \A e \in todo' : ~IsSend(e.id)' => rows'[e.id].retry = e.retry
      BY <1>1, <1>2 DEF IInv, TypeOK, RetryInv, Entry
    <2>3. wpc' \in {"execute", "settle"} /\ ~IsSend(cur.id)' => rows'[cur.id].retry < MaxRetries
      BY <1>1, <1>2 DEF IInv, IdsInv, RetryInv, WorkerOwns
    <2>. QED BY <2>1, <2>2, <2>3 DEF IInv, RetryInv, IsSend
  <1>7. CreditInv'
    BY <1>2 DEF IInv, CreditInv, history
  <1>8. ClaimHeld'
    BY <1>1, <1>2 DEF IInv, ClaimHeld, FirstOwns, WorkerOwns
  <1>9. PendingSendIsUndelivered' /\ DeadDeliveredIsFlagged'
    BY <1>1, <1>2 DEF IInv, PendingSendIsUndelivered, DeadDeliveredIsFlagged, history
  <1>. QED BY <1>3, <1>4, <1>5, <1>6, <1>7, <1>8, <1>9 DEF IInv

\* The transport of the first attempt spends the credit it started with.
LEMMA FirstTransportStep == ASSUME IInv, FirstTransport PROVE IInv'
  <1>1. TypeOK'
    BY BoundsAssumption DEF IInv, TypeOK, IdsInv, FirstTransport, Observe, Bump, durable, worker
  <1>2. IdsInv'
    BY DEF IInv, TypeOK, IdsInv, FirstTransport, Observe, durable, worker, IsSend
  <1>3. AttemptInv'
    BY DEF IInv, TypeOK, IdsInv, AttemptInv, ClaimHeld, FirstOwns, WorkerOwns, FirstTransport,
           Observe, durable, worker, IsSend
  <1>4. RetryInv'
    BY DEF IInv, RetryInv, FirstTransport, durable, worker, IsSend
  <1>5. CreditInv'
    BY BoundsAssumption DEF IInv, TypeOK, IdsInv, AttemptInv, CreditInv, FirstTransport, Observe,
           Bump, durable, worker, IsSend
  <1>6. ClaimHeld' /\ PendingSendIsUndelivered' /\ DeadDeliveredIsFlagged'
    BY DEF IInv, TypeOK, IdsInv, ClaimHeld, PendingSendIsUndelivered, DeadDeliveredIsFlagged,
        FirstOwns, WorkerOwns, FirstTransport, Observe, durable, worker, IsSend
  <1>. QED BY <1>1, <1>2, <1>3, <1>4, <1>5, <1>6 DEF IInv

\* The spawned task settles the row it owns, or loses the write.
LEMMA FirstSettleStep == ASSUME IInv, FirstSettle PROVE IInv'
  <1>1. /\ firstId \in Ids /\ IsSend(firstId) /\ firstId < nextId
        /\ rows[firstId].status = "sending" /\ rows[firstId].retry < MaxRetries
        /\ rows[firstId] \in Row /\ ~WorkerOwns(firstId) /\ up
    BY DEF IInv, TypeOK, IdsInv, ClaimHeld, RetryInv, FirstOwns, FirstSettle
  <1>2. /\ firstPc' = "none"
        /\ UNCHANGED <<nextId, up, firstId, firstOut, wpc, todo, cur, wout, userOp, auth, effects, credit>>
    BY DEF FirstSettle, worker, history
  <1>3. CASE rows' = rows
    BY <1>2, <1>3, NoRowChanges DEF history
  <1>4. CASE rows' = [rows EXCEPT ![firstId] = SettledSend(@, firstOut)]
    <2> DEFINE r == SettledSend(rows[firstId], firstOut)
    <2>1. /\ r \in Row /\ r.kind = rows[firstId].kind /\ r.status # "sending"
          /\ firstOut = "ok" => r.status = "absent"
          /\ firstOut = "unknown" => r.status = "dead" /\ r.err = "unknown"
      BY <1>1, SettledSendFacts DEF IInv, TypeOK, IsSend
    <2>2. rows' = [rows EXCEPT ![firstId] = r] BY <1>4
    <2>3. firstOut \in {"ok", "definite", "unknown"} /\ (firstOut = "definite" => credit[firstId])
      BY DEF IInv, TypeOK, AttemptInv, FirstSettle, Outcomes
    <2>4. ~FirstOwns(firstId)' /\ ~WorkerOwns(firstId)' BY <1>1, <1>2 DEF FirstOwns, WorkerOwns
    <2> HIDE DEF r
    <2>. QED BY <1>1, <1>2, <2>1, <2>2, <2>3, <2>4, OneRowChanges DEF history
  <1>. QED BY <1>3, <1>4 DEF FirstSettle

\* The facts every step of the loop over the snapshot starts from.
LEMMA EntryFacts ==
    ASSUME IInv, NEW e \in todo, NextEntry(e)
    PROVE  /\ e.id \in Ids /\ e.id < nextId /\ rows[e.id] \in Row /\ up /\ wpc = "drain"
           /\ \A f \in todo \ {e} : f.id # e.id
           /\ IsSend(e.id) /\ rows[e.id].status = "pending" => ~FirstOwns(e.id) /\ credit[e.id]
           /\ ~IsSend(e.id) => ~FirstOwns(e.id)
           /\ ~IsSend(e.id) => rows[e.id].retry = e.retry
  <1>1. e.id \in Ids /\ e.id < nextId /\ rows[e.id] \in Row
    BY DEF IInv, TypeOK, IdsInv, Entry
  <1>2. \A f \in todo \ {e} : f.id # e.id
    BY DEF IInv, RetryInv
  <1>3. /\ IsSend(e.id) /\ rows[e.id].status = "pending" => ~FirstOwns(e.id) /\ credit[e.id]
        /\ ~IsSend(e.id) => ~FirstOwns(e.id)
    BY <1>1 DEF IInv, IdsInv, ClaimHeld, PendingSendIsUndelivered, FirstOwns
  <1>. QED BY <1>1, <1>2, <1>3 DEF IInv, RetryInv, NextEntry

\* Giving up on a row at the retry limit.
LEMMA ReplayExhaustedStep == ASSUME IInv, NEW e \in todo, ReplayExhausted(e) PROVE IInv'
  <1> DEFINE x == e.id
  <1>1. /\ x \in Ids /\ x < nextId /\ rows[x] \in Row /\ up /\ wpc = "drain"
        /\ \A f \in todo \ {e} : f.id # x
        /\ IsSend(x) /\ rows[x].status = "pending" => ~FirstOwns(x) /\ credit[x]
        /\ ~IsSend(x) => ~FirstOwns(x)
    BY EntryFacts DEF ReplayExhausted
  <1>2. /\ wpc' \in {"idle", "drain"} /\ todo' \in {{}, todo \ {e}}
        /\ UNCHANGED <<nextId, up, firstPc, firstId, firstOut, cur, wout, userOp, auth, effects, credit>>
    BY DEF ReplayExhausted, Continue, Break, first, history
  <1>3. CASE rows' = rows
    BY <1>1, <1>2, <1>3, NoRowChanges DEF history
  <1>4. ASSUME NEW r \in Row, rows' = [rows EXCEPT ![x] = r], r.kind = rows[x].kind,
               r.status = "dead", IsSend(x) => rows[x].status = "pending"
        PROVE  IInv'
    <2>1. ~FirstOwns(x)' /\ ~WorkerOwns(x)' BY <1>1, <1>2, <1>4 DEF FirstOwns, WorkerOwns
    <2>. QED BY <1>1, <1>2, <1>4, <2>1, OneRowChanges DEF history
  <1>5. CASE IsSend(x) /\ rows[x].status = "pending"
             /\ rows' = [rows EXCEPT ![x] = exhaust_pending_send(@)]
    <2>1. /\ exhaust_pending_send(rows[x]) \in Row
          /\ exhaust_pending_send(rows[x]).kind = rows[x].kind
          /\ exhaust_pending_send(rows[x]).status = "dead"
      BY <1>1 DEF exhaust_pending_send, Row, Statuses, Errors
    <2>. QED BY <1>4, <1>5, <2>1
  <1>6. CASE ~IsSend(x) /\ rows' = [rows EXCEPT ![x] = mark_dead(rows[x])]
    <2>1. mark_dead(rows[x]) \in Row /\ mark_dead(rows[x]).kind = rows[x].kind
          /\ mark_dead(rows[x]).status = "dead"
      BY <1>1 DEF mark_dead, Row, Statuses
    <2>. QED BY <1>4, <1>6, <2>1
  <1>. QED BY <1>3, <1>5, <1>6 DEF ReplayExhausted, UpdateIfPresent

\* Giving up on a row that cannot be read back.
LEMMA ReplayInvalidStep == ASSUME IInv, NEW e \in todo, ReplayInvalid(e) PROVE IInv'
  <1> DEFINE x == e.id
             r == mark_dead_with_error(rows[x])
  <1>1. /\ x \in Ids /\ x < nextId /\ rows[x] \in Row /\ up /\ wpc = "drain"
        /\ \A f \in todo \ {e} : f.id # x
        /\ IsSend(x) /\ rows[x].status = "pending" => ~FirstOwns(x) /\ credit[x]
        /\ ~IsSend(x) => ~FirstOwns(x)
    BY EntryFacts DEF ReplayInvalid
  <1>2. /\ wpc' \in {"idle", "drain"} /\ todo' \in {{}, todo \ {e}}
        /\ UNCHANGED <<nextId, up, firstPc, firstId, firstOut, cur, wout, userOp, auth, effects, credit>>
    BY DEF ReplayInvalid, Continue, Break, first, history
  <1>3. CASE rows' = rows
    BY <1>1, <1>2, <1>3, NoRowChanges DEF history
  <1>4. CASE (IsSend(x) => rows[x].status = "pending") /\ rows' = [rows EXCEPT ![x] = r]
    <2>1. r \in Row /\ r.kind = rows[x].kind /\ r.status = "dead"
      BY <1>1 DEF mark_dead_with_error, Row, Statuses, Errors
    <2>2. ~FirstOwns(x)' /\ ~WorkerOwns(x)' BY <1>1, <1>2, <1>4 DEF FirstOwns, WorkerOwns
    <2> HIDE DEF r
    <2>. QED BY <1>1, <1>2, <1>4, <2>1, <2>2, OneRowChanges DEF history
  <1>. QED BY <1>3, <1>4 DEF ReplayInvalid, UpdateIfPresent

\* The facts a result of the worker's own attempt is recorded under.
LEMMA SettleFacts ==
    ASSUME IInv, wpc = "settle"
    PROVE  /\ cur.id \in Ids /\ cur.id < nextId /\ rows[cur.id] \in Row
           /\ ~FirstOwns(cur.id) /\ rows[cur.id].retry < MaxRetries
           /\ wout \in Outcomes
           /\ IsSend(cur.id) /\ wout = "definite" => credit[cur.id]
           /\ \A f \in todo : f.id # cur.id
  <1>1. cur.id \in Ids /\ cur.id < nextId /\ rows[cur.id] \in Row /\ wout \in Outcomes
    BY DEF IInv, TypeOK, IdsInv
  <1>2. ~FirstOwns(cur.id) /\ (IsSend(cur.id) => rows[cur.id].status = "sending")
    BY <1>1 DEF IInv, ClaimHeld, IdsInv, FirstOwns, WorkerOwns
  <1>. QED BY <1>1, <1>2 DEF IInv, AttemptInv, RetryInv

\* The worker settles the send it claimed, or stops the drain.
LEMMA SettleSendStep == ASSUME IInv, SettleSend PROVE IInv'
  <1> DEFINE x == cur.id
             r == SettledSend(rows[x], wout)
  <1>1. /\ x \in Ids /\ x < nextId /\ rows[x] \in Row /\ ~FirstOwns(x)
        /\ rows[x].retry < MaxRetries /\ wout \in Outcomes
        /\ wout = "definite" => credit[x]
        /\ up /\ IsSend(x)
    BY SettleFacts DEF SettleSend
  <1>2. /\ wpc' \in {"idle", "drain"} /\ todo' \subseteq todo
        /\ UNCHANGED <<nextId, up, firstPc, firstId, firstOut, cur, wout, userOp, auth, effects, credit>>
    BY DEF SettleSend, Continue, Break, first, history
  <1>3. CASE rows' = rows
    BY <1>1, <1>2, <1>3, NoRowChanges DEF history
  <1>4. CASE rows' = [rows EXCEPT ![x] = r]
    <2>1. /\ r \in Row /\ r.kind = rows[x].kind /\ r.status # "sending"
          /\ wout = "ok" => r.status = "absent"
          /\ wout = "unknown" => r.status = "dead" /\ r.err = "unknown"
      BY <1>1, SettledSendFacts
    <2>2. ~FirstOwns(x)' /\ ~WorkerOwns(x)' BY <1>1, <1>2 DEF FirstOwns, WorkerOwns
    <2>3. wout \in {"ok", "definite", "unknown"} BY <1>1 DEF Outcomes
    <2> HIDE DEF r
    <2>. QED BY <1>1, <1>2, <1>4, <2>1, <2>2, <2>3, OneRowChanges DEF history
  <1>. QED BY <1>3, <1>4 DEF SettleSend

\* The worker records the result of an operation that has no claim.
LEMMA SettleOtherStep == ASSUME IInv, SettleOther PROVE IInv'
  <1> DEFINE x == cur.id
  <1>1. /\ x \in Ids /\ x < nextId /\ rows[x] \in Row /\ ~FirstOwns(x)
        /\ rows[x].retry < MaxRetries /\ up /\ ~IsSend(x)
        /\ \A f \in todo : f.id # x
    BY SettleFacts DEF SettleOther
  <1>2. /\ wpc' \in {"idle", "drain"} /\ todo' \subseteq todo
        /\ UNCHANGED <<nextId, up, firstPc, firstId, firstOut, cur, wout, userOp, auth, effects, credit>>
    BY DEF SettleOther, Continue, Break, first, history
  <1>3. CASE rows' = rows
    BY <1>1, <1>2, <1>3, NoRowChanges DEF history
  <1>4. CASE \E r \in {mark_completed(rows[x]), mark_failed(rows[x]), mark_dead_with_error(rows[x])} :
                rows' = [rows EXCEPT ![x] = r]
    <2>1. PICK r \in {mark_completed(rows[x]), mark_failed(rows[x]), mark_dead_with_error(rows[x])} :
                rows' = [rows EXCEPT ![x] = r]
      BY <1>4
    <2>2. rows[x].retry + 1 \in 0..MaxRetries BY <1>1, BoundsAssumption DEF Row
    <2>3. r \in Row /\ r.kind = rows[x].kind
      BY <1>1, <2>2 DEF mark_completed, mark_failed, mark_dead_with_error, Row, Statuses, Errors
    <2>4. ~FirstOwns(x)' /\ ~WorkerOwns(x)' BY <1>1, <1>2 DEF FirstOwns, WorkerOwns
    <2>. QED BY <1>1, <1>2, <2>1, <2>3, <2>4, OneRowChanges DEF history
  <1>. QED BY <1>3, <1>4 DEF SettleOther, UpdateIfPresent

\* A successful claim makes the worker the only owner of the row.
LEMMA ReplayClaimStep == ASSUME IInv, NEW e \in todo, ReplayClaim(e) PROVE IInv'
  <1> DEFINE x == e.id
             r == [rows[x] EXCEPT !.status = "sending"]
  <1>1. /\ x \in Ids /\ x < nextId /\ rows[x] \in Row /\ up /\ wpc = "drain"
        /\ \A f \in todo \ {e} : f.id # x
        /\ IsSend(x) /\ (rows[x].status = "pending" => ~FirstOwns(x) /\ credit[x])
    BY EntryFacts DEF ReplayClaim
  <1>2. /\ todo' \in {{}, todo \ {e}}
        /\ UNCHANGED <<nextId, up, firstPc, firstId, firstOut, wout, userOp, auth, effects, credit>>
    BY DEF ReplayClaim, Continue, Break, first, history
  <1>3. CASE rows' = rows /\ cur' = cur /\ wpc' \in {"idle", "drain"}
    BY <1>1, <1>2, <1>3, NoRowChanges DEF history
  <1>4. CASE /\ rows' = [rows EXCEPT ![x].status = "sending"] /\ wpc' = "execute" /\ cur' = e
             /\ todo' = todo \ {e}
             /\ rows[x].status = "pending" /\ rows[x].retry = e.retry /\ e.retry < MaxRetries
    <2>1. /\ r \in Row /\ r.kind = rows[x].kind /\ r.status = "sending" /\ r.retry < MaxRetries
          /\ rows' = [rows EXCEPT ![x] = r] /\ rows \in [Ids -> Row]
      BY <1>1, <1>4 DEF Row, Statuses, IInv, TypeOK
    <2> HIDE DEF r
    <2>2. \A i \in Ids : IsSend(i)' <=> IsSend(i) BY <1>1, <2>1 DEF IsSend
    <2>3. TypeOK' BY <1>1, <1>2, <1>4, <2>1 DEF IInv, TypeOK
    <2>4. IdsInv' BY <1>1, <1>2, <1>4, <2>1, <2>2 DEF IInv, TypeOK, IdsInv, AllKinds
    <2>5. AttemptInv' BY <1>1, <1>2, <1>4, <2>1, <2>2 DEF IInv, TypeOK, IdsInv, AttemptInv
    <2>6. RetryInv'
      <3>1. \A i \in Ids : IsSend(i)' /\ rows'[i].status = "sending" => rows'[i].retry < MaxRetries
        BY <1>1, <2>1, <2>2 DEF IInv, RetryInv
      <3>2. \A f \in todo' : ~IsSend(f.id)' => rows'[f.id].retry = f.retry
        BY <1>1, <1>4, <2>1, <2>2 DEF IInv, TypeOK, RetryInv, Entry
      <3>. QED BY <1>1, <1>4, <2>2, <3>1, <3>2 DEF IInv, RetryInv
    <2>7. CreditInv' BY <1>2, <2>2 DEF IInv, CreditInv
    <2>8. ClaimHeld'
      BY <1>1, <1>2, <1>4, <2>1, <2>2 DEF IInv, IdsInv, ClaimHeld, FirstOwns, WorkerOwns
    <2>9. PendingSendIsUndelivered' /\ DeadDeliveredIsFlagged'
      BY <1>1, <1>2, <2>1, <2>2 DEF IInv, PendingSendIsUndelivered, DeadDeliveredIsFlagged
    <2>. QED BY <2>3, <2>4, <2>5, <2>6, <2>7, <2>8, <2>9 DEF IInv
  <1>5. e.retry < MaxRetries
    BY BoundsAssumption DEF ReplayClaim, is_dead, IInv, TypeOK, Entry
  <1>. QED BY <1>3, <1>4, <1>5 DEF ReplayClaim, claim_pending_send_matches, Continue, Break

\* An operation without a claim starts.
LEMMA ReplayBeginStep == ASSUME IInv, NEW e \in todo, ReplayBegin(e) PROVE IInv'
  <1>1. /\ e.id \in Ids /\ e.id < nextId /\ up /\ wpc = "drain"
        /\ \A f \in todo \ {e} : f.id # e.id
        /\ ~IsSend(e.id) /\ ~FirstOwns(e.id) /\ rows[e.id].retry = e.retry
    BY EntryFacts DEF ReplayBegin
  <1>2. e.retry < MaxRetries
    BY BoundsAssumption DEF ReplayBegin, is_dead, IInv, TypeOK, Entry
  <1>3. /\ wpc' = "execute" /\ cur' = e /\ todo' = todo \ {e}
        /\ UNCHANGED <<rows, nextId, up, firstPc, firstId, firstOut, wout, userOp, auth, effects, credit>>
    BY DEF ReplayBegin, durable, first, history
  <1>4. TypeOK' /\ IdsInv' /\ AttemptInv'
    BY <1>1, <1>3 DEF IInv, TypeOK, IdsInv, AttemptInv, IsSend
  <1>5. RetryInv' /\ CreditInv'
    BY <1>1, <1>2, <1>3 DEF IInv, RetryInv, CreditInv, IsSend
  <1>6. ClaimHeld'
    BY <1>1, <1>3 DEF IInv, ClaimHeld, FirstOwns, WorkerOwns, IsSend
  <1>7. PendingSendIsUndelivered' /\ DeadDeliveredIsFlagged'
    BY <1>3 DEF IInv, PendingSendIsUndelivered, DeadDeliveredIsFlagged, IsSend
  <1>. QED BY <1>4, <1>5, <1>6, <1>7 DEF IInv

\* The worker's transport spends the credit the claim found.
LEMMA ReplayExecuteStep == ASSUME IInv, ReplayExecute PROVE IInv'
  <1>1. TypeOK'
    BY BoundsAssumption DEF IInv, TypeOK, IdsInv, ReplayExecute, Observe, Bump, durable, first
  <1>2. IdsInv'
    BY DEF IInv, TypeOK, IdsInv, ReplayExecute, Observe, durable, first, IsSend
  <1>3. AttemptInv'
    BY DEF IInv, TypeOK, IdsInv, AttemptInv, ClaimHeld, FirstOwns, WorkerOwns, ReplayExecute,
           Observe, durable, first, IsSend
  <1>4. RetryInv'
    BY DEF IInv, RetryInv, ReplayExecute, durable, first, IsSend
  <1>5. CreditInv'
    BY BoundsAssumption DEF IInv, TypeOK, IdsInv, AttemptInv, CreditInv, ReplayExecute, Observe,
           Bump, durable, first, IsSend
  <1>6. ClaimHeld' /\ PendingSendIsUndelivered' /\ DeadDeliveredIsFlagged'
    BY DEF IInv, TypeOK, IdsInv, ClaimHeld, PendingSendIsUndelivered, DeadDeliveredIsFlagged,
        FirstOwns, WorkerOwns, ReplayExecute, Observe, durable, first, IsSend
  <1>. QED BY <1>1, <1>2, <1>3, <1>4, <1>5, <1>6 DEF IInv

\* The snapshot lists rows that exist, with their present retry counts.
LEMMA StartReplayStep == ASSUME IInv, StartReplay PROVE IInv'
  <1>1. /\ wpc' = "drain" /\ up
        /\ UNCHANGED <<rows, nextId, up, firstPc, firstId, firstOut, cur, wout, userOp, auth, effects, credit>>
    BY DEF StartReplay, durable, first, history
  <1>2. /\ todo' \in SUBSET Entry
        /\ \A e \in todo' : e.id \in Ids /\ rows[e.id].status = "pending" /\ e.retry = rows[e.id].retry
        /\ \A e, f \in todo' : e.id = f.id => e = f
    BY DEF StartReplay, Entry, IInv, TypeOK, Row
  <1>3. TypeOK' /\ IdsInv' /\ AttemptInv'
    BY <1>1, <1>2 DEF IInv, TypeOK, IdsInv, AttemptInv, IsSend, Ids
  <1>4. RetryInv' /\ CreditInv'
    BY <1>1, <1>2 DEF IInv, RetryInv, CreditInv, IsSend
  <1>5. ClaimHeld'
    BY <1>1 DEF IInv, ClaimHeld, FirstOwns, WorkerOwns, IsSend
  <1>6. PendingSendIsUndelivered' /\ DeadDeliveredIsFlagged'
    BY <1>1 DEF IInv, PendingSendIsUndelivered, DeadDeliveredIsFlagged, IsSend
  <1>. QED BY <1>3, <1>4, <1>5, <1>6 DEF IInv

\* Only a row nobody is sending is discarded.
LEMMA DiscardStep == ASSUME IInv, NEW x \in Ids, Discard(x) PROVE IInv'
  <1> DEFINE r == [rows[x] EXCEPT !.status = "absent"]
  <1>1. r \in Row /\ r.kind = rows[x].kind /\ r.status = "absent" /\ rows' = [rows EXCEPT ![x] = r]
    BY DEF Discard, IInv, TypeOK, Row, Statuses
  <1>2. UNCHANGED <<nextId, up, firstPc, firstId, firstOut, wpc, todo, cur, wout, userOp, auth, effects, credit>>
    BY DEF Discard, first, worker, history
  <1>3. IsSend(x) /\ x < nextId /\ rows[x].status # "sending"
    BY DEF Discard, IInv, TypeOK, IdsInv, IsSend, Ids
  <1>4. ~FirstOwns(x)' /\ ~WorkerOwns(x)'
    BY <1>2, <1>3 DEF IInv, ClaimHeld, FirstOwns, WorkerOwns
  <1> HIDE DEF r
  <1>. QED BY <1>1, <1>2, <1>3, <1>4, OneRowChanges DEF history

\* A manual retry gives a dead row a new credit.
LEMMA RetryDeadStep == ASSUME IInv, NEW x \in Ids, RetryDead(x) PROVE IInv'
  <1> DEFINE r == [rows[x] EXCEPT !.status = "pending", !.retry = 0, !.err = "none"]
  <1>1. /\ r \in Row /\ r.kind = rows[x].kind /\ r.status = "pending"
        /\ rows' = [rows EXCEPT ![x] = r] /\ rows \in [Ids -> Row]
    <2>1. rows \in [Ids -> Row] BY DEF IInv, TypeOK
    <2>2. 0 \in 0..MaxRetries /\ rows[x] \in Row BY <2>1, BoundsAssumption
    <2>3. r \in Row /\ r.kind = rows[x].kind /\ r.status = "pending"
      BY <2>2 DEF Row, Statuses, Errors
    <2>4. rows' = [rows EXCEPT ![x] = r]
      BY <2>1, <2>2 DEF RetryDead
    <2>. QED BY <2>1, <2>3, <2>4
  <1>2. /\ UNCHANGED <<nextId, up, firstPc, firstId, firstOut, wpc, todo, cur, wout, userOp, effects>>
        /\ auth' = [auth EXCEPT ![x] = @ + 1] /\ credit' = [credit EXCEPT ![x] = TRUE]
        /\ auth[x] <= MaxManual
    BY DEF RetryDead, first, worker
  <1>3. IsSend(x) /\ x < nextId /\ rows[x].status = "dead"
    BY DEF RetryDead, IInv, TypeOK, IdsInv, IsSend, Ids
  <1>4. ~FirstOwns(x) /\ ~WorkerOwns(x)
    BY <1>3 DEF IInv, ClaimHeld
  <1> HIDE DEF r
  <1>5. \A i \in Ids : IsSend(i)' <=> IsSend(i) BY <1>1 DEF IsSend
  <1>6. TypeOK'
    BY <1>1, <1>2, BoundsAssumption DEF IInv, TypeOK
  <1>7. IdsInv'
    BY <1>1, <1>2, <1>3, <1>5 DEF IInv, TypeOK, IdsInv, AllKinds
  <1>8. AttemptInv'
    BY <1>1, <1>2, <1>5 DEF IInv, TypeOK, IdsInv, AttemptInv
  <1>9. RetryInv'
    <2>1. \A i \in Ids : IsSend(i)' /\ rows'[i].status = "sending" => rows'[i].retry < MaxRetries
      BY <1>1, <1>5 DEF IInv, RetryInv
    <2>2. \A f \in todo' : ~IsSend(f.id)' => rows'[f.id].retry = f.retry
      BY <1>1, <1>2, <1>3, <1>5 DEF IInv, TypeOK, RetryInv, Entry
    <2>3. wpc' \in {"execute", "settle"} /\ ~IsSend(cur.id)' => rows'[cur.id].retry < MaxRetries
      BY <1>1, <1>2, <1>3, <1>5 DEF IInv, IdsInv, RetryInv
    <2>. QED BY <1>2, <2>1, <2>2, <2>3 DEF IInv, RetryInv, IsSend
  <1>10. CreditInv'
    <2>1. ASSUME NEW i \in Ids, IsSend(i)'
          PROVE  effects'[i] + (IF credit'[i] THEN 1 ELSE 0) <= auth'[i]
      <3>1. CASE i = x
        <4>1. effects[x] \in Nat /\ auth[x] \in Nat BY BoundsAssumption DEF IInv, TypeOK
        <4>2. effects[x] <= auth[x]
          BY <1>3, <4>1 DEF IInv, CreditInv
        <4>3. credit'[x] = TRUE /\ auth'[x] = auth[x] + 1 /\ effects'[x] = effects[x]
          BY <1>2 DEF IInv, TypeOK
        <4>. QED BY <3>1, <4>1, <4>2, <4>3
      <3>2. CASE i # x
        BY <1>2, <1>5, <2>1, <3>2 DEF IInv, TypeOK, CreditInv
      <3>. QED BY <3>1, <3>2
    <2>. QED BY <2>1 DEF CreditInv
  <1>11. ClaimHeld'
    BY <1>1, <1>2, <1>4, <1>5 DEF IInv, ClaimHeld, FirstOwns, WorkerOwns
  <1>12. PendingSendIsUndelivered' /\ DeadDeliveredIsFlagged'
    BY <1>1, <1>2, <1>5 DEF IInv, TypeOK, PendingSendIsUndelivered, DeadDeliveredIsFlagged
  <1>. QED BY <1>6, <1>7, <1>8, <1>9, <1>10, <1>11, <1>12 DEF IInv

\* Pruning superseded flag operations keeps the table typed and the sends as
\* they are.
LEMMA PruneFacts ==
    ASSUME IInv, NEW pruned \in SUBSET PendingFlags
    PROVE  /\ Without(rows, pruned) \in [Ids -> Row]
           /\ \A i \in Ids : Without(rows, pruned)[i].kind = rows[i].kind
           /\ \A i \in Ids : Without(rows, pruned)[i].retry = rows[i].retry
           /\ \A i \in Ids : rows[i].kind # "set_flags" => Without(rows, pruned)[i] = rows[i]
           /\ \A i \in Ids : IsSend(i) => Without(rows, pruned)[i] = rows[i]
           /\ \A i \in Ids : i >= nextId => Without(rows, pruned)[i] = rows[i]
  <1>1. rows \in [Ids -> Row] /\ nextId \in Int BY DEF IInv, TypeOK
  <1>2. \A i \in pruned : i \in Ids /\ rows[i].kind = "set_flags" /\ i < nextId
    BY <1>1 DEF PendingFlags, IInv, IdsInv, Ids
  <1>3. \A i \in Ids : [rows[i] EXCEPT !.status = "absent"] \in Row
                       /\ [rows[i] EXCEPT !.status = "absent"].kind = rows[i].kind
                       /\ [rows[i] EXCEPT !.status = "absent"].retry = rows[i].retry
    BY <1>1 DEF Row, Statuses
  <1>4. \A i \in Ids : Without(rows, pruned)[i] = IF i \in pruned THEN [rows[i] EXCEPT !.status = "absent"] ELSE rows[i]
    BY DEF Without
  <1>5. Without(rows, pruned) \in [Ids -> Row]
    BY <1>1, <1>3 DEF Without
  <1>6. \A i \in Ids : Without(rows, pruned)[i].kind = rows[i].kind /\ Without(rows, pruned)[i].retry = rows[i].retry
    BY <1>3, <1>4
  <1>7. \A i \in Ids : rows[i].kind # "set_flags" \/ IsSend(i) \/ i >= nextId => i \notin pruned
    BY <1>1, <1>2 DEF IsSend, Ids
  <1>. QED BY <1>4, <1>5, <1>6, <1>7

\* Inserting a row at nextId, possibly pruning others, keeps the invariant
\* except for what the new row's owner, if any, must add.
LEMMA InsertKeeps ==
    ASSUME IInv, NEW table \in [Ids -> Row], NEW n, n = nextId, nextId <= MaxRows,
           \A i \in Ids : table[i].kind = rows[i].kind /\ table[i].retry = rows[i].retry,
           \A i \in Ids : IsSend(i) => table[i] = rows[i],
           \A i \in Ids : i >= nextId => table[i] = rows[i],
           NEW kind \in AllKinds, NEW status \in {"pending", "dead", "sending"},
           NEW err \in Errors, NEW hit \in BOOLEAN,
           kind = "send" => status = "sending" /\ ~hit,
           Insert(table, kind, status, err, hit),
           up' = up, up, firstPc' \in {"none", "transport", "settle"},
           (firstPc' = firstPc /\ firstId' = firstId) \/ (firstPc' = "transport" /\ firstId' = n /\ kind = "send"),
           firstOut' \in Outcomes, firstPc' = firstPc => firstOut' = firstOut,
           wpc' = wpc \/ wpc' = "idle", IF wpc = "userop" THEN wpc' = "idle" \/ nextId + 1 <= MaxRows ELSE TRUE,
           todo' = todo, cur' = cur, wout' = wout, userOp' = userOp
    PROVE  IInv'
  <1>1. /\ n \in Ids /\ n = nextId /\ nextId' = nextId + 1 /\ rows' \in [Ids -> Row]
        /\ rows'[n] = NewRow(kind, status, err)
        /\ rows'[n].kind = kind /\ rows'[n].status = status
        /\ rows'[n].retry = 0 /\ rows'[n].err = err
        /\ \A i \in Ids \ {n} : rows'[i] = table[i]
    BY BoundsAssumption DEF IInv, TypeOK, Ids, Insert, NewRow, Row, Statuses, AllKinds
  <1>2. /\ auth' = [auth EXCEPT ![n] = 1]
        /\ effects' = [effects EXCEPT ![n] = IF hit THEN 1 ELSE 0]
        /\ credit' = [credit EXCEPT ![n] = ~hit]
    BY DEF Insert
  <1>3. \A i \in Ids \ {n} : (IsSend(i)' <=> IsSend(i)) /\ (IsSend(i) => rows'[i] = rows[i])
    BY <1>1 DEF IsSend
  <1>4. n \in Nat /\ nextId \in Nat /\ rows[n].kind = "none" /\ (IsSend(n)' <=> kind = "send")
    BY <1>1 DEF IInv, IdsInv, Ids, IsSend
  <1>5. TypeOK'
    <2>1. nextId' \in 1..(MaxRows + 1) BY <1>1, <1>4, BoundsAssumption
    <2>2. /\ auth' \in [Ids -> 0..(MaxManual + 1)] /\ effects' \in [Ids -> 0..EffectCap]
          /\ credit' \in [Ids -> BOOLEAN]
      BY <1>1, <1>2, BoundsAssumption DEF IInv, TypeOK
    <2>3. firstId' \in Ids \cup {0} /\ wpc' \in {"idle", "userop", "drain", "execute", "settle"}
      BY <1>1 DEF IInv, TypeOK
    <2>. QED BY <1>1, <2>1, <2>2, <2>3 DEF IInv, TypeOK
  <1>6. \A e \in todo : e.id \in Ids \ {n}
    BY <1>4 DEF IInv, TypeOK, IdsInv, Entry
  <1>7. wpc \in {"execute", "settle"} => cur.id \in Ids \ {n}
    BY <1>4 DEF IInv, IdsInv
  <1>8. firstPc # "none" => firstId \in Ids \ {n}
    BY <1>4 DEF IInv, IdsInv
  <1>9. IdsInv'
    <2>1. \A i \in Ids : IF i < nextId' THEN rows'[i].kind \in AllKinds
                                       ELSE rows'[i].kind = "none" /\ rows'[i].status = "absent"
      <3>1. \A i \in Ids : i < nextId + 1 => i = n \/ i < nextId BY <1>4 DEF Ids
      <3>2. \A i \in Ids : ~(i < nextId + 1) => i # n /\ ~(i < nextId) /\ i >= nextId BY <1>4 DEF Ids
      <3>. QED BY <1>1, <3>1, <3>2 DEF IInv, IdsInv
    <2>2. \A e \in todo' : e.id < nextId'
      BY <1>1, <1>4, <1>6 DEF IInv, IdsInv, Ids
    <2>3. firstPc' # "none" => firstId' \in Ids /\ firstId' < nextId' /\ rows'[firstId'].kind = "send"
      <3>1. CASE firstPc' = firstPc /\ firstId' = firstId
        BY <1>1, <1>3, <1>4, <1>8, <3>1 DEF IInv, IdsInv, Ids, IsSend
      <3>2. CASE firstId' = n /\ kind = "send"
        BY <1>1, <1>4, <3>2 DEF IsSend
      <3>. QED BY <3>1, <3>2
    <2>4. wpc' \in {"execute", "settle"} => cur.id \in Ids /\ cur.id < nextId'
      BY <1>1, <1>4, <1>7 DEF IInv, IdsInv, Ids
    <2>5. wpc' = "userop" => nextId' <= MaxRows /\ userOp' \in LocalKinds
      BY <1>1 DEF IInv, IdsInv
    <2>. QED BY <2>1, <2>2, <2>3, <2>4, <2>5 DEF IInv, IdsInv, IsSend
  <1>10. AttemptInv'
    <2>1. firstPc' = "transport" \/ (firstPc' = "settle" /\ firstOut' = "definite") => credit'[firstId']
      <3>1. CASE firstPc' = firstPc /\ firstId' = firstId
        BY <1>2, <1>8, <3>1 DEF IInv, TypeOK, AttemptInv
      <3>2. CASE firstPc' = "transport" /\ firstId' = n /\ kind = "send"
        BY <1>1, <1>2, <3>2 DEF IInv, TypeOK
      <3>. QED BY <3>1, <3>2
    <2>2. wpc' = "execute" \/ (wpc' = "settle" /\ wout' = "definite")
             => (rows'[cur'.id].kind = "send" => credit'[cur'.id])
      BY <1>2, <1>3, <1>7 DEF IInv, TypeOK, AttemptInv, IsSend
    <2>. QED BY <2>1, <2>2 DEF AttemptInv, IsSend
  <1>11. RetryInv'
    <2>1. \A i \in Ids : IsSend(i)' /\ rows'[i].status = "sending" => rows'[i].retry < MaxRetries
      BY <1>1, <1>3, BoundsAssumption DEF IInv, RetryInv
    <2>2. \A e \in todo' : ~IsSend(e.id)' => rows'[e.id].retry = e.retry
      BY <1>1, <1>3, <1>6 DEF IInv, RetryInv
    <2>3. wpc' \in {"execute", "settle"} /\ ~IsSend(cur.id)' => rows'[cur.id].retry < MaxRetries
      BY <1>1, <1>3, <1>7 DEF IInv, RetryInv
    <2>. QED BY <2>1, <2>2, <2>3 DEF IInv, RetryInv, IsSend
  <1>12. CreditInv'
    <2>1. ASSUME NEW i \in Ids \ {n}, IsSend(i)'
          PROVE effects'[i] + (IF credit'[i] THEN 1 ELSE 0) <= auth'[i]
      BY <1>2, <1>3, <2>1 DEF IInv, TypeOK, CreditInv
    <2>2. effects'[n] + (IF credit'[n] THEN 1 ELSE 0) <= auth'[n]
      <3>1. auth'[n] = 1 BY <1>1, <1>2 DEF IInv, TypeOK
      <3>2. CASE hit
        <4>1. effects'[n] = 1 BY <1>1, <1>2, <3>2 DEF IInv, TypeOK
        <4>2. ~credit'[n] BY <1>1, <1>2, <3>2 DEF IInv, TypeOK
        <4>. QED BY <3>1, <4>1, <4>2
      <3>3. CASE ~hit
        <4>1. effects'[n] = 0 BY <1>1, <1>2, <3>3 DEF IInv, TypeOK
        <4>. QED BY <3>1, <4>1
      <3>. QED BY <3>2, <3>3
    <2>. QED BY <2>1, <2>2 DEF CreditInv
  <1>13. ClaimHeld'
    <2>1. ASSUME NEW i \in Ids, IsSend(i)', FirstOwns(i)' \/ WorkerOwns(i)'
          PROVE  rows'[i].status = "sending" /\ ~(FirstOwns(i)' /\ WorkerOwns(i)')
      <3>1. CASE i = n
        BY <1>1, <1>4, <1>7, <2>1, <3>1 DEF WorkerOwns
      <3>2. CASE i # n
        BY <1>1, <1>3, <2>1, <3>2 DEF IInv, ClaimHeld, FirstOwns, WorkerOwns
      <3>. QED BY <3>1, <3>2
    <2>. QED BY <2>1 DEF ClaimHeld
  <1>14. PendingSendIsUndelivered' /\ DeadDeliveredIsFlagged'
    <2>1. ASSUME NEW i \in Ids, IsSend(i)'
          PROVE  /\ rows'[i].status = "pending" => credit'[i]
                 /\ rows'[i].status = "dead" /\ ~credit'[i] => rows'[i].err = "unknown"
      <3>1. CASE i = n BY <1>1, <1>4, <2>1, <3>1
      <3>2. CASE i # n
        BY <1>2, <1>3, <2>1, <3>2 DEF IInv, TypeOK, PendingSendIsUndelivered, DeadDeliveredIsFlagged
      <3>. QED BY <3>1, <3>2
    <2>. QED BY <2>1 DEF PendingSendIsUndelivered, DeadDeliveredIsFlagged
  <1>. QED BY <1>5, <1>9, <1>10, <1>11, <1>12, <1>13, <1>14 DEF IInv

\* A new send is inserted under the claim of its task.
LEMMA SendMessageStep == ASSUME IInv, SendMessage PROVE IInv'
  <1>1. rows \in [Ids -> Row] /\ nextId \in Nat /\ nextId <= MaxRows
        /\ (wpc = "userop" => nextId + 1 <= MaxRows)
    BY BoundsAssumption DEF IInv, TypeOK, SendMessage, IdFree
  <1>2. /\ up /\ up' = up /\ Insert(rows, "send", "sending", "none", FALSE)
        /\ firstPc = "none" /\ firstPc' = "transport" /\ firstId' = nextId /\ firstOut' = "ok"
        /\ UNCHANGED <<wpc, todo, cur, wout, userOp>>
    BY DEF SendMessage, worker
  <1>3. "send" \in AllKinds /\ "none" \in Errors /\ "ok" \in Outcomes
    BY DEF AllKinds, Errors, Outcomes
  <1>. QED BY <1>1, <1>2, <1>3, InsertKeeps

\* A command queues an operation the worker did not take.
LEMMA QueueFailedStep == ASSUME IInv, NEW kind \in LocalKinds, QueueFailed(kind) PROVE IInv'
  <1>1. nextId \in Nat /\ nextId <= MaxRows /\ (wpc = "userop" => nextId + 1 <= MaxRows)
    BY BoundsAssumption DEF IInv, TypeOK, QueueFailed, IdFree
  <1>2. PICK pruned \in SUBSET PendingFlags :
           Insert(Without(rows, pruned), kind, "pending", "none", FALSE)
    BY DEF QueueFailed
  <1>3. up /\ UNCHANGED <<up, firstPc, firstId, firstOut, wpc, todo, cur, wout, userOp>>
    BY DEF QueueFailed, first, worker
  <1>4. kind \in AllKinds /\ kind # "send" /\ "none" \in Errors
        /\ firstOut \in Outcomes /\ firstPc \in {"none", "transport", "settle"}
    BY KindsAssumption DEF AllKinds, Errors, IInv, TypeOK
  <1> DEFINE table == Without(rows, pruned)
  <1>5. /\ table \in [Ids -> Row]
        /\ \A i \in Ids : table[i].kind = rows[i].kind /\ table[i].retry = rows[i].retry
        /\ \A i \in Ids : IsSend(i) => table[i] = rows[i]
        /\ \A i \in Ids : i >= nextId => table[i] = rows[i]
    BY PruneFacts
  <1>6. Insert(table, kind, "pending", "none", FALSE) BY <1>2
  <1> HIDE DEF table
  <1>. QED BY <1>1, <1>3, <1>4, <1>5, <1>6, InsertKeeps

\* A live operation ends, or is queued after an error.
LEMMA UserOpEndStep == ASSUME IInv, UserOpEnd PROVE IInv'
  <1>1. /\ up /\ wpc = "userop" /\ wpc' = "idle"
        /\ UNCHANGED <<up, firstPc, firstId, firstOut, todo, cur, wout, userOp>>
    BY DEF UserOpEnd, first
  <1>2. CASE UNCHANGED <<rows, nextId, auth, effects, credit>>
    BY <1>1, <1>2, NoRowChanges DEF history
  <1>3. ASSUME NEW hit \in BOOLEAN, NEW status \in {"pending", "dead"}, NEW err \in {"none", "failure"},
               Insert(rows, userOp, status, err, hit)
        PROVE  IInv'
    <2>1. rows \in [Ids -> Row] /\ nextId \in Nat /\ nextId <= MaxRows /\ firstOut \in Outcomes
          /\ firstPc \in {"none", "transport", "settle"}
      BY <1>1, BoundsAssumption DEF IInv, TypeOK, IdsInv
    <2>2. userOp \in AllKinds /\ userOp # "send" /\ err \in Errors
      BY <1>1, KindsAssumption DEF IInv, IdsInv, AllKinds, Errors
    <2>. QED BY <1>1, <1>3, <2>1, <2>2, InsertKeeps
  <1>. QED BY <1>2, <1>3 DEF UserOpEnd, durable, history

\* The preflight of a live operation prunes flag rows only.
LEMMA UserOpBeginStep == ASSUME IInv, NEW kind \in LocalKinds, UserOpBegin(kind) PROVE IInv'
  <1>1. /\ up /\ wpc = "idle" /\ wpc' = "userop" /\ userOp' = kind /\ wout' \in Outcomes
        /\ nextId <= MaxRows
        /\ UNCHANGED <<nextId, up, firstPc, firstId, firstOut, todo, cur, auth, effects, credit>>
    BY BoundsAssumption DEF UserOpBegin, IdFree, first, history, Outcomes, IInv, TypeOK
  <1>2. /\ rows' \in [Ids -> Row]
        /\ \A i \in Ids : rows'[i].kind = rows[i].kind /\ rows'[i].retry = rows[i].retry
        /\ \A i \in Ids : IsSend(i) => rows'[i] = rows[i]
        /\ \A i \in Ids : i >= nextId => rows'[i] = rows[i]
    <2>1. CASE rows' = rows BY <2>1 DEF IInv, TypeOK
    <2>2. CASE \E pruned \in SUBSET PendingFlags : rows' = Without(rows, pruned)
      BY <2>2, PruneFacts
    <2>. QED BY <2>1, <2>2 DEF UserOpBegin
  <1>3. \A i \in Ids : IsSend(i)' <=> IsSend(i) BY <1>2 DEF IsSend
  <1>4. TypeOK'
    BY <1>1, <1>2 DEF IInv, TypeOK
  <1>5. IdsInv'
    <2>1. \A i \in Ids : ~(i < nextId) => i >= nextId BY DEF Ids, IInv, TypeOK
    <2>. QED BY <1>1, <1>2, <2>1 DEF IInv, TypeOK, IdsInv, IsSend
  <1>6. AttemptInv' BY <1>1 DEF IInv, AttemptInv
  <1>7. RetryInv'
    <2>1. \A i \in Ids : IsSend(i)' /\ rows'[i].status = "sending" => rows'[i].retry < MaxRetries
      BY <1>2, <1>3 DEF IInv, RetryInv
    <2>2. \A e \in todo' : ~IsSend(e.id)' => rows'[e.id].retry = e.retry
      BY <1>1, <1>2, <1>3 DEF IInv, TypeOK, RetryInv, Entry
    <2>. QED BY <1>1, <2>1, <2>2 DEF IInv, RetryInv
  <1>8. CreditInv' BY <1>1, <1>3 DEF IInv, CreditInv
  <1>9. ClaimHeld' BY <1>1, <1>2, <1>3 DEF IInv, ClaimHeld, FirstOwns, WorkerOwns
  <1>10. PendingSendIsUndelivered' /\ DeadDeliveredIsFlagged'
    BY <1>1, <1>2, <1>3 DEF IInv, PendingSendIsUndelivered, DeadDeliveredIsFlagged
  <1>. QED BY <1>4, <1>5, <1>6, <1>7, <1>8, <1>9, <1>10 DEF IInv

\* The end of the snapshot changes no row.
LEMMA DrainDoneStep == ASSUME IInv, DrainDone PROVE IInv'
  BY NoRowChanges DEF DrainDone, durable, first, history

\* A crash forgets every attempt and keeps the table.
LEMMA CrashStep == ASSUME IInv, Crash PROVE IInv'
  <1>1. /\ up' = FALSE /\ firstPc' = "none" /\ firstId' = 0 /\ firstOut' = "ok"
        /\ wpc' = "idle" /\ todo' = {} /\ cur' = NoEntry /\ wout' = "ok" /\ userOp' = "none"
        /\ UNCHANGED <<rows, nextId, auth, effects, credit>>
    BY DEF Crash, durable, history
  <1>2. TypeOK' BY <1>1 DEF IInv, TypeOK, Outcomes
  <1>3. IdsInv' /\ AttemptInv' BY <1>1 DEF IInv, IdsInv, AttemptInv
  <1>4. RetryInv' /\ CreditInv' BY <1>1 DEF IInv, RetryInv, CreditInv, IsSend
  <1>5. ClaimHeld' /\ PendingSendIsUndelivered' /\ DeadDeliveredIsFlagged'
    BY <1>1 DEF IInv, ClaimHeld, PendingSendIsUndelivered, DeadDeliveredIsFlagged, FirstOwns, WorkerOwns, IsSend
  <1>. QED BY <1>2, <1>3, <1>4, <1>5 DEF IInv

\* Start-up quarantines what was being sent, or leaves it untouched.
LEMMA RestartStep == ASSUME IInv, Restart PROVE IInv'
  <1>1. /\ ~up /\ up' = TRUE /\ firstPc = "none" /\ wpc = "idle"
        /\ UNCHANGED <<nextId, firstPc, firstId, firstOut, wpc, todo, cur, wout, userOp, auth, effects, credit>>
    BY DEF Restart, first, worker, history, IInv, IdsInv
  <1>2. ASSUME NEW i \in Ids
        PROVE  /\ rows'[i] \in Row /\ rows'[i].kind = rows[i].kind /\ rows'[i].retry = rows[i].retry
               /\ \/ rows'[i] = rows[i]
                  \/ /\ IsSend(i) /\ rows'[i].status = "dead" /\ rows'[i].err = "unknown"
    <2>1. rows[i] \in Row BY DEF IInv, TypeOK
    <2>2. CASE rows'[i] = rows[i] BY <2>1, <2>2
    <2>3. CASE IsSend(i) /\ rows'[i] = quarantine_sending_send(rows[i])
      BY <2>1, <2>3 DEF quarantine_sending_send, Row, Statuses, Errors
    <2>. QED BY <2>2, <2>3 DEF Restart
  <1>3. rows' \in [Ids -> Row]
    <2>1. DOMAIN rows' = Ids /\ rows' = [i \in Ids |-> rows'[i]] BY DEF Restart, IInv, TypeOK
    <2>. QED BY <1>2, <2>1
  <1>4. \A i \in Ids : IsSend(i)' <=> IsSend(i) BY <1>2 DEF IsSend
  <1>5. TypeOK' BY <1>1, <1>3 DEF IInv, TypeOK
  <1>6. IdsInv'
    BY <1>1, <1>2 DEF IInv, TypeOK, IdsInv, IsSend
  <1>7. AttemptInv' BY <1>1 DEF AttemptInv
  <1>8. RetryInv'
    <2>1. \A i \in Ids : IsSend(i)' /\ rows'[i].status = "sending" => rows'[i].retry < MaxRetries
      BY <1>2, <1>4 DEF IInv, RetryInv
    <2>2. \A e \in todo' : ~IsSend(e.id)' => rows'[e.id].retry = e.retry
      BY <1>1, <1>2, <1>4 DEF IInv, TypeOK, RetryInv, Entry
    <2>. QED BY <1>1, <2>1, <2>2 DEF IInv, RetryInv
  <1>9. CreditInv' BY <1>1, <1>4 DEF IInv, CreditInv
  <1>10. ClaimHeld' BY <1>1 DEF ClaimHeld, FirstOwns, WorkerOwns
  <1>11. PendingSendIsUndelivered' /\ DeadDeliveredIsFlagged'
    BY <1>1, <1>2, <1>4 DEF IInv, PendingSendIsUndelivered, DeadDeliveredIsFlagged
  <1>. QED BY <1>5, <1>6, <1>7, <1>8, <1>9, <1>10, <1>11 DEF IInv

\* Rows left pending by an earlier run satisfy the invariant.
LEMMA InitEstablishes == Init => IInv
  <1> SUFFICES ASSUME Init PROVE IInv OBVIOUS
  <1>1. PICK legacy \in [1..Legacy -> LegacyRows] :
           rows = [i \in Ids |-> IF i \in 1..Legacy THEN legacy[i] ELSE NoRow]
    BY DEF Init
  <1>2. Legacy \in Nat /\ Legacy <= MaxRows /\ MaxRows \in Nat BY BoundsAssumption
  <1>3. NoRow \in Row /\ NoRow.kind = "none" /\ NoRow.status = "absent"
    BY BoundsAssumption DEF NoRow, Row, Statuses, Errors
  <1>4. \A i \in 1..Legacy : legacy[i] \in Row /\ legacy[i].kind \in AllKinds /\ legacy[i].status = "pending"
    <2>1. LegacyRows \subseteq [kind : AllKinds, status : {"pending"}, retry : 0..MaxRetries,
                                err : {"none"}, valid : BOOLEAN]
      <3>1. {"send"} \cup LocalKinds \subseteq AllKinds BY KindsAssumption DEF AllKinds
      <3>2. {0, MaxRetries} \subseteq 0..MaxRetries BY BoundsAssumption
      <3>. QED BY <3>1, <3>2 DEF LegacyRows
    <2>2. \A r \in [kind : AllKinds, status : {"pending"}, retry : 0..MaxRetries,
                    err : {"none"}, valid : BOOLEAN] :
             r \in Row /\ r.kind \in AllKinds /\ r.status = "pending"
      BY DEF Row, Statuses, Errors
    <2>. QED BY <2>1, <2>2
  <1>5. rows \in [Ids -> Row] BY <1>1, <1>3, <1>4
  <1>6. \A i \in Ids : IF i < nextId THEN rows[i].kind \in AllKinds /\ rows[i].status = "pending"
                        ELSE rows[i].kind = "none" /\ rows[i].status = "absent"
    <2>1. \A i \in Ids : i < nextId <=> i \in 1..Legacy BY <1>2 DEF Init, Ids
    <2>. QED BY <1>1, <1>3, <1>4, <2>1
  <1>7. TypeOK
    BY <1>5, BoundsAssumption DEF Init, TypeOK, Outcomes, NoEntry
  <1>8. IdsInv /\ AttemptInv
    BY <1>6 DEF Init, IdsInv, AttemptInv
  <1>9. RetryInv
    BY <1>6 DEF Init, RetryInv
  <1>10. CreditInv
    <2>1. \A i \in Ids : effects[i] = 0 /\ (i <= Legacy => auth[i] = 1) /\ (~(i <= Legacy) => auth[i] = 0)
      BY DEF Init
    <2>2. \A i \in Ids : credit[i] = (i <= Legacy) BY DEF Init
    <2>3. \A i \in Ids : IF credit[i] THEN i <= Legacy ELSE ~(i <= Legacy) BY <2>2
    <2>. QED BY <2>1, <2>3 DEF CreditInv
  <1>11. ClaimHeld BY DEF Init, ClaimHeld, FirstOwns, WorkerOwns
  <1>12. PendingSendIsUndelivered /\ DeadDeliveredIsFlagged
    <2>1. \A i \in Ids : i < nextId => i <= Legacy BY <1>2 DEF Init, Ids
    <2>2. \A i \in Ids : credit[i] = (i <= Legacy) BY DEF Init
    <2>3. \A i \in Ids : i < nextId => credit[i] BY <2>1, <2>2
    <2>. QED BY <1>6, <2>3 DEF PendingSendIsUndelivered, DeadDeliveredIsFlagged
  <1>. QED BY <1>7, <1>8, <1>9, <1>10, <1>11, <1>12 DEF IInv

\* Every step of the outbox, and stuttering, preserves the invariant.
THEOREM OutboxInductive == IInv /\ [Next]_vars => IInv'
  <1> SUFFICES ASSUME IInv, [Next]_vars PROVE IInv' OBVIOUS
  <1>1. CASE UNCHANGED vars
    BY <1>1, NoRowChanges DEF vars, history
  <1>2. CASE SendMessage \/ FirstAttempt
    BY <1>2, SendMessageStep, FirstTransportStep, FirstSettleStep DEF FirstAttempt
  <1>3. ASSUME NEW kind \in LocalKinds, UserOpBegin(kind) \/ QueueFailed(kind) PROVE IInv'
    BY <1>3, UserOpBeginStep, QueueFailedStep
  <1>4. CASE UserOpEnd BY <1>4, UserOpEndStep
  <1>5. CASE StartReplay BY <1>5, StartReplayStep
  <1>6. CASE Replay
    BY <1>6, ReplayExhaustedStep, ReplayInvalidStep, ReplayClaimStep, ReplayBeginStep,
       ReplayExecuteStep, SettleSendStep, SettleOtherStep, DrainDoneStep DEF Replay
  <1>7. ASSUME NEW id \in Ids, RetryDead(id) \/ Discard(id) PROVE IInv'
    BY <1>7, RetryDeadStep, DiscardStep
  <1>8. CASE Crash \/ Restart BY <1>8, CrashStep, RestartStep
  <1>. QED BY <1>1, <1>2, <1>3, <1>4, <1>5, <1>6, <1>7, <1>8 DEF Next

\* The inductive invariant holds in every reachable state.
THEOREM OutboxInvariant == Spec => []IInv
  BY InitEstablishes, OutboxInductive, PTL DEF Spec

\* Type correctness: in particular no retry count exceeds MAX_RETRIES and no
\* row id is ever out of the table.
THEOREM OutboxTypeCorrect == Spec => []TypeOK
  <1>1. IInv => TypeOK BY DEF IInv
  <1>. QED BY <1>1, OutboxInvariant, PTL

\* Delivery happens at most once per request of the user, for every number of
\* rows, retries and faults.
THEOREM OutboxAtMostOnce == Spec => []AtMostOnceDelivery
  <1>1. IInv => AtMostOnceDelivery
    <2> SUFFICES ASSUME IInv, NEW i \in Ids, IsSend(i) PROVE effects[i] <= auth[i]
      BY DEF AtMostOnceDelivery
    <2>1. effects[i] \in Nat /\ auth[i] \in Nat BY BoundsAssumption DEF IInv, TypeOK
    <2>2. effects[i] + (IF credit[i] THEN 1 ELSE 0) <= auth[i] BY DEF IInv, CreditInv
    <2>. QED BY <2>1, <2>2
  <1>. QED BY <1>1, OutboxInvariant, PTL

\* A transport runs only under its own claim.
THEOREM OutboxClaims == Spec => []ClaimHeld
  <1>1. IInv => ClaimHeld BY DEF IInv
  <1>. QED BY <1>1, OutboxInvariant, PTL

\* What the replay loop may pick up has not been delivered since the user asked.
THEOREM OutboxPendingUndelivered == Spec => []PendingSendIsUndelivered
  <1>1. IInv => PendingSendIsUndelivered BY DEF IInv
  <1>. QED BY <1>1, OutboxInvariant, PTL

\* A dead row whose message was delivered warns the user before a manual retry.
THEOREM OutboxDeadFlagged == Spec => []DeadDeliveredIsFlagged
  <1>1. IInv => DeadDeliveredIsFlagged BY DEF IInv
  <1>. QED BY <1>1, OutboxInvariant, PTL

-----------------------------------------------------------------------------
(* Claims: who may change a row that is being sent, and who still owns it.  *)

\* Only sends are ever sending; while no database write fails, a sending row of
\* a running process has an owner.
SendingInv ==
    \A i \in Ids : rows[i].status = "sending" =>
        /\ IsSend(i)
        /\ "db" \notin Faults /\ up => FirstOwns(i) \/ WorkerOwns(i)

\* A step that makes no row sending, and takes the owner of none that stays so.
LEMMA SendingKept ==
    ASSUME SendingInv, up' => up,
           \A i \in Ids : rows'[i].status = "sending" => rows'[i] = rows[i],
           \A i \in Ids : rows'[i].status = "sending" /\ (FirstOwns(i) \/ WorkerOwns(i))
                            => FirstOwns(i)' \/ WorkerOwns(i)'
    PROVE  SendingInv'
  BY DEF SendingInv, IsSend

\* Every step keeps sending rows sends, and owned.
LEMMA SendingStep == ASSUME IInv, SendingInv, [Next]_vars PROVE SendingInv'
  <1>0. rows \in [Ids -> Row] BY DEF IInv, TypeOK
  <1>1. ASSUME UNCHANGED <<rows, up, firstPc, firstId>>,
               \A i \in Ids : IsSend(i) /\ WorkerOwns(i) => WorkerOwns(i)'
        PROVE  SendingInv'
    BY <1>1 DEF SendingInv, IsSend, FirstOwns
  <1>2. ASSUME NEW x \in Ids, NEW r, rows' = [rows EXCEPT ![x] = r], r.status # "sending",
               UNCHANGED <<up, firstPc, firstId>>,
               \A i \in Ids \ {x} : WorkerOwns(i) => WorkerOwns(i)'
        PROVE  SendingInv'
    BY <1>0, <1>2, SendingKept DEF FirstOwns
  <1>3. ASSUME NEW table \in [Ids -> Row], nextId \in Ids,
               \A i \in Ids : table[i].status = "sending" => table[i] = rows[i],
               NEW kind, NEW status \in {"pending", "dead"}, NEW err, NEW hit,
               Insert(table, kind, status, err, hit), UNCHANGED <<up, firstPc, firstId>>,
               \A i \in Ids : WorkerOwns(i) => WorkerOwns(i)'
        PROVE  SendingInv'
    <2>1. \A i \in Ids : rows'[i].status = "sending" => rows'[i] = rows[i]
      BY <1>3 DEF Insert, NewRow
    <2>. QED BY <1>3, <2>1, SendingKept DEF FirstOwns
  <1>4. CASE SendMessage
    <2>1. nextId \in Ids
      BY <1>4, BoundsAssumption DEF SendMessage, IdFree, IInv, TypeOK, Ids
    <2>2. /\ rows'[nextId] = NewRow("send", "sending", "none")
          /\ firstPc' = "transport" /\ firstId' = nextId
          /\ \A i \in Ids \ {nextId} : rows'[i] = rows[i]
      BY <1>0, <1>4, <2>1 DEF SendMessage, Insert, FirstOwns
    <2>3. \A i \in Ids : (WorkerOwns(i) => WorkerOwns(i)') /\ ~FirstOwns(i)
      BY <1>4 DEF SendMessage, WorkerOwns, FirstOwns, worker
    <2>4. up' = up BY <1>4 DEF SendMessage
    <2>5. \A i \in Ids \ {nextId} : rows'[i].status = "sending" =>
             /\ rows'[i].kind = "send"
             /\ "db" \notin Faults /\ up' => FirstOwns(i)' \/ WorkerOwns(i)'
      BY <2>2, <2>3, <2>4 DEF SendingInv, IsSend
    <2>. QED BY <2>1, <2>2, <2>5 DEF SendingInv, IsSend, NewRow, FirstOwns
  <1>5. CASE FirstTransport
    BY <1>5 DEF FirstTransport, SendingInv, IsSend, FirstOwns, WorkerOwns, durable, worker
  <1>6. CASE FirstSettle
    <2>1. /\ firstId \in Ids /\ rows[firstId] \in Row /\ rows[firstId].retry < MaxRetries
          /\ rows[firstId].status = "sending" /\ firstOut \in Outcomes
      BY <1>0, <1>6 DEF FirstSettle, IInv, TypeOK, IdsInv, ClaimHeld, FirstOwns, RetryInv
    <2>2. SettledSend(rows[firstId], firstOut).status # "sending" BY <2>1, SettledSendFacts
    <2>3. /\ up' = up /\ \A i \in Ids : (WorkerOwns(i) => WorkerOwns(i)') /\ (FirstOwns(i) => i = firstId)
      BY <1>6 DEF FirstSettle, WorkerOwns, FirstOwns, worker
    <2>4. CASE rows' = [rows EXCEPT ![firstId] = SettledSend(@, firstOut)]
      BY <1>0, <2>1, <2>2, <2>3, <2>4, SendingKept
    <2>5. CASE rows' = rows /\ "db" \in Faults BY <2>3, <2>5 DEF SendingInv, IsSend
    <2>. QED BY <1>6, <2>1, <2>4, <2>5 DEF FirstSettle, DbResult
  <1>7. ASSUME NEW kind \in LocalKinds, UserOpBegin(kind) PROVE SendingInv'
    <2>1. /\ UNCHANGED <<up, firstPc, firstId>> /\ wpc = "idle"
      BY <1>7 DEF UserOpBegin, first
    <2>2. CASE rows' = rows BY <1>1, <2>1, <2>2 DEF WorkerOwns
    <2>3. CASE \E pruned \in SUBSET PendingFlags : rows' = Without(rows, pruned)
      <3>1. \A i \in Ids : rows'[i].status = "sending" => rows'[i] = rows[i]
        BY <1>0, <2>3 DEF Without, Row
      <3>. QED BY <2>1, <3>1, SendingKept DEF WorkerOwns, FirstOwns
    <2>. QED BY <1>7, <2>2, <2>3 DEF UserOpBegin
  <1>8. ASSUME NEW kind \in LocalKinds, QueueFailed(kind) PROVE SendingInv'
    <2>1. PICK pruned \in SUBSET PendingFlags :
             Insert(Without(rows, pruned), kind, "pending", "none", FALSE)
      BY <1>8 DEF QueueFailed
    <2>2. nextId \in Ids
      BY <1>8, BoundsAssumption DEF QueueFailed, IdFree, IInv, TypeOK, Ids
    <2>3. /\ Without(rows, pruned) \in [Ids -> Row]
          /\ \A i \in Ids : Without(rows, pruned)[i].status = "sending"
                             => Without(rows, pruned)[i] = rows[i]
      BY <1>0 DEF Without, Row, Statuses
    <2>4. UNCHANGED <<up, firstPc, firstId>> /\ \A i \in Ids : WorkerOwns(i) => WorkerOwns(i)'
      BY <1>8 DEF QueueFailed, first, worker, WorkerOwns
    <2>. QED BY <1>3, <2>1, <2>2, <2>3, <2>4
  <1>9. CASE UserOpEnd
    <2>1. UNCHANGED <<up, firstPc, firstId>> /\ wpc = "userop" /\ nextId \in Ids
      BY <1>9, BoundsAssumption DEF UserOpEnd, first, IInv, TypeOK, IdsInv, Ids
    <2>2. CASE UNCHANGED durable BY <1>1, <2>1, <2>2 DEF WorkerOwns, durable
    <2>3. ASSUME NEW hit \in BOOLEAN, NEW status \in {"pending", "dead"}, NEW err,
                 Insert(rows, userOp, status, err, hit)
          PROVE  SendingInv'
      BY <1>0, <1>3, <2>1, <2>3 DEF WorkerOwns
    <2>. QED BY <1>9, <2>2, <2>3 DEF UserOpEnd
  <1>10. CASE StartReplay \/ DrainDone \/ ReplayExecute \/ UNCHANGED vars
    BY <1>1, <1>10 DEF StartReplay, DrainDone, ReplayExecute, vars, durable, first, WorkerOwns
  <1>11. ASSUME NEW e \in todo, ReplayExhausted(e) \/ ReplayInvalid(e) PROVE SendingInv'
    <2>1. e.id \in Ids /\ rows[e.id] \in Row BY <1>11, EntryFacts DEF ReplayExhausted, ReplayInvalid
    <2>2. UNCHANGED <<up, firstPc, firstId>> /\ wpc = "drain"
      BY <1>11 DEF ReplayExhausted, ReplayInvalid, NextEntry, first
    <2>3. CASE rows' = rows BY <1>1, <2>2, <2>3 DEF WorkerOwns
    <2>4. ASSUME NEW r \in {exhaust_pending_send(rows[e.id]), mark_dead(rows[e.id]),
                             mark_dead_with_error(rows[e.id])},
                 rows' = [rows EXCEPT ![e.id] = r]
          PROVE  SendingInv'
      <3>1. r.status = "dead"
        BY <2>1, <2>4 DEF exhaust_pending_send, mark_dead, mark_dead_with_error, Row
      <3>. QED BY <1>2, <2>1, <2>2, <2>4, <3>1 DEF WorkerOwns
    <2>. QED BY <1>11, <2>3, <2>4 DEF ReplayExhausted, ReplayInvalid, UpdateIfPresent
  <1>12. ASSUME NEW e \in todo, ReplayClaim(e) PROVE SendingInv'
    <2>1. e.id \in Ids /\ rows[e.id] \in Row BY <1>12, EntryFacts DEF ReplayClaim
    <2>2. UNCHANGED <<up, firstPc, firstId>> /\ wpc = "drain"
      BY <1>12 DEF ReplayClaim, NextEntry, first
    <2>3. CASE rows' = rows BY <1>1, <2>2, <2>3 DEF WorkerOwns
    <2>4. CASE rows' = [rows EXCEPT ![e.id].status = "sending"] /\ wpc' = "execute" /\ cur' = e
      <3>1. rows'[e.id].kind = "send" /\ \A i \in Ids \ {e.id} : rows'[i] = rows[i]
        BY <1>0, <1>12, <2>1, <2>4 DEF ReplayClaim, IsSend, Row
      <3>. QED BY <2>1, <2>2, <2>4, <3>1 DEF SendingInv, IsSend, WorkerOwns, FirstOwns
    <2>. QED BY <1>12, <2>3, <2>4 DEF ReplayClaim
  <1>13. ASSUME NEW e \in todo, ReplayBegin(e) PROVE SendingInv'
    BY <1>1, <1>13 DEF ReplayBegin, NextEntry, durable, first, WorkerOwns
  <1>14. CASE SettleSend
    <2>1. cur.id \in Ids /\ rows[cur.id] \in Row /\ rows[cur.id].retry < MaxRetries /\ wout \in Outcomes
      BY <1>14, SettleFacts DEF SettleSend
    <2>2. SettledSend(rows[cur.id], wout).status # "sending" BY <2>1, SettledSendFacts
    <2>3. /\ UNCHANGED <<up, firstPc, firstId>> /\ rows[cur.id].status = "sending"
          /\ \A i \in Ids : WorkerOwns(i) => i = cur.id
      BY <1>14, <2>1 DEF SettleSend, first, WorkerOwns, IInv, ClaimHeld
    <2>4. CASE rows' = [rows EXCEPT ![cur.id] = SettledSend(@, wout)]
      BY <1>2, <2>1, <2>2, <2>3, <2>4
    <2>5. CASE rows' = rows /\ "db" \in Faults BY <2>3, <2>5 DEF SendingInv, IsSend
    <2>. QED BY <1>14, <2>3, <2>4, <2>5 DEF SettleSend, DbResult
  <1>15. CASE SettleOther
    <2>1. cur.id \in Ids /\ rows[cur.id] \in Row /\ rows[cur.id].status # "sending"
      BY <1>15, SettleFacts DEF SettleOther, SendingInv
    <2>2. UNCHANGED <<up, firstPc, firstId>> /\ \A i \in Ids : IsSend(i) => ~WorkerOwns(i)
      BY <1>15 DEF SettleOther, first, WorkerOwns
    <2>3. CASE rows' = rows BY <1>1, <2>2, <2>3
    <2>4. ASSUME NEW r \in {mark_completed(rows[cur.id]), mark_failed(rows[cur.id]),
                             mark_dead_with_error(rows[cur.id])},
                 rows' = [rows EXCEPT ![cur.id] = r]
          PROVE  SendingInv'
      <3>1. r.status # "sending"
        BY <2>1, <2>4 DEF mark_completed, mark_failed, mark_dead_with_error, Row
      <3>2. \A i \in Ids \ {cur.id} : ~WorkerOwns(i) BY <1>15 DEF WorkerOwns
      <3>. QED BY <1>2, <2>1, <2>2, <2>4, <3>1, <3>2
    <2>. QED BY <1>15, <2>3, <2>4 DEF SettleOther, UpdateIfPresent
  <1>16. ASSUME NEW x \in Ids, RetryDead(x) \/ Discard(x) PROVE SendingInv'
    <2>1. \A i \in Ids : rows'[i].status = "sending" => rows'[i] = rows[i]
      BY <1>0, <1>16 DEF RetryDead, Discard, Row
    <2>2. UNCHANGED <<up, firstPc, firstId, wpc, cur>>
      BY <1>16 DEF RetryDead, Discard, first, worker
    <2>. QED BY <2>1, <2>2, SendingKept DEF FirstOwns, WorkerOwns
  <1>17. CASE Crash BY <1>17 DEF Crash, SendingInv, IsSend, durable
  <1>18. CASE Restart
    <2>1. CASE rows' = rows /\ "db" \in Faults BY <2>1 DEF SendingInv, IsSend
    <2>2. CASE rows' = [i \in Ids |-> IF IsSend(i) /\ rows[i].status = "sending"
                                       THEN quarantine_sending_send(rows[i]) ELSE rows[i]]
      <3>1. \A i \in Ids : quarantine_sending_send(rows[i]).status = "dead"
        BY <1>0 DEF quarantine_sending_send, Row
      <3>. QED BY <2>2, <3>1 DEF SendingInv, IsSend
    <2>. QED BY <1>18, <2>1, <2>2 DEF Restart, DbResult
  <1>. QED
    BY <1>4, <1>5, <1>6, <1>7, <1>8, <1>9, <1>10, <1>11, <1>12, <1>13, <1>14, <1>15, <1>16,
       <1>17, <1>18 DEF Next, FirstAttempt, Replay

\* No outbox row is left sending without an owner while database writes succeed.
LEMMA SendingInvariant == Spec => []SendingInv
  <1>1. Init => SendingInv
    <2> SUFFICES ASSUME Init, NEW i \in Ids PROVE rows[i].status # "sending" BY DEF SendingInv
    <2>1. PICK legacy \in [1..Legacy -> LegacyRows] :
             rows = [j \in Ids |-> IF j \in 1..Legacy THEN legacy[j] ELSE NoRow]
      BY DEF Init
    <2>. QED BY <2>1 DEF LegacyRows, NoRow
  <1>2. IInv /\ SendingInv /\ [Next]_vars => SendingInv' BY SendingStep
  <1>. QED BY <1>1, <1>2, OutboxInvariant, PTL DEF Spec

\* A sending row of a running process always has an owner that will settle it.
THEOREM OutboxNoStranded == Spec => []NoStrandedSend
  <1>1. SendingInv => NoStrandedSend BY DEF SendingInv, NoStrandedSend
  <1>. QED BY <1>1, SendingInvariant, PTL

\* A claimed row is changed only by its owner's durable transition or at start-up.
THEOREM OutboxClaimProtects == Spec => ClaimProtectsRow
  <1> DEFINE Protected(i) == rows[i].status = "sending" /\ rows'[i] # rows[i]
                               => \/ FirstOwns(i) /\ firstPc = "settle"
                                  \/ WorkerOwns(i) /\ wpc = "settle"
                                  \/ ~up
  <1>1. ASSUME IInv, SendingInv, [Next]_vars, NEW i \in Ids PROVE Protected(i)
    <2>0. rows \in [Ids -> Row] BY <1>1 DEF IInv, TypeOK
    <2>1. ASSUME rows' = rows PROVE Protected(i) BY <2>1
    <2>2. ASSUME nextId \in Ids, NEW table \in [Ids -> Row], \A j \in Ids : rows[j].status = "sending" => table[j] = rows[j],
                 NEW kind, NEW status, NEW err, NEW hit, Insert(table, kind, status, err, hit)
          PROVE  Protected(i)
      <3>1. rows[nextId].status = "absent" BY <1>1, <2>2, BoundsAssumption DEF IInv, TypeOK, IdsInv, Ids
      <3>. QED BY <2>2, <3>1 DEF Insert
    <2>3. ASSUME NEW pruned \in SUBSET PendingFlags
          PROVE  /\ Without(rows, pruned) \in [Ids -> Row]
                 /\ \A j \in Ids : rows[j].status = "sending" => Without(rows, pruned)[j] = rows[j]
      BY <2>0, <2>3 DEF Without, PendingFlags, Row, Statuses
    <2>4. CASE SendMessage
      <3>1. nextId \in Ids BY <1>1, <2>4, BoundsAssumption DEF SendMessage, IdFree, IInv, TypeOK, Ids
      <3>. QED BY <2>0, <2>2, <2>4, <3>1 DEF SendMessage
    <2>5. CASE FirstTransport \/ ReplayExecute \/ StartReplay \/ DrainDone \/ Crash \/ UNCHANGED vars
      BY <2>1, <2>5 DEF FirstTransport, ReplayExecute, StartReplay, DrainDone, Crash, vars, durable
    <2>6. CASE FirstSettle BY <2>0, <2>6 DEF FirstSettle, FirstOwns
    <2>7. ASSUME NEW kind \in LocalKinds, UserOpBegin(kind) PROVE Protected(i)
      BY <2>1, <2>3, <2>7 DEF UserOpBegin
    <2>8. ASSUME NEW kind \in LocalKinds, QueueFailed(kind) PROVE Protected(i)
      <3>1. nextId \in Ids BY <1>1, <2>8, BoundsAssumption DEF QueueFailed, IdFree, IInv, TypeOK, Ids
      <3>. QED BY <2>2, <2>3, <2>8, <3>1 DEF QueueFailed
    <2>9. CASE UserOpEnd
      <3>1. nextId \in Ids BY <1>1, <2>9, BoundsAssumption DEF UserOpEnd, IInv, TypeOK, IdsInv, Ids
      <3>. QED BY <2>0, <2>1, <2>2, <2>9, <3>1 DEF UserOpEnd, durable
    <2>10. ASSUME NEW e \in todo, ReplayExhausted(e) \/ ReplayInvalid(e) \/ ReplayClaim(e) PROVE Protected(i)
      <3>1. rows' # rows => rows[e.id].status # "sending"
        <4>1. e.id \in Ids BY <1>1, <2>10, EntryFacts DEF ReplayExhausted, ReplayInvalid, ReplayClaim
        <4>. QED BY <1>1, <2>10, <4>1 DEF SendingInv, ReplayExhausted, ReplayInvalid, ReplayClaim,
                claim_pending_send_matches
      <3>. QED BY <2>0, <2>10, <3>1 DEF ReplayExhausted, ReplayInvalid, ReplayClaim, UpdateIfPresent
    <2>11. ASSUME NEW e \in todo, ReplayBegin(e) PROVE Protected(i)
      BY <2>1, <2>11 DEF ReplayBegin, durable
    <2>12. CASE SettleSend \/ SettleOther
      BY <2>0, <2>12 DEF SettleSend, SettleOther, UpdateIfPresent, WorkerOwns
    <2>13. ASSUME NEW x \in Ids, RetryDead(x) \/ Discard(x) PROVE Protected(i)
      BY <2>0, <2>13 DEF RetryDead, Discard
    <2>14. CASE Restart BY <2>14 DEF Restart
    <2>. QED
      BY <1>1, <2>4, <2>5, <2>6, <2>7, <2>8, <2>9, <2>10, <2>11, <2>12, <2>13, <2>14
      DEF Next, FirstAttempt, Replay
  <1>2. IInv /\ SendingInv /\ [Next]_vars => [\A i \in Ids : Protected(i)]_vars BY <1>1
  <1>. QED BY <1>2, OutboxInvariant, SendingInvariant, PTL DEF Spec, ClaimProtectsRow

-----------------------------------------------------------------------------
(* A copy is not idempotent.                                                *)

\* Row i is still to be executed: in the table, in the snapshot or in hand.
ToExecute(i) ==
    \/ rows[i].status = "pending" /\ ~(WorkerOwns(i) /\ wpc = "settle")
    \/ \E e \in todo : e.id = i
    \/ WorkerOwns(i) /\ wpc = "execute"

\* A copy that is still to be executed has had no effect.
CopyOK(i) ==
    rows[i].kind = "copy" => effects[i] <= 1 /\ (ToExecute(i) => effects[i] = 0)
CopyInv == \A i \in Ids : CopyOK(i)

\* No step executes a copy again, as long as nothing is lost on the way.
LEMMA CopyStep ==
    ASSUME Faults = {}, IInv, CopyInv, [Next]_vars, NEW i \in Ids
    PROVE  CopyOK(i)'
  <1>0. /\ rows \in [Ids -> Row] /\ CopyOK(i) /\ DbResult = {TRUE}
        /\ rows[i].kind = "copy" => ~IsSend(i)
    BY DEF IInv, TypeOK, CopyInv, DbResult, IsSend
  <1>1. ASSUME rows'[i].kind = rows[i].kind, effects' = effects, ToExecute(i)' => ToExecute(i)
        PROVE  CopyOK(i)'
    BY <1>0, <1>1 DEF CopyOK
  <1>2. ASSUME nextId \in Ids, NEW table \in [Ids -> Row],
               \A j \in Ids : table[j].kind = "copy" => table[j] = rows[j],
               NEW kind, NEW status, NEW err, NEW hit \in BOOLEAN, Insert(table, kind, status, err, hit),
               kind = "copy" => ~hit \/ status = "dead",
               todo' = todo, WorkerOwns(i)' <=> WorkerOwns(i), WorkerOwns(i) => wpc' = wpc
        PROVE  CopyOK(i)'
    <2>1. CASE i = nextId
      <3>1. rows'[i] = NewRow(kind, status, err) /\ effects'[i] = (IF hit THEN 1 ELSE 0)
        BY <1>2, <2>1 DEF Insert, IInv, TypeOK
      <3>2. ~WorkerOwns(i) /\ \A e \in todo : e.id # i
        BY <1>2, <2>1 DEF IInv, TypeOK, IdsInv, WorkerOwns, Ids
      <3>. QED BY <1>2, <3>1, <3>2 DEF CopyOK, ToExecute, NewRow
    <2>2. CASE i # nextId
      <3>1. rows'[i] = table[i] /\ effects'[i] = effects[i]
        BY <1>2, <2>2 DEF Insert, IInv, TypeOK
      <3>. QED BY <1>0, <1>2, <3>1 DEF CopyOK, ToExecute
    <2>. QED BY <2>1, <2>2
  <1>5. CASE SendMessage
    <2>1. nextId \in Ids BY <1>5, BoundsAssumption DEF SendMessage, IdFree, IInv, TypeOK, Ids
    <2>2. Insert(rows, "send", "sending", "none", FALSE) /\ todo' = todo /\ wpc' = wpc /\ cur' = cur
      BY <1>5 DEF SendMessage, worker
    <2>3. WorkerOwns(i)' <=> WorkerOwns(i) BY <2>2 DEF WorkerOwns
    <2>. QED BY <1>0, <1>2, <2>1, <2>2, <2>3
  <1>6. CASE FirstTransport
    <2>1. rows[i].kind = "copy" => firstId # i
      BY <1>0, <1>6 DEF FirstTransport, IInv, IdsInv, IsSend
    <2>2. effects'[i] = effects[i] \/ firstId = i
      BY <1>6 DEF FirstTransport, Observe, IInv, TypeOK
    <2>. QED BY <1>0, <1>6, <2>1, <2>2 DEF FirstTransport, durable, worker, CopyOK, ToExecute, WorkerOwns
  <1>7. CASE FirstSettle
    <2>1. firstId \in Ids /\ IsSend(firstId) /\ rows[firstId].status = "sending"
          /\ rows[firstId].retry < MaxRetries /\ firstOut \in Outcomes
      BY <1>7 DEF FirstSettle, IInv, TypeOK, IdsInv, ClaimHeld, FirstOwns, RetryInv
    <2>2. SettledSend(rows[firstId], firstOut).kind = rows[firstId].kind
      BY <1>0, <2>1, SettledSendFacts
    <2>3. rows' = [rows EXCEPT ![firstId] = SettledSend(@, firstOut)]
      BY <1>0, <1>7, <2>1 DEF FirstSettle
    <2>4. UNCHANGED <<effects, todo, wpc, cur>> BY <1>7 DEF FirstSettle, worker, history
    <2>. QED BY <1>0, <2>1, <2>2, <2>3, <2>4 DEF CopyOK, ToExecute, WorkerOwns, IsSend
  <1>8. ASSUME NEW kind \in LocalKinds, UserOpBegin(kind) PROVE CopyOK(i)'
    <2>1. wpc = "idle" /\ wpc' = "userop" /\ UNCHANGED <<effects, todo>>
      BY <1>8 DEF UserOpBegin, history
    <2>2. rows'[i].kind = rows[i].kind /\ (rows[i].kind = "copy" => rows'[i] = rows[i])
      <3>1. CASE rows' = rows BY <3>1
      <3>2. CASE \E pruned \in SUBSET PendingFlags : rows' = Without(rows, pruned) BY <3>2, PruneFacts
      <3>. QED BY <1>8, <3>1, <3>2 DEF UserOpBegin
    <2>. QED BY <1>0, <2>1, <2>2 DEF CopyOK, ToExecute, WorkerOwns
  <1>9. ASSUME NEW kind \in LocalKinds, QueueFailed(kind) PROVE CopyOK(i)'
    <2>1. nextId \in Ids BY <1>9, BoundsAssumption DEF QueueFailed, IdFree, IInv, TypeOK, Ids
    <2>2. PICK pruned \in SUBSET PendingFlags :
             Insert(Without(rows, pruned), kind, "pending", "none", FALSE)
      BY <1>9 DEF QueueFailed
    <2>3. todo' = todo /\ wpc' = wpc /\ cur' = cur BY <1>9 DEF QueueFailed, worker
    <2>4. WorkerOwns(i)' <=> WorkerOwns(i) BY <2>3 DEF WorkerOwns
    <2> DEFINE table == Without(rows, pruned)
    <2>5. table \in [Ids -> Row] /\ \A j \in Ids : table[j].kind = "copy" => table[j] = rows[j]
      BY PruneFacts
    <2>6. Insert(table, kind, "pending", "none", FALSE) BY <2>2
    <2> HIDE DEF table
    <2>. QED BY <1>2, <2>1, <2>3, <2>4, <2>5, <2>6
  <1>10. CASE UserOpEnd
    <2>1. /\ nextId \in Ids /\ todo' = todo /\ wpc = "userop" /\ wpc' = "idle"
      BY <1>10, BoundsAssumption DEF UserOpEnd, IInv, TypeOK, IdsInv, Ids
    <2>2. ~WorkerOwns(i) /\ ~WorkerOwns(i)' BY <2>1 DEF WorkerOwns
    <2>3. CASE UNCHANGED <<durable, history>>
      BY <1>1, <2>1, <2>2, <2>3 DEF durable, history, ToExecute
    <2>4. CASE \E hit \in BOOLEAN :
                 Insert(rows, userOp,
                        IF can_retry_after_execution_failure(userOp) THEN "pending" ELSE "dead",
                        IF can_retry_after_execution_failure(userOp) THEN "none" ELSE "failure", hit)
      BY <1>0, <1>2, <2>1, <2>2, <2>4 DEF can_retry_after_execution_failure
    <2>. QED BY <1>0, <1>10, <2>3, <2>4 DEF UserOpEnd
  <1>11. CASE StartReplay
    BY <1>1, <1>11 DEF StartReplay, durable, history, ToExecute, WorkerOwns
  <1>12. CASE DrainDone \/ UNCHANGED vars
    BY <1>1, <1>12 DEF DrainDone, vars, durable, history, ToExecute, WorkerOwns
  <1>13. ASSUME NEW e \in todo, ReplayExhausted(e) \/ ReplayInvalid(e) PROVE CopyOK(i)'
    <2>1. /\ wpc = "drain" /\ wpc' \in {"idle", "drain"} /\ todo' \subseteq todo /\ effects' = effects
      BY <1>13 DEF ReplayExhausted, ReplayInvalid, NextEntry, Continue, Break, history
    <2>2. /\ rows'[i].kind = rows[i].kind
          /\ rows'[i].status = "pending" => rows[i].status = "pending"
      <3>1. e.id \in Ids /\ rows[e.id] \in Row BY <1>13, EntryFacts DEF ReplayExhausted, ReplayInvalid
      <3>2. CASE rows' = rows BY <3>2
      <3>3. ASSUME NEW r \in {exhaust_pending_send(rows[e.id]), mark_dead(rows[e.id]),
                               mark_dead_with_error(rows[e.id])},
                   rows' = [rows EXCEPT ![e.id] = r]
            PROVE  /\ rows'[i].kind = rows[i].kind
                   /\ rows'[i].status = "pending" => rows[i].status = "pending"
        <4>1. r.kind = rows[e.id].kind /\ r.status = "dead"
          BY <3>1, <3>3 DEF exhaust_pending_send, mark_dead, mark_dead_with_error, Row
        <4>. QED BY <1>0, <3>1, <3>3, <4>1
      <3>. QED BY <1>13, <3>2, <3>3 DEF ReplayExhausted, ReplayInvalid, UpdateIfPresent
    <2>. QED BY <1>1, <2>1, <2>2 DEF ToExecute, WorkerOwns
  <1>14. ASSUME NEW e \in todo, ReplayClaim(e) \/ ReplayBegin(e) PROVE CopyOK(i)'
    <2>1. /\ wpc = "drain" /\ wpc' \in {"idle", "drain", "execute"} /\ todo' \subseteq todo
          /\ effects' = effects /\ (wpc' = "execute" => cur' = e)
      BY <1>14 DEF ReplayClaim, ReplayBegin, NextEntry, Continue, Break, history
    <2>2. /\ rows'[i].kind = rows[i].kind
          /\ rows'[i].status = "pending" => rows[i].status = "pending"
      BY <1>0, <1>14 DEF ReplayClaim, ReplayBegin, durable, Row
    <2>. QED BY <1>1, <2>1, <2>2 DEF ToExecute, WorkerOwns
  <1>15. CASE ReplayExecute
    <2>1. /\ wpc = "execute" /\ wpc' = "settle" /\ UNCHANGED <<rows, todo, cur>>
      BY <1>15 DEF ReplayExecute, durable
    <2>2. CASE cur.id = i
      <3>1. WorkerOwns(i) /\ WorkerOwns(i)' /\ \A e \in todo : e.id # i
        BY <2>1, <2>2 DEF WorkerOwns, IInv, RetryInv
      <3>2. effects'[i] \in {effects[i], Bump(effects[i])} /\ effects[i] \in Nat
        BY <1>15, <2>2, BoundsAssumption DEF ReplayExecute, Observe, IInv, TypeOK
      <3>. QED BY <1>0, <2>1, <3>1, <3>2 DEF CopyOK, ToExecute, Bump
    <2>3. CASE cur.id # i
      <3>1. effects'[i] = effects[i] BY <1>15, <2>3 DEF ReplayExecute, Observe, IInv, TypeOK
      <3>. QED BY <1>0, <2>1, <2>3, <3>1 DEF CopyOK, ToExecute, WorkerOwns
    <2>. QED BY <2>2, <2>3
  <1>16. CASE SettleSend
    <2>1. cur.id \in Ids /\ rows[cur.id] \in Row /\ rows[cur.id].retry < MaxRetries /\ wout \in Outcomes
      BY <1>16, SettleFacts DEF SettleSend
    <2>2. SettledSend(rows[cur.id], wout).kind = rows[cur.id].kind BY <2>1, SettledSendFacts
    <2>3. /\ rows' = rows \/ rows' = [rows EXCEPT ![cur.id] = SettledSend(@, wout)]
          /\ wpc' \in {"idle", "drain"} /\ todo' \subseteq todo /\ effects' = effects
          /\ wpc = "settle" /\ IsSend(cur.id)
      BY <1>16 DEF SettleSend, Continue, Break, history
    <2>. QED BY <1>0, <2>1, <2>2, <2>3 DEF CopyOK, ToExecute, WorkerOwns, IsSend
  <1>17. CASE SettleOther
    <2>1. cur.id \in Ids /\ rows[cur.id] \in Row BY <1>17, SettleFacts DEF SettleOther
    <2>2. /\ wpc = "settle" /\ wpc' \in {"idle", "drain"} /\ todo' \subseteq todo /\ effects' = effects
      BY <1>17 DEF SettleOther, Continue, Break, history
    <2>3. rows'[i].kind = rows[i].kind /\ (cur.id # i => rows'[i] = rows[i])
      BY <1>0, <1>17, <2>1 DEF SettleOther, UpdateIfPresent, mark_completed, mark_failed,
         mark_dead_with_error, Row
    <2>4. cur.id = i /\ rows[i].kind = "copy" =>
             rows'[i].status # "pending" /\ \A e \in todo : e.id # i
      BY <1>0, <1>17, <2>1, <2>2 DEF SettleOther, UpdateIfPresent, mark_completed, mark_failed, Present,
         mark_dead_with_error, can_retry_after_execution_failure, Row, IInv, RetryInv
    <2>. QED BY <1>0, <2>2, <2>3, <2>4 DEF CopyOK, ToExecute, WorkerOwns
  <1>18. ASSUME NEW x \in Ids, RetryDead(x) \/ Discard(x) PROVE CopyOK(i)'
    <2>1. /\ rows'[i].kind = rows[i].kind /\ (rows[i].kind = "copy" => rows'[i] = rows[i])
          /\ UNCHANGED <<effects, todo, wpc, cur>>
      BY <1>0, <1>18 DEF RetryDead, Discard, IsSend, Row, history, worker
    <2>. QED BY <1>0, <2>1 DEF CopyOK, ToExecute, WorkerOwns
  <1>19. CASE Crash \/ Restart
    <2>1. ~Crash BY DEF Crash
    <2>2. /\ rows'[i].kind = rows[i].kind /\ (rows[i].kind = "copy" => rows'[i] = rows[i])
          /\ UNCHANGED <<effects, todo, wpc, cur>>
      BY <1>0, <1>19, <2>1 DEF Restart, IsSend, quarantine_sending_send, Row, history, worker
    <2>. QED BY <1>0, <2>2 DEF CopyOK, ToExecute, WorkerOwns
  <1>. QED
    BY <1>5, <1>6, <1>7, <1>8, <1>9, <1>10, <1>11, <1>12, <1>13, <1>14, <1>15, <1>16,
       <1>17, <1>18, <1>19 DEF Next, FirstAttempt, Replay

\* Without crashes and failed database writes a copy takes effect at most once,
\* however many rows there are and whatever the server answers.
THEOREM OutboxCopyOnce ==
    ASSUME Faults = {}
    PROVE  Spec => []CopyAtMostOnce
  <1>1. Init => CopyInv
    BY BoundsAssumption DEF Init, CopyInv, CopyOK, ToExecute
  <1>2. IInv /\ CopyInv /\ [Next]_vars => CopyInv' BY CopyStep DEF CopyInv
  <1>3. CopyInv => CopyAtMostOnce BY DEF CopyInv, CopyOK, CopyAtMostOnce
  <1>. QED BY <1>1, <1>2, <1>3, OutboxInvariant, PTL DEF Spec

-----------------------------------------------------------------------------
(* The outbox implements Delivery.                                          *)

AbstractCredit == [i \in Ids |-> IsSend(i) /\ credit[i]]
AbstractCount == [i \in Ids |-> IF IsSend(i) THEN effects[i] ELSE 0]

\* A step that neither inserts a row, nor removes a send, nor touches a send's
\* history is a stutter of Delivery.
LEMMA DeliveryStutters ==
    ASSUME nextId' = nextId,
           \A i \in Ids : rows'[i].kind = rows[i].kind,
           \A i \in Ids : IsSend(i) => (rows'[i].status = "absent" <=> rows[i].status = "absent"),
           UNCHANGED history
    PROVE  UNCHANGED D!vars
  <1>1. MsgState' = MsgState BY DEF MsgState, IsSend, Present
  <1>2. AbstractCredit' = AbstractCredit BY DEF AbstractCredit, IsSend, history
  <1>3. AbstractCount' = AbstractCount BY DEF AbstractCount, IsSend, history
  <1>. QED BY <1>1, <1>2, <1>3 DEF D!vars, AbstractCredit, AbstractCount

\* The same for a step that rewrites one row and leaves it in the table.
LEMMA RowRewriteStutters ==
    ASSUME IInv, NEW x \in Ids, NEW r, rows' = [rows EXCEPT ![x] = r], r.kind = rows[x].kind,
           IsSend(x) => rows[x].status # "absent" /\ r.status # "absent",
           nextId' = nextId, UNCHANGED history
    PROVE  UNCHANGED D!vars
  <1>1. rows \in [Ids -> Row] BY DEF IInv, TypeOK
  <1>. QED BY <1>1, DeliveryStutters

\* Removing a send's row, and nothing else, closes its message.
LEMMA RemovalCloses ==
    ASSUME IInv, NEW x \in Ids, NEW r, rows' = [rows EXCEPT ![x] = r], r.kind = rows[x].kind,
           IsSend(x), rows[x].status # "absent", r.status = "absent",
           nextId' = nextId, UNCHANGED history
    PROVE  D!Close(x)
  <1>1. rows \in [Ids -> Row] /\ x < nextId
    BY DEF IInv, TypeOK, IdsInv, IsSend
  <1>2. ~(x >= nextId) BY <1>1 DEF IInv, TypeOK, Ids
  <1>3. MsgState[x] = "open" BY <1>2 DEF MsgState, Present
  <1>4. MsgState' = [MsgState EXCEPT ![x] = "closed"]
    BY <1>1, <1>2 DEF MsgState, Present, IsSend
  <1>5. AbstractCredit' = AbstractCredit /\ AbstractCount' = AbstractCount
    BY <1>1 DEF AbstractCredit, AbstractCount, IsSend, history
  <1>. QED BY <1>3, <1>4, <1>5 DEF D!Close, AbstractCredit, AbstractCount

\* The remote effect of an attempt is a delivery paid for by a request.
LEMMA ObserveDelivers ==
    ASSUME IInv, NEW x \in Ids, NEW hit \in BOOLEAN, Observe(x, hit), UNCHANGED <<rows, nextId>>,
           IsSend(x) => rows[x].status = "sending" /\ credit[x]
    PROVE  UNCHANGED D!vars \/ D!Deliver(x)
  <1>0. /\ rows \in [Ids -> Row] /\ credit \in [Ids -> BOOLEAN] /\ effects \in [Ids -> 0..EffectCap]
    BY DEF IInv, TypeOK
  <1>1. MsgState' = MsgState BY DEF MsgState, IsSend, Present
  <1>2. CASE ~hit
    BY <1>2, DeliveryStutters DEF Observe, history
  <1>3. CASE ~IsSend(x)
    <2>1. AbstractCredit' = AbstractCredit
      BY <1>0, <1>3 DEF AbstractCredit, IsSend, Observe
    <2>2. AbstractCount' = AbstractCount
      BY <1>0, <1>3 DEF AbstractCount, IsSend, Observe
    <2>. QED BY <1>1, <2>1, <2>2 DEF D!vars, AbstractCredit, AbstractCount
  <1>4. CASE IsSend(x) /\ hit
    <2>1. x < nextId BY <1>4 DEF IInv, TypeOK, IdsInv, IsSend
    <2>2. MsgState[x] = "open" /\ AbstractCredit[x]
      BY <1>4, <2>1 DEF MsgState, AbstractCredit, Present, IInv, TypeOK, Ids
    <2>3. effects[x] < EffectCap
      <3>1. effects[x] \in Nat /\ auth[x] \in Nat /\ auth[x] <= MaxManual + 1
        BY BoundsAssumption DEF IInv, TypeOK
      <3>2. effects[x] + 1 <= auth[x] BY <1>4 DEF IInv, CreditInv
      <3>. QED BY <3>1, <3>2, BoundsAssumption
    <2>4. AbstractCredit' = [AbstractCredit EXCEPT ![x] = FALSE]
      BY <1>0, <1>4 DEF AbstractCredit, IsSend, Observe
    <2>5. AbstractCount' = [AbstractCount EXCEPT ![x] = @ + 1]
      BY <1>0, <1>4, <2>3 DEF AbstractCount, IsSend, Observe, Bump
    <2>. QED BY <1>1, <2>2, <2>4, <2>5 DEF D!Deliver, AbstractCredit, AbstractCount
  <1>. QED BY <1>2, <1>3, <1>4

\* An inserted send is asked for; an inserted row of another kind is closed.
LEMMA InsertAsks ==
    ASSUME IInv, NEW table \in [Ids -> Row], NEW n, n = nextId, nextId <= MaxRows,
           \A i \in Ids : table[i].kind = rows[i].kind,
           \A i \in Ids : IsSend(i) => table[i] = rows[i],
           NEW kind \in AllKinds, NEW status \in {"pending", "dead", "sending"},
           NEW err \in Errors, NEW hit \in BOOLEAN, kind = "send" => ~hit,
           Insert(table, kind, status, err, hit)
    PROVE  D!Ask(n) \/ D!Close(n)
  <1>1. /\ n \in Ids /\ n \in Nat /\ nextId \in Nat /\ nextId' = n + 1
        /\ rows'[n].kind = kind /\ rows'[n].status = status
        /\ \A i \in Ids \ {n} : rows'[i] = table[i]
    BY BoundsAssumption DEF IInv, TypeOK, Ids, Insert, NewRow
  <1>2. /\ effects \in [Ids -> 0..EffectCap] /\ credit \in [Ids -> BOOLEAN]
        /\ effects' = [effects EXCEPT ![n] = IF hit THEN 1 ELSE 0]
        /\ credit' = [credit EXCEPT ![n] = ~hit]
    BY DEF IInv, TypeOK, Insert
  <1>3. ASSUME NEW i \in Ids, i # n
        PROVE  rows'[i].kind = rows[i].kind /\ (IsSend(i) => rows'[i] = rows[i])
               /\ ((i >= nextId') = (i >= nextId))
    BY <1>1, <1>3 DEF Ids
  <1>4. MsgState[n] = "new" /\ ~IsSend(n)
    BY <1>1 DEF MsgState, IInv, IdsInv, IsSend
  <1>5. ~(n >= nextId') BY <1>1
  <1>6. MsgState' = [MsgState EXCEPT ![n] = IF kind = "send" THEN "open" ELSE "closed"]
    <2>1. MsgState'[n] = IF kind = "send" THEN "open" ELSE "closed"
      BY <1>1, <1>5 DEF MsgState, Present, IsSend
    <2>2. ASSUME NEW i \in Ids \ {n} PROVE MsgState'[i] = MsgState[i]
      <3>1. ((i >= nextId') = (i >= nextId)) /\ rows'[i].kind = rows[i].kind BY <1>3
      <3>2. IsSend(i) => rows'[i] = rows[i] BY <1>3
      <3>. QED BY <3>1, <3>2 DEF MsgState, Present, IsSend
    <2>. QED BY <1>1, <2>1, <2>2 DEF MsgState
  <1>7. AbstractCount' = AbstractCount
    <2>1. kind = "send" => effects'[n] = 0 BY <1>1, <1>2
    <2>. QED BY <1>1, <1>2, <1>3, <1>4, <2>1 DEF AbstractCount, IsSend
  <1>8. CASE kind = "send"
    <2>1. AbstractCredit' = [AbstractCredit EXCEPT ![n] = TRUE]
      <3>1. credit'[n] = TRUE BY <1>1, <1>2, <1>8
      <3>2. \A i \in Ids \ {n} : credit'[i] = credit[i] BY <1>2
      <3>3. ASSUME NEW i \in Ids \ {n} PROVE AbstractCredit'[i] = AbstractCredit[i]
        <4>1. rows'[i].kind = rows[i].kind BY <1>3
        <4>. QED BY <3>2, <4>1 DEF AbstractCredit, IsSend
      <3>4. AbstractCredit'[n] = TRUE BY <1>1, <1>8, <3>1 DEF AbstractCredit, IsSend
      <3>. QED BY <1>1, <3>3, <3>4 DEF AbstractCredit
    <2>. QED BY <1>4, <1>6, <1>7, <1>8, <2>1 DEF D!Ask, AbstractCredit, AbstractCount
  <1>9. CASE kind # "send"
    <2>1. AbstractCredit' = AbstractCredit
      BY <1>1, <1>2, <1>3, <1>4, <1>9 DEF AbstractCredit, IsSend
    <2>. QED BY <1>4, <1>6, <1>7, <1>9, <2>1 DEF D!Close, AbstractCredit, AbstractCount
  <1>. QED BY <1>8, <1>9

\* Each step of the outbox is a step of Delivery or a stutter.
LEMMA OutboxStepRefines ==
    ASSUME IInv, [Next]_vars
    PROVE  UNCHANGED D!vars \/ \E m \in Ids : D!Ask(m) \/ D!Deliver(m) \/ D!Close(m)
  <1> DEFINE Goal == UNCHANGED D!vars \/ \E m \in Ids : D!Ask(m) \/ D!Deliver(m) \/ D!Close(m)
  <1>0. rows \in [Ids -> Row] BY DEF IInv, TypeOK
  <1>1. ASSUME UNCHANGED <<rows, nextId, auth, effects, credit>> PROVE Goal
    BY <1>1, DeliveryStutters DEF history
  <1>2. ASSUME NEW table \in [Ids -> Row], nextId <= MaxRows,
               \A i \in Ids : table[i].kind = rows[i].kind,
               \A i \in Ids : IsSend(i) => table[i] = rows[i],
               NEW kind \in AllKinds, NEW status \in {"pending", "dead", "sending"},
               NEW err \in Errors, NEW hit \in BOOLEAN, kind = "send" => ~hit,
               Insert(table, kind, status, err, hit)
        PROVE  Goal
    <2>1. nextId \in Ids BY <1>2, BoundsAssumption DEF IInv, TypeOK, Ids
    <2>. QED BY <1>2, <2>1, InsertAsks
  <1>3. CASE SendMessage
    <2>1. nextId <= MaxRows BY <1>3, BoundsAssumption DEF SendMessage, IdFree, IInv, TypeOK
    <2>. QED BY <1>0, <1>2, <1>3, <2>1 DEF SendMessage, AllKinds, Errors
  <1>4. CASE FirstTransport
    <2>1. PICK hit \in BOOLEAN : Observe(firstId, hit) BY <1>4 DEF FirstTransport
    <2>2. firstId \in Ids /\ rows[firstId].status = "sending" /\ credit[firstId]
      BY <1>4 DEF FirstTransport, IInv, IdsInv, ClaimHeld, FirstOwns, AttemptInv
    <2>3. UNCHANGED <<rows, nextId>> BY <1>4 DEF FirstTransport, durable
    <2>. QED BY <2>1, <2>2, <2>3, ObserveDelivers
  <1>5. CASE ReplayExecute
    <2>1. PICK hit \in BOOLEAN : Observe(cur.id, hit) BY <1>5 DEF ReplayExecute
    <2>2. cur.id \in Ids /\ (IsSend(cur.id) => rows[cur.id].status = "sending" /\ credit[cur.id])
      BY <1>5 DEF ReplayExecute, IInv, IdsInv, ClaimHeld, WorkerOwns, AttemptInv
    <2>3. UNCHANGED <<rows, nextId>> BY <1>5 DEF ReplayExecute, durable
    <2>. QED BY <2>1, <2>2, <2>3, ObserveDelivers
  <1>6. ASSUME NEW x \in Ids, NEW r, rows' = [rows EXCEPT ![x] = r], r.kind = rows[x].kind,
               IsSend(x) => rows[x].status # "absent", nextId' = nextId, UNCHANGED history
        PROVE  Goal
    <2>1. CASE IsSend(x) /\ r.status = "absent" BY <1>6, <2>1, RemovalCloses
    <2>2. CASE IsSend(x) => r.status # "absent" BY <1>6, <2>2, RowRewriteStutters
    <2>. QED BY <2>1, <2>2
  <1>7. CASE FirstSettle
    <2>1. firstId \in Ids /\ rows[firstId] \in Row /\ rows[firstId].retry < MaxRetries
          /\ rows[firstId].status = "sending" /\ firstOut \in Outcomes
      BY <1>0, <1>7 DEF FirstSettle, IInv, TypeOK, IdsInv, ClaimHeld, FirstOwns, RetryInv
    <2>2. SettledSend(rows[firstId], firstOut).kind = rows[firstId].kind BY <2>1, SettledSendFacts
    <2>3. CASE rows' = rows BY <1>1, <1>7, <2>3 DEF FirstSettle, history
    <2>4. CASE rows' = [rows EXCEPT ![firstId] = SettledSend(@, firstOut)]
      BY <1>6, <1>7, <2>1, <2>2, <2>4 DEF FirstSettle
    <2>. QED BY <1>7, <2>3, <2>4 DEF FirstSettle
  <1>8. CASE SettleSend
    <2>1. cur.id \in Ids /\ rows[cur.id] \in Row /\ rows[cur.id].retry < MaxRetries /\ wout \in Outcomes
      BY <1>8, SettleFacts DEF SettleSend
    <2>2. SettledSend(rows[cur.id], wout).kind = rows[cur.id].kind BY <2>1, SettledSendFacts
    <2>3. CASE rows' = rows BY <1>1, <1>8, <2>3 DEF SettleSend, history
    <2>4. CASE rows[cur.id].status = "sending" /\ rows' = [rows EXCEPT ![cur.id] = SettledSend(@, wout)]
      BY <1>6, <1>8, <2>1, <2>2, <2>4 DEF SettleSend
    <2>. QED BY <1>8, <2>3, <2>4 DEF SettleSend
  <1>9. CASE SettleOther
    <2>1. cur.id \in Ids /\ rows[cur.id] \in Row BY <1>9, SettleFacts DEF SettleOther
    <2>2. CASE rows' = rows BY <1>1, <1>9, <2>2 DEF SettleOther, history
    <2>3. ASSUME NEW r \in {mark_completed(rows[cur.id]), mark_failed(rows[cur.id]),
                             mark_dead_with_error(rows[cur.id])},
                 rows' = [rows EXCEPT ![cur.id] = r]
          PROVE  Goal
      <3>1. r.kind = rows[cur.id].kind
        BY <2>1, <2>3 DEF mark_completed, mark_failed, mark_dead_with_error, Row
      <3>. QED BY <1>6, <1>9, <2>1, <2>3, <3>1 DEF SettleOther
    <2>. QED BY <1>9, <2>2, <2>3 DEF SettleOther, UpdateIfPresent
  <1>10. ASSUME NEW e \in todo, ReplayExhausted(e) PROVE Goal
    <2>1. e.id \in Ids /\ rows[e.id] \in Row BY <1>10, EntryFacts DEF ReplayExhausted
    <2>2. CASE rows' = rows BY <1>1, <1>10, <2>2 DEF ReplayExhausted, history
    <2>3. ASSUME NEW r \in {exhaust_pending_send(rows[e.id]), mark_dead(rows[e.id])},
                 rows' = [rows EXCEPT ![e.id] = r], IsSend(e.id) => rows[e.id].status = "pending"
          PROVE  Goal
      <3>1. r.kind = rows[e.id].kind BY <2>1, <2>3 DEF exhaust_pending_send, mark_dead, Row
      <3>. QED BY <1>6, <1>10, <2>1, <2>3, <3>1 DEF ReplayExhausted
    <2>. QED BY <1>10, <2>2, <2>3 DEF ReplayExhausted, UpdateIfPresent
  <1>11. ASSUME NEW e \in todo, ReplayInvalid(e) PROVE Goal
    <2>1. e.id \in Ids /\ rows[e.id] \in Row BY <1>11, EntryFacts DEF ReplayInvalid
    <2>2. CASE rows' = rows BY <1>1, <1>11, <2>2 DEF ReplayInvalid, history
    <2>3. CASE /\ rows' = [rows EXCEPT ![e.id] = mark_dead_with_error(rows[e.id])]
               /\ IsSend(e.id) => rows[e.id].status = "pending"
      <3>1. mark_dead_with_error(rows[e.id]).kind = rows[e.id].kind
        BY <2>1 DEF mark_dead_with_error, Row
      <3>. QED BY <1>6, <1>11, <2>1, <2>3, <3>1 DEF ReplayInvalid
    <2>. QED BY <1>11, <2>2, <2>3 DEF ReplayInvalid, UpdateIfPresent
  <1>12. ASSUME NEW e \in todo, ReplayClaim(e) PROVE Goal
    <2>1. e.id \in Ids /\ rows[e.id] \in Row BY <1>12, EntryFacts DEF ReplayClaim
    <2>2. CASE rows' = rows BY <1>1, <1>12, <2>2 DEF ReplayClaim, history
    <2>3. CASE /\ rows' = [rows EXCEPT ![e.id].status = "sending"]
               /\ rows[e.id].status = "pending"
      <3>1. rows' = [rows EXCEPT ![e.id] = [rows[e.id] EXCEPT !.status = "sending"]] BY <2>3
      <3>2. [rows[e.id] EXCEPT !.status = "sending"].kind = rows[e.id].kind BY <2>1 DEF Row
      <3>. QED BY <1>6, <1>12, <2>1, <2>3, <3>1, <3>2 DEF ReplayClaim
    <2>. QED BY <1>12, <2>2, <2>3 DEF ReplayClaim, claim_pending_send_matches
  <1>13. ASSUME NEW x \in Ids, Discard(x) PROVE Goal
    <2>1. rows' = [rows EXCEPT ![x] = [rows[x] EXCEPT !.status = "absent"]]
          /\ [rows[x] EXCEPT !.status = "absent"].kind = rows[x].kind /\ rows[x].status # "absent"
      BY <1>0, <1>13 DEF Discard, Row
    <2>. QED BY <1>6, <1>13, <2>1 DEF Discard
  <1>14. ASSUME NEW x \in Ids, RetryDead(x) PROVE Goal
    <2>1. IsSend(x) /\ x < nextId /\ rows[x].status = "dead" /\ nextId \in Int
      BY <1>14 DEF RetryDead, IInv, TypeOK, IdsInv, IsSend
    <2>2. /\ rows'[x].kind = rows[x].kind /\ rows'[x].status = "pending"
          /\ \A i \in Ids \ {x} : rows'[i] = rows[i]
      BY <1>0, <1>14 DEF RetryDead, Row
    <2>3. MsgState[x] = "open" BY <2>1 DEF MsgState, Present, Ids
    <2>4. MsgState' = [MsgState EXCEPT ![x] = "open"]
      <3>1. nextId' = nextId BY <1>14 DEF RetryDead
      <3>2. \A i \in Ids : MsgState'[i] = MsgState[i]
        BY <2>1, <2>2, <3>1 DEF MsgState, Present, IsSend
      <3>. QED BY <2>3, <3>2 DEF MsgState
    <2>5. AbstractCredit' = [AbstractCredit EXCEPT ![x] = TRUE]
      <3>1. credit' = [credit EXCEPT ![x] = TRUE] /\ credit \in [Ids -> BOOLEAN]
        BY <1>14 DEF RetryDead, IInv, TypeOK
      <3>2. \A i \in Ids \ {x} : AbstractCredit'[i] = AbstractCredit[i]
        BY <2>2, <3>1 DEF AbstractCredit, IsSend
      <3>3. AbstractCredit'[x] = TRUE BY <2>1, <2>2, <3>1 DEF AbstractCredit, IsSend
      <3>. QED BY <3>2, <3>3 DEF AbstractCredit
    <2>6. AbstractCount' = AbstractCount
      BY <1>14, <2>2 DEF RetryDead, AbstractCount, IsSend
    <2>7. D!Ask(x) BY <2>3, <2>4, <2>5, <2>6 DEF D!Ask, AbstractCredit, AbstractCount
    <2>. QED BY <2>7
  <1>15. ASSUME NEW kind \in LocalKinds, UserOpBegin(kind) PROVE Goal
    <2>1. CASE rows' = rows BY <1>1, <1>15, <2>1 DEF UserOpBegin, history
    <2>2. CASE \E pruned \in SUBSET PendingFlags : rows' = Without(rows, pruned)
      BY <1>15, <2>2, PruneFacts, DeliveryStutters DEF UserOpBegin
    <2>. QED BY <1>15, <2>1, <2>2 DEF UserOpBegin
  <1>16. ASSUME NEW kind \in LocalKinds, QueueFailed(kind) PROVE Goal
    <2>1. PICK pruned \in SUBSET PendingFlags :
             Insert(Without(rows, pruned), kind, "pending", "none", FALSE)
      BY <1>16 DEF QueueFailed
    <2>2. nextId <= MaxRows BY <1>16, BoundsAssumption DEF QueueFailed, IdFree, IInv, TypeOK
    <2>3. kind \in AllKinds /\ kind # "send" /\ "none" \in Errors BY KindsAssumption DEF AllKinds, Errors
    <2>. QED BY <1>2, <2>1, <2>2, <2>3, PruneFacts
  <1>17. CASE UserOpEnd
    <2>1. userOp \in AllKinds /\ userOp # "send" /\ nextId <= MaxRows
      BY <1>17, KindsAssumption DEF UserOpEnd, IInv, IdsInv, AllKinds
    <2>2. CASE UNCHANGED <<durable, history>> BY <1>1, <2>2 DEF durable, history
    <2>3. ASSUME NEW hit \in BOOLEAN, NEW status \in {"pending", "dead"}, NEW err \in {"none", "failure"},
                 Insert(rows, userOp, status, err, hit)
          PROVE  Goal
      BY <1>0, <1>2, <2>1, <2>3 DEF Errors
    <2>. QED BY <1>17, <2>2, <2>3 DEF UserOpEnd
  <1>18. CASE Restart
    <2>1. ASSUME NEW i \in Ids
          PROVE  /\ rows'[i].kind = rows[i].kind
                 /\ rows'[i].status = "absent" <=> rows[i].status = "absent"
      <3>1. CASE rows'[i] = rows[i] BY <3>1
      <3>2. CASE rows[i].status = "sending" /\ rows'[i] = quarantine_sending_send(rows[i])
        BY <1>0, <3>2 DEF quarantine_sending_send, Row
      <3>. QED BY <1>18, <3>1, <3>2 DEF Restart
    <2>. QED BY <1>18, <2>1, DeliveryStutters DEF Restart
  <1>19. CASE StartReplay \/ DrainDone \/ Crash \/ (\E e \in todo : ReplayBegin(e)) \/ UNCHANGED vars
    BY <1>1, <1>19 DEF StartReplay, DrainDone, Crash, ReplayBegin, vars, durable, history
  <1>. QED
    BY <1>3, <1>4, <1>5, <1>7, <1>8, <1>9, <1>10, <1>11, <1>12, <1>13, <1>14, <1>15, <1>16,
       <1>17, <1>18, <1>19 DEF Next, FirstAttempt, Replay

\* The outbox implements Delivery: at most one delivery for each request, none
\* while the row is not listed, none ever after it is completed or discarded.
THEOREM OutboxRefinesDelivery == Spec => ImplementsDelivery
  <1>1. Init => D!Init
    <2> SUFFICES ASSUME Init PROVE D!Init OBVIOUS
    <2>1. MsgState \in [Ids -> {"new", "open", "closed"}] BY DEF MsgState
    <2>2. AbstractCredit \in [Ids -> BOOLEAN] BY DEF AbstractCredit, IsSend
    <2>3. AbstractCount = [i \in Ids |-> 0] BY DEF Init, AbstractCount
    <2>. QED BY <2>1, <2>2, <2>3 DEF D!Init, AbstractCredit, AbstractCount
  <1>2. IInv /\ [Next]_vars => [D!Next]_(D!vars)
    BY OutboxStepRefines DEF D!Next
  <1>. QED BY <1>1, <1>2, OutboxInvariant, PTL DEF Spec, D!Spec, ImplementsDelivery
=============================================================================
