------------------------ MODULE WorkerRegistryProofs ------------------------
(***************************************************************************)
(* The safety properties of the worker registry, for every number of       *)
(* callers, every channel capacity and every set of faults.                *)
(***************************************************************************)
EXTENDS WorkerRegistry, FiniteSetTheorems, TLAPS

Stages == {"idle", "gate", "lock", "look", "join", "spawn", "ready", "joinfailed", "send", "action"}

\* Types of the registry's state.
TypeOK ==
    /\ handle \in [gen : Gens \cup {0}, running : BOOLEAN]
    /\ accLock \in Callers \cup {None} /\ readers \in SUBSET Callers
    /\ shut \in {"no", "flag", "gate", "join", "done"} /\ shutGen \in Gens \cup {0}
    /\ cancelled \in [Gens -> BOOLEAN] /\ closed \in [Gens -> BOOLEAN]
    /\ w \in [Gens -> {"none", "init", "loop", "exec", "ended", "reported"}]
    /\ ready \in [Gens -> {"none", "ok", "err"}] /\ queue \in [Gens -> 0..Capacity]
    /\ pc \in [Callers -> Stages] /\ role \in [Callers -> {"send", "mutate"}]
    /\ gen \in [Callers -> Gens \cup {0}]

HoldsLock(c) == pc[c] \in {"look", "join", "spawn", "ready", "joinfailed", "action"}

\* The account lock has one holder, who is where the code holds it; the gate's
\* readers are those who hold the lock or wait for it.
GuardInv ==
    \A c \in Callers : /\ accLock = c <=> HoldsLock(c)
                       /\ c \in readers <=> HoldsLock(c) \/ At(c, "lock")

\* Only get_or_spawn starts workers; it is not inside once stop_all has the gate.
RoleInv ==
    /\ \A c \in Callers : pc[c] \in {"spawn", "ready", "joinfailed"} => role[c] = "send"
    /\ shut = "join" => readers = {}
    /\ shut = "done" => \A c \in readers : role[c] = "mutate"

\* A worker whose supervisor has not reported is the one the handle names.
Unreported(g) == w[g] \in {"init", "loop", "exec", "ended"}
HandleInv ==
    /\ \A g \in Gens : Unreported(g) => handle.gen = g
    /\ handle.gen = 0 => handle = NoHandle
    /\ shut = "done" => handle = NoHandle

\* What each invocation, and stop_all, knows of the handle.
RefersInv ==
    /\ \A c \in Callers : pc[c] \in {"join", "ready", "joinfailed"} => handle.gen = gen[c]
    /\ \A c \in Callers : pc[c] \in {"join", "ready", "joinfailed", "send"} => gen[c] # 0
    /\ \A c \in Callers : pc[c] \in {"spawn", "action"} => handle = NoHandle
    /\ shutGen = IF shut = "join" THEN handle.gen ELSE 0

RegistryInv == TypeOK /\ GuardInv /\ RoleInv /\ HandleInv /\ RefersInv

-----------------------------------------------------------------------------
(* Generation numbers.                                                      *)

\* Generation numbers are positive; 0 stands for none.
LEMMA GensFacts == Cardinality(Callers) \in Nat /\ Gens \subseteq Nat \ {0}
  BY RegistryAssumption, FS_CardinalityType DEF Gens

\* When a worker is spawned some number is referred to by nobody, so reusing
\* numbers never makes two generations look alike.
LEMMA FreshGenIsFresh ==
    ASSUME RegistryInv, NEW c \in Callers, At(c, "spawn")
    PROVE  FreshGen \in Gens /\ ~InUse(FreshGen)
  <1> DEFINE refs == {gen[d] : d \in Callers}
  <1>1. handle.gen = 0 /\ shutGen = 0 /\ \A g \in Gens : ~Unreported(g)
    <2>1. shut # "join" BY DEF RegistryInv, RoleInv, GuardInv, HoldsLock, At
    <2>2. handle = NoHandle BY DEF RegistryInv, RefersInv, At
    <2>. QED BY <2>1, <2>2, GensFacts DEF RegistryInv, RefersInv, HandleInv, NoHandle
  <1>2. \A g \in Gens : InUse(g) => g \in refs
    BY <1>1, GensFacts DEF InUse, Live, Unreported
  <1>3. IsFiniteSet(refs) /\ Cardinality(refs) <= Cardinality(Callers)
    <2>1. gen \in Surjection(Callers, refs) BY DEF RegistryInv, TypeOK, Surjection
    <2>. QED BY <2>1, RegistryAssumption, FS_Surjection
  <1>4. Cardinality(Gens) = Cardinality(Callers) + 2
    BY GensFacts, FS_Interval DEF Gens
  <1>5. ~(Gens \subseteq refs)
    <2>1. Gens \subseteq refs => Cardinality(Gens) <= Cardinality(refs) BY <1>3, FS_Subset
    <2>2. Cardinality(refs) \in Nat BY <1>3, FS_CardinalityType
    <2>. QED BY <1>3, <1>4, <2>1, <2>2, GensFacts
  <1>6. \E g \in Gens : ~InUse(g) BY <1>2, <1>5
  <1>. QED BY <1>6 DEF FreshGen
-----------------------------------------------------------------------------
(* One lemma per step.                                                      *)

\* begin_stop keeps the handle's generation and marks it as not running.
LEMMA BeginStopFacts ==
    ASSUME RegistryInv, begin_stop
    PROVE  /\ handle' \in [gen : Gens \cup {0}, running : BOOLEAN]
           /\ handle'.gen = handle.gen /\ ~handle'.running
           /\ cancelled' \in [Gens -> BOOLEAN]
  <1>1. handle' \in [gen : Gens \cup {0}, running : BOOLEAN] /\ handle'.gen = handle.gen /\ ~handle'.running
    BY DEF RegistryInv, TypeOK, begin_stop
  <1>2. cancelled' \in [Gens -> BOOLEAN] BY DEF RegistryInv, TypeOK, begin_stop
  <1>. QED BY <1>1, <1>2

\* An invocation begins.
LEMMA CallStep == ASSUME RegistryInv, NEW c \in Callers, NEW r \in Roles, Call(c, r) PROVE RegistryInv'
  <1> USE GensFacts, RegistryAssumption DEF RegistryInv
  <1>1. TypeOK'
    BY DEF TypeOK, Stages, Call, Goto, workers
  <1>2. GuardInv'
    BY DEF GuardInv, HoldsLock, Call, At, Goto
  <1>3. RoleInv'
    BY DEF GuardInv, HoldsLock, RoleInv, Call, At, Goto
  <1>4. HandleInv'
    BY DEF HandleInv, Unreported, Call, workers
  <1>5. RefersInv'
    BY DEF RefersInv, Call, Goto
  <1>. QED BY <1>1, <1>2, <1>3, <1>4, <1>5

\* Passing the gate, or being turned away from it.
LEMMA EnterGateStep == ASSUME RegistryInv, NEW c \in Callers, EnterGate(c) PROVE RegistryInv'
  <1> USE GensFacts, RegistryAssumption DEF RegistryInv
  <1>1. TypeOK'
    BY DEF TypeOK, Stages, EnterGate, Goto, workers
  <1>2. GuardInv'
    BY DEF TypeOK, GuardInv, HoldsLock, EnterGate, At, Goto
  <1>3. RoleInv'
    BY DEF TypeOK, RoleInv, EnterGate, ShuttingDown, Goto
  <1>4. HandleInv'
    BY DEF HandleInv, Unreported, EnterGate, workers
  <1>5. RefersInv'
    BY DEF TypeOK, RefersInv, EnterGate, Goto
  <1>. QED BY <1>1, <1>2, <1>3, <1>4, <1>5

\* The account lock is taken.
LEMMA LockAccountStep == ASSUME RegistryInv, NEW c \in Callers, LockAccount(c) PROVE RegistryInv'
  <1> USE GensFacts, RegistryAssumption DEF RegistryInv
  <1>1. TypeOK'
    BY DEF TypeOK, Stages, LockAccount, Goto, workers
  <1>2. GuardInv'
    BY DEF TypeOK, GuardInv, HoldsLock, LockAccount, At, Goto
  <1>3. RoleInv'
    BY DEF RoleInv, LockAccount, Goto
  <1>4. HandleInv'
    BY DEF HandleInv, Unreported, LockAccount, workers
  <1>5. RefersInv'
    BY DEF RefersInv, LockAccount, Goto
  <1>. QED BY <1>1, <1>2, <1>3, <1>4, <1>5

\* A healthy worker is handed out, any other is told to stop.
LEMMA LookStep == ASSUME RegistryInv, NEW c \in Callers, Look(c) PROVE RegistryInv'
  <1> USE GensFacts, RegistryAssumption DEF RegistryInv
  <1>1. TypeOK'
    <2>1. handle' \in [gen : Gens \cup {0}, running : BOOLEAN] /\ cancelled' \in [Gens -> BOOLEAN]
      BY BeginStopFacts DEF TypeOK, Look
    <2>2. readers' \in SUBSET Callers /\ accLock' \in Callers \cup {None}
      BY DEF TypeOK, Look, DropGuards, KeepGuards
    <2>3. /\ pc' \in [Callers -> Stages] /\ gen' \in [Callers -> Gens \cup {0}]
          /\ UNCHANGED <<shut, shutGen, w, ready, closed, queue, role>>
      BY DEF TypeOK, Look, Goto, Refer, Stages
    <2>. QED BY <2>1, <2>2, <2>3 DEF TypeOK
  <1>2. GuardInv'
    BY DEF TypeOK, GuardInv, HoldsLock, Look, DropGuards, KeepGuards, At, Goto
  <1>3. RoleInv'
    BY DEF TypeOK, RoleInv, Look, DropGuards, KeepGuards, Goto
  <1>4. HandleInv'
    BY DEF TypeOK, HandleInv, Unreported, Look, begin_stop
  <1>5. RefersInv'
    BY DEF TypeOK, HandleInv, RefersInv, Look, current_is_healthy, begin_stop, Refer, Goto
  <1>. QED BY <1>1, <1>2, <1>3, <1>4, <1>5

\* The stopped worker has reported, and its handle goes.
LEMMA JoinStep == ASSUME RegistryInv, NEW c \in Callers, Join(c) PROVE RegistryInv'
  <1> USE GensFacts, RegistryAssumption DEF RegistryInv
  <1>1. TypeOK'
    BY DEF TypeOK, Stages, NoHandle, Join, Removed, Refer, KeepGuards, Goto, workers
  <1>2. GuardInv'
    BY DEF GuardInv, HoldsLock, Join, KeepGuards, At, Goto
  <1>3. RoleInv'
    BY DEF RoleInv, Join, KeepGuards, Goto
  <1>4. HandleInv'
    BY DEF HandleInv, Unreported, Join, Removed, workers
  <1>5. RefersInv'
    BY DEF TypeOK, GuardInv, HoldsLock, RoleInv, RefersInv, Join, Removed, Refer, At, Goto
  <1>. QED BY <1>1, <1>2, <1>3, <1>4, <1>5

\* A worker is spawned under a fresh number, where there was none.
LEMMA SpawnStep == ASSUME RegistryInv, NEW c \in Callers, Spawn(c) PROVE RegistryInv'
  <1> USE GensFacts DEF RegistryInv
  <1> DEFINE g == FreshGen
  <1>1. g \in Gens /\ At(c, "spawn") BY FreshGenIsFresh DEF Spawn
  <1>2. /\ handle' = [gen |-> g, running |-> TRUE]
        /\ cancelled' = [cancelled EXCEPT ![g] = ShuttingDown]
        /\ w' = [w EXCEPT ![g] = "init"] /\ ready' = [ready EXCEPT ![g] = "none"]
        /\ closed' = [closed EXCEPT ![g] = FALSE] /\ queue' = [queue EXCEPT ![g] = 0]
        /\ gen' = [gen EXCEPT ![c] = g] /\ pc' = [pc EXCEPT ![c] = "ready"]
        /\ UNCHANGED <<readers, accLock, shut, shutGen, role>>
    BY DEF Spawn, Refer, Goto, KeepGuards
  <1> HIDE DEF g
  <1>3. TypeOK'
    <2>1. cancelled' \in [Gens -> BOOLEAN] /\ closed' \in [Gens -> BOOLEAN]
      BY <1>2 DEF TypeOK, ShuttingDown
    <2>2. queue' \in [Gens -> 0..Capacity]
      <3>1. 0 \in 0..Capacity BY RegistryAssumption
      <3>. QED BY <1>2, <3>1 DEF TypeOK
    <2>3. /\ handle' \in [gen : Gens \cup {0}, running : BOOLEAN] /\ gen' \in [Callers -> Gens \cup {0}]
          /\ w' \in [Gens -> {"none", "init", "loop", "exec", "ended", "reported"}]
          /\ ready' \in [Gens -> {"none", "ok", "err"}] /\ pc' \in [Callers -> Stages]
      BY <1>1, <1>2 DEF TypeOK, Stages
    <2>. QED BY <1>2, <2>1, <2>2, <2>3 DEF TypeOK
  <1>4. GuardInv' /\ RoleInv'
    BY <1>1, <1>2 DEF GuardInv, HoldsLock, At, RoleInv
  <1>5. handle = NoHandle /\ shut \notin {"join", "done"} /\ shutGen = 0
    BY <1>1 DEF At, RefersInv, RoleInv, GuardInv, HoldsLock
  <1>6. HandleInv'
    <2>1. \A h \in Gens : ~Unreported(h) BY <1>5 DEF HandleInv, NoHandle
    <2>2. \A h \in Gens : Unreported(h)' => h = g BY <1>2, <2>1 DEF TypeOK, Unreported
    <2>. QED BY <1>1, <1>2, <1>5, <2>2 DEF HandleInv
  <1>7. RefersInv'
    <2>1. \A d \in Callers \ {c} : pc'[d] = pc[d] /\ gen'[d] = gen[d] /\ ~HoldsLock(d)
      BY <1>1, <1>2 DEF GuardInv, HoldsLock, At
    <2>2. pc'[c] = "ready" /\ gen'[c] = g BY <1>2 DEF TypeOK
    <2>. QED BY <1>1, <1>2, <1>5, <2>1, <2>2 DEF RefersInv, HoldsLock
  <1>. QED BY <1>3, <1>4, <1>6, <1>7

\* The worker is ready, or is stopped.
LEMMA AwaitReadyStep == ASSUME RegistryInv, NEW c \in Callers, AwaitReady(c) PROVE RegistryInv'
  <1> USE GensFacts, RegistryAssumption DEF RegistryInv
  <1>1. TypeOK'
    <2>1. handle' \in [gen : Gens \cup {0}, running : BOOLEAN] /\ cancelled' \in [Gens -> BOOLEAN]
      BY BeginStopFacts DEF TypeOK, AwaitReady
    <2>2. readers' \in SUBSET Callers /\ accLock' \in Callers \cup {None}
      BY DEF TypeOK, AwaitReady, DropGuards, KeepGuards
    <2>3. /\ pc' \in [Callers -> Stages]
          /\ UNCHANGED <<shut, shutGen, w, ready, closed, queue, role, gen>>
      BY DEF TypeOK, AwaitReady, Goto, Stages
    <2>. QED BY <2>1, <2>2, <2>3 DEF TypeOK
  <1>2. GuardInv'
    BY DEF TypeOK, GuardInv, HoldsLock, AwaitReady, DropGuards, KeepGuards, At, Goto
  <1>3. RoleInv'
    BY DEF TypeOK, RoleInv, AwaitReady, DropGuards, KeepGuards, At, Goto
  <1>4. HandleInv'
    BY DEF TypeOK, HandleInv, Unreported, NoHandle, AwaitReady, begin_stop
  <1>5. RefersInv'
    BY DEF TypeOK, RefersInv, NoHandle, AwaitReady, begin_stop, At, Goto
  <1>. QED BY <1>1, <1>2, <1>3, <1>4, <1>5

\* The worker that failed to start has reported.
LEMMA JoinFailedStep == ASSUME RegistryInv, NEW c \in Callers, JoinFailed(c) PROVE RegistryInv'
  <1> USE GensFacts, RegistryAssumption DEF RegistryInv
  <1>1. TypeOK'
    BY DEF TypeOK, Stages, NoHandle, JoinFailed, Removed, Refer, DropGuards, Goto, workers
  <1>2. GuardInv'
    BY DEF TypeOK, GuardInv, HoldsLock, JoinFailed, DropGuards, At, Goto
  <1>3. RoleInv'
    BY DEF RoleInv, JoinFailed, DropGuards, Goto
  <1>4. HandleInv'
    BY DEF HandleInv, Unreported, JoinFailed, Removed, workers
  <1>5. RefersInv'
    BY DEF TypeOK, GuardInv, HoldsLock, RoleInv, RefersInv, JoinFailed, Refer, At, Goto
  <1>. QED BY <1>1, <1>2, <1>3, <1>4, <1>5

\* An operation enters the channel.
LEMMA SendStep == ASSUME RegistryInv, NEW c \in Callers, Send(c) PROVE RegistryInv'
  <1> USE GensFacts, RegistryAssumption DEF RegistryInv
  <1>1. TypeOK'
    <2>1. gen[c] \in Gens BY DEF TypeOK, RefersInv, Send, At
    <2>2. queue' \in [Gens -> 0..Capacity]
      <3>1. CASE queue' = queue BY <3>1 DEF TypeOK
      <3>2. CASE queue[gen[c]] < Capacity /\ queue' = [queue EXCEPT ![gen[c]] = @ + 1]
        <4>1. queue \in [Gens -> 0..Capacity] /\ Capacity \in Nat BY DEF TypeOK
        <4>2. queue[gen[c]] \in 0..Capacity BY <2>1, <4>1
        <4>3. queue[gen[c]] + 1 \in 0..Capacity BY <3>2, <4>1, <4>2
        <4>. QED BY <2>1, <3>2, <4>1, <4>3
      <3>. QED BY <3>1, <3>2 DEF Send
    <2>3. pc' \in [Callers -> Stages] /\ gen' \in [Callers -> Gens \cup {0}]
      BY DEF TypeOK, Send, Goto, Refer, Stages
    <2>. QED BY <2>2, <2>3 DEF TypeOK, Send
  <1>2. GuardInv'
    BY DEF GuardInv, HoldsLock, Send, At, Goto
  <1>3. RoleInv'
    BY DEF RoleInv, Send, Goto
  <1>4. HandleInv'
    BY DEF HandleInv, Unreported, Send
  <1>5. RefersInv'
    BY DEF TypeOK, RefersInv, Send, Refer, Goto
  <1>. QED BY <1>1, <1>2, <1>3, <1>4, <1>5

\* The account mutation ends.
LEMMA ActionStep == ASSUME RegistryInv, NEW c \in Callers, Action(c) PROVE RegistryInv'
  <1> USE GensFacts, RegistryAssumption DEF RegistryInv
  <1>1. TypeOK'
    BY DEF TypeOK, Stages, Action, DropGuards, Goto, workers
  <1>2. GuardInv'
    BY DEF TypeOK, GuardInv, HoldsLock, Action, DropGuards, At, Goto
  <1>3. RoleInv'
    BY DEF RoleInv, Action, DropGuards, Goto
  <1>4. HandleInv'
    BY DEF HandleInv, Unreported, Action, workers
  <1>5. RefersInv'
    BY DEF RefersInv, Action, Goto
  <1>. QED BY <1>1, <1>2, <1>3, <1>4, <1>5

\* An invocation is dropped at an await; its guards go, its worker stays.
LEMMA AbortStep == ASSUME RegistryInv, NEW c \in Callers, Abort(c) PROVE RegistryInv'
  <1> USE GensFacts, RegistryAssumption DEF RegistryInv
  <1>1. TypeOK'
    BY DEF TypeOK, Stages, Abort, DropGuards, Refer, Goto, workers
  <1>2. GuardInv'
    BY DEF TypeOK, GuardInv, HoldsLock, Abort, DropGuards, At, Goto
  <1>3. RoleInv'
    BY DEF RoleInv, Abort, DropGuards, Goto
  <1>4. HandleInv'
    BY DEF HandleInv, Unreported, Abort, workers
  <1>5. RefersInv'
    BY DEF TypeOK, RefersInv, Abort, Refer, Goto
  <1>. QED BY <1>1, <1>2, <1>3, <1>4, <1>5

\* Shutdown begins.
LEMMA StopAllStep == ASSUME RegistryInv, StopAll PROVE RegistryInv'
  <1> USE GensFacts, RegistryAssumption DEF RegistryInv
  <1>1. TypeOK'
    BY DEF TypeOK, StopAll
  <1>2. GuardInv'
    BY DEF GuardInv, HoldsLock, StopAll, At
  <1>3. RoleInv'
    BY DEF RoleInv, StopAll
  <1>4. HandleInv'
    BY DEF HandleInv, Unreported, StopAll
  <1>5. RefersInv'
    BY DEF RefersInv, StopAll
  <1>. QED BY <1>1, <1>2, <1>3, <1>4, <1>5

\* Shutdown waits for the gate.
LEMMA StopAllRequestStep == ASSUME RegistryInv, StopAllRequest PROVE RegistryInv'
  <1> USE GensFacts, RegistryAssumption DEF RegistryInv
  <1>1. TypeOK'
    BY DEF TypeOK, StopAllRequest, workers
  <1>2. GuardInv'
    BY DEF GuardInv, HoldsLock, StopAllRequest, At
  <1>3. RoleInv'
    BY DEF RoleInv, StopAllRequest
  <1>4. HandleInv'
    BY DEF HandleInv, Unreported, StopAllRequest, workers
  <1>5. RefersInv'
    BY DEF RefersInv, StopAllRequest
  <1>. QED BY <1>1, <1>2, <1>3, <1>4, <1>5

\* Shutdown has the gate, and nobody is inside.
LEMMA StopAllGateStep == ASSUME RegistryInv, StopAllGate PROVE RegistryInv'
  <1> USE GensFacts, RegistryAssumption DEF RegistryInv
  <1>1. TypeOK'
    <2>1. handle' \in [gen : Gens \cup {0}, running : BOOLEAN] /\ cancelled' \in [Gens -> BOOLEAN]
      BY BeginStopFacts DEF TypeOK, StopAllGate
    <2>2. shut' \in {"done", "join"} /\ shutGen' \in Gens \cup {0}
      BY DEF TypeOK, StopAllGate
    <2>3. UNCHANGED <<accLock, readers, w, ready, closed, queue, pc, role, gen>>
      BY DEF TypeOK, StopAllGate
    <2>. QED BY <2>1, <2>2, <2>3 DEF TypeOK
  <1>2. GuardInv'
    BY DEF GuardInv, HoldsLock, StopAllGate, At
  <1>3. RoleInv'
    BY DEF RoleInv, StopAllGate
  <1>4. HandleInv'
    BY DEF TypeOK, HandleInv, Unreported, StopAllGate, begin_stop
  <1>5. RefersInv'
    BY DEF TypeOK, RefersInv, StopAllGate, begin_stop
  <1>. QED BY <1>1, <1>2, <1>3, <1>4, <1>5

\* The last worker has reported.
LEMMA StopAllJoinStep == ASSUME RegistryInv, StopAllJoin PROVE RegistryInv'
  <1> USE GensFacts, RegistryAssumption DEF RegistryInv
  <1>1. TypeOK'
    BY DEF TypeOK, NoHandle, StopAllJoin, Removed, workers
  <1>2. GuardInv'
    BY DEF GuardInv, HoldsLock, StopAllJoin, At
  <1>3. RoleInv'
    BY DEF RoleInv, StopAllJoin
  <1>4. HandleInv'
    BY DEF HandleInv, RefersInv, Unreported, StopAllJoin, Removed, workers
  <1>5. RefersInv'
    BY DEF GuardInv, HoldsLock, RoleInv, RefersInv, StopAllJoin
  <1>. QED BY <1>1, <1>2, <1>3, <1>4, <1>5

\* Everything a worker and its supervisor do by themselves.
LEMMA WorkerStep == ASSUME RegistryInv, NEW g \in Gens, Worker(g) \/ Panic(g) PROVE RegistryInv'
  <1> USE GensFacts, RegistryAssumption DEF RegistryInv
  <1>1. /\ UNCHANGED <<handle, accLock, readers, shut, shutGen, cancelled, pc, role, gen>>
        /\ \A h \in Gens \ {g} : w'[h] = w[h]
        /\ Unreported(g)' => Unreported(g)
    BY DEF Worker, Initialize, CloseReceiver, TakeBatch, FinishBatch, Exit, Report, Panic, Ends, WorkerTo,
           CallersUnchanged, Unreported, TypeOK
  <1>2. TypeOK'
    <2>1. w' \in [Gens -> {"none", "init", "loop", "exec", "ended", "reported"}]
          /\ ready' \in [Gens -> {"none", "ok", "err"}]
      BY DEF TypeOK, Worker, Initialize, CloseReceiver, TakeBatch, FinishBatch, Exit, Report, Panic, Ends,
             WorkerTo
    <2>2. queue' \in [Gens -> 0..Capacity]
      <3>1. queue' \in {queue, [queue EXCEPT ![g] = 0]}
        BY DEF Worker, Initialize, CloseReceiver, TakeBatch, FinishBatch, Exit, Report, Panic, Ends
      <3>2. 0 \in 0..Capacity OBVIOUS
      <3>. QED BY <3>1, <3>2 DEF TypeOK
    <2>3. closed' \in [Gens -> BOOLEAN]
      BY DEF TypeOK, Worker, Initialize, CloseReceiver, TakeBatch, FinishBatch, Exit, Report, Panic
    <2>. QED BY <1>1, <2>1, <2>2, <2>3 DEF TypeOK
  <1>3. GuardInv' /\ RoleInv' /\ RefersInv'
    BY <1>1 DEF GuardInv, RoleInv, RefersInv, HoldsLock, At
  <1>4. HandleInv'
    BY <1>1 DEF HandleInv, Unreported
  <1>. QED BY <1>2, <1>3, <1>4

-----------------------------------------------------------------------------
\* Every step of the registry, and stuttering, preserves the invariant.
THEOREM RegistryInductive == RegistryInv /\ [Next]_vars => RegistryInv'
  <1> SUFFICES ASSUME RegistryInv, [Next]_vars PROVE RegistryInv' OBVIOUS
  <1>1. CASE UNCHANGED vars
    BY <1>1 DEF vars, RegistryInv, TypeOK, GuardInv, HoldsLock, At, RoleInv, HandleInv, Unreported,
       RefersInv
  <1>2. ASSUME NEW c \in Callers, Step(c) \/ Abort(c) \/ \E r \in Roles : Call(c, r)
        PROVE  RegistryInv'
    BY <1>2, CallStep, EnterGateStep, LockAccountStep, LookStep, JoinStep, SpawnStep, AwaitReadyStep,
       JoinFailedStep, SendStep, ActionStep, AbortStep DEF Step
  <1>3. CASE StopAll \/ Shutdown
    BY <1>3, StopAllStep, StopAllRequestStep, StopAllGateStep, StopAllJoinStep DEF Shutdown
  <1>4. ASSUME NEW g \in Gens, Worker(g) \/ Panic(g) PROVE RegistryInv'
    BY <1>4, WorkerStep
  <1>. QED BY <1>1, <1>2, <1>3, <1>4 DEF Next

\* The registry's invariant holds in every reachable state.
THEOREM RegistryInvariant == Spec => []RegistryInv
  <1>1. Init => RegistryInv
    <2> SUFFICES ASSUME Init PROVE RegistryInv OBVIOUS
    <2>1. TypeOK BY RegistryAssumption DEF Init, TypeOK, NoHandle, Stages
    <2>2. GuardInv /\ RoleInv
      BY RegistryAssumption DEF Init, GuardInv, HoldsLock, At, RoleInv
    <2>3. HandleInv /\ RefersInv
      BY DEF Init, HandleInv, Unreported, RefersInv, NoHandle
    <2>. QED BY <2>1, <2>2, <2>3 DEF RegistryInv
  <1>. QED BY <1>1, RegistryInductive, PTL DEF Spec

\* An account never has two workers.
THEOREM RegistryOneWorker == Spec => []OneWorker
  <1>1. RegistryInv => OneWorker
    BY DEF RegistryInv, HandleInv, Unreported, OneWorker, Live
  <1>. QED BY <1>1, RegistryInvariant, PTL

\* An account is changed or deleted only while it has no worker.
THEOREM RegistryStoppedDuringAction == Spec => []StoppedDuringAction
  <1>1. RegistryInv => StoppedDuringAction
    BY GensFacts DEF RegistryInv, HandleInv, RefersInv, NoHandle, Unreported, StoppedDuringAction, Live, At
  <1>. QED BY <1>1, RegistryInvariant, PTL

\* Nothing runs or is registered once stop_all has returned.
THEOREM RegistryNoWorkerAfterShutdown == Spec => []NoWorkerAfterShutdown
  <1>1. RegistryInv => NoWorkerAfterShutdown
    BY GensFacts DEF RegistryInv, HandleInv, NoHandle, Unreported, NoWorkerAfterShutdown, Live
  <1>. QED BY <1>1, RegistryInvariant, PTL

\* A worker that has started drops no operation its channel accepted, unless it
\* panics: a cancelled worker leaves its loop with an empty channel.
THEOREM RegistryAcceptedNotLost == Spec => []AcceptedNotLost
  <1>1. Init => AcceptedNotLost BY DEF Init, AcceptedNotLost
  <1>2. RegistryInv /\ AcceptedNotLost /\ [Next]_vars => AcceptedNotLost'
    <2> SUFFICES ASSUME RegistryInv, AcceptedNotLost, [Next]_vars PROVE AcceptedNotLost' OBVIOUS
    <2>1. CASE UNCHANGED lost BY <2>1 DEF AcceptedNotLost
    <2>2. ASSUME NEW g \in Gens, Initialize(g) \/ Exit(g) PROVE AcceptedNotLost'
      <3>1. ~(w[g] = "loop" /\ queue[g] > 0) BY <2>2 DEF Initialize, Exit
      <3>2. lost' = lost \/ lost' = (lost \/ (w[g] = "loop" /\ queue[g] > 0))
        BY <2>2 DEF Initialize, Exit, Ends
      <3>. QED BY <3>1, <3>2 DEF AcceptedNotLost
    <2>3. ASSUME NEW c \in Callers, Step(c) \/ Abort(c) \/ \E r \in Roles : Call(c, r)
          PROVE  UNCHANGED lost
      BY <2>3 DEF Step, EnterGate, LockAccount, Look, Join, Spawn, AwaitReady, JoinFailed, Send, Action,
         Abort, Call
    <2>. QED BY <2>1, <2>2, <2>3 DEF Next, StopAll, Shutdown, StopAllRequest, StopAllGate, StopAllJoin,
            Worker, CloseReceiver, TakeBatch, FinishBatch, Report, Panic, vars
  <1>. QED BY <1>1, <1>2, RegistryInvariant, PTL DEF Spec
=============================================================================
