----------------------------- MODULE IdleProofs -----------------------------
(***************************************************************************)
(* What keeps an account's concurrent tasks out of each other's way: the   *)
(* IMAP IDLE lifecycle, for every number of concurrent operations and      *)
(* commands and every set of faults, and, in the second part, the          *)
(* mail-sync guard, for any number of concurrent commands.                 *)
(***************************************************************************)
EXTENDS IdleLifecycle, MailSync, FiniteSetTheorems, TLAPS

Handles == [gen : Gens \cup {0},
            phase : {"none", "Starting", "Running", "Stopping", "Joining", "StopFailed"},
            thread : BOOLEAN]
Stages == {"idle", "lock", "request", "flag", "shut", "wait", "join", "work", "reserve", "spawn",
           "trylock"}
Threads == {"none", "check", "connect", "io", "done", "panicked"}

\* Types of the lifecycle's state.
TypeOK ==
    /\ enabled \in BOOLEAN /\ stopped \in BOOLEAN /\ accLock \in Procs \cup {None}
    /\ handle \in Handles
    /\ thr \in [Gens -> Threads] /\ stop \in [Gens -> BOOLEAN] /\ sock \in [Gens -> {"none", "open", "shut"}]
    /\ gen \in [Procs -> Gens \cup {0}] /\ why \in [Procs -> {"suspend", "start", "stop"}]
    /\ pc \in [Procs -> Stages]

\* Where the account lock is held: everywhere between taking and dropping it,
\* but not by stop_idle, which waits without it.
HoldsLock(p) ==
    \/ pc[p] \in {"request", "work", "reserve", "spawn"}
    \/ pc[p] \in {"flag", "shut", "wait", "join"} /\ why[p] # "stop"

\* Where an invocation refers to no generation.
NoReference(p) == pc[p] \in {"idle", "lock", "request", "work", "reserve", "trylock"}

GuardInv ==
    \A p \in Procs :
        /\ accLock = p <=> HoldsLock(p)
        /\ pc[p] = "lock" => why[p] # "stop"
        /\ pc[p] = "request" => why[p] = "suspend"
        /\ pc[p] \in {"reserve", "trylock"} => why[p] = "start"
        /\ NoReference(p) => gen[p] = 0

\* Every live thread is the one the handle describes; a handle without a
\* running or stopping phase has given its thread away or has none yet.
ThreadInv ==
    /\ \A g \in Gens : Live(g) => handle.gen = g /\ handle.thread
    /\ handle.thread => handle.phase \in {"Running", "Stopping"}

\* What the holders of a reservation and of a thread to join may rely on.
PhaseInv ==
    /\ \A p \in Procs : pc[p] = "work" => handle = NoHandle
    /\ \A p \in Procs : pc[p] = "spawn" =>
          handle.gen = gen[p] /\ handle.phase \in {"Starting", "Stopping"} /\ ~handle.thread
    /\ \A p \in Procs : pc[p] = "join" =>
          handle.gen = gen[p] /\ handle.phase = "Joining" /\ ~handle.thread
    /\ \A p, q \in Procs : pc[p] = "join" /\ pc[q] = "join" => p = q

\* After stop_idle nothing is registered, and nothing can be until start_idle.
StoppedInv == stopped => ~enabled /\ handle = NoHandle

IdleInv == TypeOK /\ GuardInv /\ ThreadInv /\ PhaseInv /\ StoppedInv

-----------------------------------------------------------------------------
(* Generation numbers.                                                      *)

\* Generation numbers are positive; 0 stands for none.
LEMMA GensFacts == Cardinality(Procs) \in Nat /\ Gens \subseteq Nat \ {0}
  BY IdleAssumption, FS_CardinalityType DEF Gens

\* When a generation is reserved some number is referred to by nobody, so
\* reusing numbers never makes two generations look alike.
LEMMA FreshGenIsFresh ==
    ASSUME IdleInv, NEW p \in Procs, At(p, "reserve")
    PROVE  FreshGen \in Gens /\ ~InUse(FreshGen)
  <1> DEFINE refs == {gen[d] : d \in Procs}
             used == refs \cup {handle.gen}
             n == Cardinality(Procs)
  <1>1. n \in Nat /\ Gens = 1..(n + 1) BY GensFacts DEF Gens
  <1>2. \A g \in Gens : InUse(g) => g \in used
    BY DEF InUse, IdleInv, ThreadInv
  <1>3. 0 \in used
    BY DEF IdleInv, GuardInv, NoReference, At
  <1>4. IsFiniteSet(refs) /\ Cardinality(refs) \in Nat /\ Cardinality(refs) <= n
    <2>1. gen \in Surjection(Procs, refs) BY DEF IdleInv, TypeOK, Surjection
    <2>2. IsFiniteSet(refs) /\ Cardinality(refs) <= n
      BY <2>1, IdleAssumption, FS_Surjection
    <2>. QED BY <2>2, FS_CardinalityType
  <1>5. IsFiniteSet(used) /\ Cardinality(used) \in Nat /\ Cardinality(used) <= n + 1
    <2>1. /\ IsFiniteSet(used)
          /\ Cardinality(used) = Cardinality(refs) \/ Cardinality(used) = Cardinality(refs) + 1
      BY <1>4, FS_AddElement
    <2>. QED BY <1>1, <1>4, <2>1
  <1>6. Cardinality(0..(n + 1)) = n + 2 BY <1>1, FS_Interval
  <1> HIDE DEF n, used
  <1>7. ~(0..(n + 1) \subseteq used)
    <2>1. 0..(n + 1) \subseteq used => Cardinality(0..(n + 1)) <= Cardinality(used) BY <1>5, FS_Subset
    <2>. QED BY <1>1, <1>5, <1>6, <2>1
  <1>8. \E g \in Gens : ~InUse(g) BY <1>1, <1>2, <1>3, <1>7
  <1>. QED BY <1>8 DEF FreshGen
-----------------------------------------------------------------------------
(* One lemma per step.                                                      *)

\* An operation begins by asking for the lock.
LEMMA BeginOpStep == ASSUME IdleInv, NEW p \in Procs, BeginOp(p) PROVE IdleInv'
  <1> USE GensFacts, IdleAssumption DEF IdleInv
  <1>1. TypeOK'
    BY DEF TypeOK, Stages, BeginOp, Goto, control
  <1>2. GuardInv'
    BY DEF TypeOK, GuardInv, HoldsLock, NoReference, BeginOp, At, Goto
  <1>3. ThreadInv'
    BY DEF ThreadInv, Live, BeginOp, control
  <1>4. PhaseInv'
    BY DEF PhaseInv, BeginOp, Goto
  <1>5. StoppedInv'
    BY DEF StoppedInv, BeginOp
  <1>. QED BY <1>1, <1>2, <1>3, <1>4, <1>5

\* The lock is taken.
LEMMA LockStep == ASSUME IdleInv, NEW p \in Procs, Lock(p) PROVE IdleInv'
  <1> USE GensFacts, IdleAssumption DEF IdleInv
  <1>1. TypeOK'
    BY DEF TypeOK, Stages, Lock, Goto, control
  <1>2. GuardInv'
    BY DEF TypeOK, GuardInv, HoldsLock, NoReference, Lock, At, Goto
  <1>3. ThreadInv'
    BY DEF ThreadInv, Live, Lock, control
  <1>4. PhaseInv'
    BY DEF PhaseInv, Lock, Goto
  <1>5. StoppedInv'
    BY DEF StoppedInv, Lock
  <1>. QED BY <1>1, <1>2, <1>3, <1>4, <1>5

\* The loop is told to stop, or there is none.
LEMMA RequestStopStep == ASSUME IdleInv, NEW p \in Procs, RequestStop(p) PROVE IdleInv'
  <1> USE GensFacts, IdleAssumption DEF IdleInv
  <1>1. TypeOK'
    BY DEF TypeOK, Handles, Stages, RequestStop, Stopping, Goto, control
  <1>2. GuardInv'
    BY DEF TypeOK, GuardInv, HoldsLock, NoReference, RequestStop, At, Goto
  <1>3. ThreadInv'
    BY DEF TypeOK, Handles, ThreadInv, Live, RequestStop, Stopping, control
  <1>4. PhaseInv'
    BY DEF TypeOK, GuardInv, HoldsLock, PhaseInv, RequestStop, Stopping, At, Goto
  <1>5. StoppedInv'
    BY DEF StoppedInv, RequestStop
  <1>. QED BY <1>1, <1>2, <1>3, <1>4, <1>5

\* The stop flag is set.
LEMMA StopFlagStep == ASSUME IdleInv, NEW p \in Procs, StopFlag(p) PROVE IdleInv'
  <1> USE GensFacts, IdleAssumption DEF IdleInv
  <1>1. TypeOK'
    BY DEF TypeOK, Stages, StopFlag, Goto
  <1>2. GuardInv'
    BY DEF GuardInv, HoldsLock, NoReference, StopFlag, At, Goto
  <1>3. ThreadInv'
    BY DEF ThreadInv, Live, StopFlag
  <1>4. PhaseInv'
    BY DEF PhaseInv, StopFlag, Goto
  <1>5. StoppedInv'
    BY DEF StoppedInv, StopFlag
  <1>. QED BY <1>1, <1>2, <1>3, <1>4, <1>5

\* The socket is shut down.
LEMMA ShutSocketStep == ASSUME IdleInv, NEW p \in Procs, ShutSocket(p) PROVE IdleInv'
  <1> USE GensFacts, IdleAssumption DEF IdleInv
  <1>1. TypeOK'
    BY DEF TypeOK, Stages, ShutSocket, Goto
  <1>2. GuardInv'
    BY DEF GuardInv, HoldsLock, NoReference, ShutSocket, At, Goto
  <1>3. ThreadInv'
    BY DEF ThreadInv, Live, ShutSocket
  <1>4. PhaseInv'
    BY DEF PhaseInv, ShutSocket, Goto
  <1>5. StoppedInv'
    BY DEF StoppedInv, ShutSocket
  <1>. QED BY <1>1, <1>2, <1>3, <1>4, <1>5

\* How a waiter goes on once wait_for_imap_idle_stop has returned: the lock goes
\* with every outcome but those after which the invocation still needs it.
LEMMA WaitReturns ==
    ASSUME IdleInv, NEW p \in Procs, pc[p] \in {"wait", "join"}, WaitOk(p) \/ WaitErr(p)
    PROVE  /\ GuardInv'
           /\ accLock' \in Procs \cup {None} /\ stopped' \in BOOLEAN
           /\ pc' \in [Procs -> Stages] /\ gen' \in [Procs -> Gens \cup {0}]
           /\ why' \in [Procs -> {"suspend", "start", "stop"}]
           /\ pc'[p] \in {"work", "reserve", "idle", "lock"}
           /\ pc'[p] = "work" => WaitOk(p)
           /\ stopped' => stopped \/ (WaitOk(p) /\ ~enabled)
           /\ \A q \in Procs \ {p} : pc'[q] = pc[q] /\ gen'[q] = gen[q]
  <1> USE IdleAssumption DEF IdleInv
  <1>0. why[p] \in {"suspend", "start", "stop"} /\ pc \in [Procs -> Stages] /\ enabled \in BOOLEAN
    BY DEF TypeOK
  <1>1. /\ gen' = [gen EXCEPT ![p] = 0]
        /\ why' = why \/ (why' = [why EXCEPT ![p] = "start"] /\ pc' = [pc EXCEPT ![p] = "lock"])
        /\ \/ /\ pc' = [pc EXCEPT ![p] = "work"] /\ UNCHANGED <<accLock, stopped, why>>
              /\ why[p] = "suspend" /\ WaitOk(p)
           \/ pc' = [pc EXCEPT ![p] = "reserve"] /\ why[p] = "start" /\ UNCHANGED <<accLock, stopped, why>>
           \/ /\ pc' = [pc EXCEPT ![p] = "idle"] /\ accLock' = (IF accLock = p THEN None ELSE accLock)
              /\ (stopped' = stopped \/ (stopped' = ~enabled /\ WaitOk(p))) /\ why' = why
           \/ /\ pc' = [pc EXCEPT ![p] = "lock"] /\ accLock' = (IF accLock = p THEN None ELSE accLock)
              /\ why' = [why EXCEPT ![p] = "start"] /\ stopped' = stopped
    <2>1. CASE WaitErr(p) BY <2>1 DEF WaitErr, Return, Unlock, Goto
    <2>2. CASE WaitOk(p) /\ why[p] = "suspend" BY <2>2 DEF WaitOk, Goto
    <2>3. CASE WaitOk(p) /\ why[p] = "start" BY <2>3 DEF WaitOk, Goto
    <2>4. CASE WaitOk(p) /\ why[p] = "stop" BY <2>4 DEF WaitOk, Goto, Unlock
    <2>. QED BY <1>0, <2>1, <2>2, <2>3, <2>4
  <1>2. GuardInv'
    BY <1>0, <1>1 DEF TypeOK, GuardInv, HoldsLock, NoReference
  <1>3. /\ accLock' \in Procs \cup {None} /\ pc' \in [Procs -> Stages]
        /\ gen' \in [Procs -> Gens \cup {0}] /\ why' \in [Procs -> {"suspend", "start", "stop"}]
    BY <1>1 DEF TypeOK, Stages
  <1>4. stopped' \in BOOLEAN /\ (stopped' => stopped \/ (WaitOk(p) /\ ~enabled))
    <2>1. stopped' = stopped \/ (stopped' = ~enabled /\ WaitOk(p)) BY <1>1
    <2>2. stopped \in BOOLEAN /\ enabled \in BOOLEAN BY DEF TypeOK
    <2>3. CASE stopped' = stopped BY <2>2, <2>3
    <2>4. CASE stopped' = ~enabled /\ WaitOk(p)
      <3>1. CASE enabled = TRUE BY <2>4, <3>1
      <3>2. CASE enabled = FALSE BY <2>4, <3>2
      <3>. QED BY <2>2, <3>1, <3>2
    <2>. QED BY <2>1, <2>3, <2>4
  <1>5. /\ pc'[p] \in {"work", "reserve", "idle", "lock"} /\ (pc'[p] = "work" => WaitOk(p))
        /\ \A q \in Procs \ {p} : pc'[q] = pc[q] /\ gen'[q] = gen[q]
    BY <1>0, <1>1 DEF TypeOK
  <1>. QED BY <1>2, <1>3, <1>4, <1>5

\* One poll of a waiter.
LEMMA PollStep == ASSUME IdleInv, NEW p \in Procs, Poll(p) PROVE IdleInv'
  <1> USE DEF IdleInv
  <1>1. pc[p] = "wait" /\ UNCHANGED <<enabled, thr, stop, sock>> BY DEF Poll, At, control
  <1>2. CASE handle' = handle /\ (WaitErr(p) \/ (WaitOk(p) /\ handle = NoHandle))
    <2>1. TypeOK' /\ GuardInv' BY <1>1, <1>2, WaitReturns DEF TypeOK
    <2>2. ThreadInv' BY <1>1, <1>2 DEF ThreadInv, Live
    <2>3. WaitErr(p) => pc'[p] \in {"idle", "lock"} /\ stopped' = stopped
      BY DEF WaitErr, Return, Goto, TypeOK
    <2>4. PhaseInv' BY <1>1, <1>2, <2>3, WaitReturns DEF PhaseInv
    <2>5. StoppedInv' BY <1>1, <1>2, <2>3, WaitReturns DEF StoppedInv
    <2>. QED BY <2>1, <2>2, <2>4, <2>5
  <1>3. CASE /\ handle.gen = gen[p] /\ handle.thread /\ IsFinished(gen[p])
             /\ handle' = [handle EXCEPT !.phase = "Joining", !.thread = FALSE]
             /\ Goto(p, "join") /\ UNCHANGED <<accLock, why, gen, stopped>>
    <2>1. handle \in Handles BY DEF TypeOK
    <2>2. /\ handle' \in Handles /\ handle'.gen = handle.gen /\ handle'.phase = "Joining" /\ ~handle'.thread
      BY <1>3, <2>1 DEF Handles
    <2>3. pc' = [pc EXCEPT ![p] = "join"] BY <1>3 DEF Goto
    <2>4. handle # NoHandle BY <1>3 DEF NoHandle
    <2>5. TypeOK' BY <1>1, <1>3, <2>2, <2>3 DEF TypeOK, Stages
    <2>6. GuardInv' BY <1>1, <1>3, <2>3 DEF GuardInv, HoldsLock, NoReference
    <2>7. ThreadInv' BY <1>1, <1>3, <2>2 DEF ThreadInv, Live, IsFinished
    <2>8. PhaseInv' BY <1>1, <1>3, <2>2, <2>3, <2>4 DEF TypeOK, PhaseInv
    <2>9. StoppedInv' BY <1>3, <2>4 DEF StoppedInv
    <2>. QED BY <2>5, <2>6, <2>7, <2>8, <2>9
  <1>. QED BY <1>2, <1>3 DEF Poll

\* The thread is joined; its handle goes, or says that it failed.
LEMMA JoinStep == ASSUME IdleInv, NEW p \in Procs, Join(p) PROVE IdleInv'
  <1> USE DEF IdleInv
  <1>1. /\ pc[p] = "join" /\ handle.gen = gen[p] /\ handle.phase = "Joining" /\ ~handle.thread
        /\ \A q \in Procs \ {p} : pc[q] \notin {"join", "spawn", "work"}
        /\ ~stopped /\ handle # NoHandle
    BY DEF Join, At, PhaseInv, StoppedInv, NoHandle
  <1>2. /\ handle' \in {NoHandle, [handle EXCEPT !.phase = "StopFailed"]}
        /\ (WaitOk(p) /\ handle' = NoHandle) \/ WaitErr(p)
        /\ enabled' = enabled
    BY <1>1 DEF Join
  <1>3. handle' \in Handles /\ ~handle'.thread
    <2>1. NoHandle \in Handles /\ ~NoHandle.thread BY DEF Handles, NoHandle
    <2>2. [handle EXCEPT !.phase = "StopFailed"] \in Handles
          /\ ~[handle EXCEPT !.phase = "StopFailed"].thread
      BY <1>1 DEF TypeOK, Handles
    <2>. QED BY <1>2, <2>1, <2>2
  <1>4. TypeOK'
    <2>1. /\ thr' \in [Gens -> Threads] /\ sock' \in [Gens -> {"none", "open", "shut"}]
          /\ stop' \in [Gens -> BOOLEAN]
      BY DEF Join, TypeOK, Threads
    <2>. QED BY <1>1, <1>2, <1>3, <2>1, WaitReturns DEF TypeOK
  <1>5. GuardInv' BY <1>1, <1>2, WaitReturns
  <1>6. ThreadInv'
    <2>1. \A g \in Gens : ~Live(g)' BY <1>1 DEF ThreadInv, Live, Join
    <2>. QED BY <1>3, <2>1 DEF ThreadInv
  <1>7. WaitErr(p) => pc'[p] \in {"idle", "lock"} /\ stopped' = stopped
    BY DEF WaitErr, Return, Goto, TypeOK
  <1>8. PhaseInv' BY <1>1, <1>2, <1>7, WaitReturns DEF PhaseInv
  <1>9. StoppedInv' BY <1>1, <1>2, <1>7, WaitReturns DEF StoppedInv
  <1>. QED BY <1>4, <1>5, <1>6, <1>8, <1>9

\* The operation is done.
LEMMA WorkStep == ASSUME IdleInv, NEW p \in Procs, Work(p) PROVE IdleInv'
  <1> USE GensFacts, IdleAssumption DEF IdleInv
  <1>1. TypeOK'
    BY DEF TypeOK, Stages, Work, Goto, control
  <1>2. GuardInv'
    BY DEF TypeOK, GuardInv, HoldsLock, NoReference, Work, At, Goto
  <1>3. ThreadInv'
    BY DEF ThreadInv, Live, Work, control
  <1>4. PhaseInv'
    BY DEF PhaseInv, Work, At, Goto
  <1>5. StoppedInv'
    BY DEF StoppedInv, Work
  <1>. QED BY <1>1, <1>2, <1>3, <1>4, <1>5

\* A generation is reserved where nothing runs, or the start waits or gives up.
LEMMA ReserveStep == ASSUME IdleInv, NEW p \in Procs, Reserve(p) PROVE IdleInv'
  <1> USE DEF IdleInv
  <1>1. pc[p] = "reserve" /\ UNCHANGED <<enabled, stopped, why>>
    BY DEF Reserve, At, NewGeneration
  <1>2. CASE /\ Return(p) /\ UNCHANGED control
             /\ handle' = handle \/ (handle' = NoHandle /\ thr[handle.gen] = "panicked"
                                    /\ handle.phase = "Running")
    <2>1. /\ pc' = [pc EXCEPT ![p] = "idle"] /\ gen' = [gen EXCEPT ![p] = 0]
          /\ accLock' = (IF accLock = p THEN None ELSE accLock) /\ UNCHANGED <<thr, stop, sock>>
      BY <1>2 DEF Return, Goto, Unlock, control
    <2>2. TypeOK'
      <3>1. NoHandle \in Handles BY DEF NoHandle, Handles
      <3>. QED BY <1>1, <1>2, <2>1, <3>1 DEF TypeOK, Stages
    <2>3. GuardInv'
      BY <1>1, <2>1, IdleAssumption DEF TypeOK, GuardInv, HoldsLock, NoReference
    <2>4. ThreadInv' BY <1>2, <2>1 DEF ThreadInv, Live, NoHandle
    <2>5. PhaseInv' BY <1>1, <1>2, <2>1 DEF PhaseInv
    <2>6. StoppedInv' BY <1>1, <1>2 DEF StoppedInv
    <2>. QED BY <2>2, <2>3, <2>4, <2>5, <2>6
  <1>3. CASE /\ Goto(p, "wait") /\ gen' = [gen EXCEPT ![p] = handle.gen]
             /\ UNCHANGED <<accLock, handle, control>>
    <2>1. pc' = [pc EXCEPT ![p] = "wait"] /\ UNCHANGED <<accLock, handle, thr, stop, sock>>
      BY <1>3 DEF Goto, control
    <2>2. TypeOK' BY <1>1, <1>3, <2>1 DEF TypeOK, Stages, Handles
    <2>3. GuardInv' BY <1>1, <1>3, <2>1 DEF TypeOK, GuardInv, HoldsLock, NoReference
    <2>4. ThreadInv' BY <2>1 DEF ThreadInv, Live
    <2>5. PhaseInv' BY <1>1, <1>3, <2>1 DEF TypeOK, PhaseInv
    <2>6. StoppedInv' BY <1>1, <2>1 DEF StoppedInv
    <2>. QED BY <2>2, <2>3, <2>4, <2>5, <2>6
  <1>4. CASE enabled /\ handle.phase \in {"none", "StopFailed"} /\ NewGeneration(p, FreshGen)
    <2> DEFINE g == FreshGen
    <2>1. g \in Gens BY FreshGenIsFresh DEF Reserve
    <2>2. /\ handle' = [gen |-> g, phase |-> "Starting", thread |-> FALSE]
          /\ thr' = [thr EXCEPT ![g] = "none"] /\ stop' = [stop EXCEPT ![g] = FALSE]
          /\ sock' = [sock EXCEPT ![g] = "none"]
          /\ gen' = [gen EXCEPT ![p] = g] /\ pc' = [pc EXCEPT ![p] = "spawn"] /\ accLock' = accLock
      BY <1>4 DEF NewGeneration, Goto
    <2> HIDE DEF g
    <2>3. TypeOK'
      <3>1. handle' \in Handles BY <2>1, <2>2 DEF Handles
      <3>2. stop' \in [Gens -> BOOLEAN] BY <2>2 DEF TypeOK
      <3>3. thr' \in [Gens -> Threads] /\ sock' \in [Gens -> {"none", "open", "shut"}]
            /\ gen' \in [Procs -> Gens \cup {0}] /\ pc' \in [Procs -> Stages]
        BY <2>1, <2>2 DEF TypeOK, Threads, Stages
      <3>. QED BY <1>1, <2>2, <3>1, <3>2, <3>3 DEF TypeOK
    <2>4. GuardInv' BY <1>1, <2>2 DEF TypeOK, GuardInv, HoldsLock, NoReference
    <2>5. ThreadInv'
      <3>1. \A h \in Gens : ~Live(h) BY <1>4 DEF ThreadInv
      <3>. QED BY <2>2, <3>1 DEF TypeOK, ThreadInv, Live
    <2>6. PhaseInv'
      <3>1. \A q \in Procs \ {p} : pc[q] \notin {"work", "spawn", "join"} /\ pc'[q] = pc[q]
        BY <1>1, <1>4, <2>2 DEF PhaseInv, GuardInv, HoldsLock
      <3>2. pc'[p] = "spawn" /\ gen'[p] = g BY <2>2 DEF TypeOK
      <3>. QED BY <2>2, <3>1, <3>2 DEF PhaseInv
    <2>7. StoppedInv' BY <1>1, <1>4 DEF StoppedInv
    <2>. QED BY <2>3, <2>4, <2>5, <2>6, <2>7
  <1>. QED BY <1>2, <1>3, <1>4 DEF Reserve

\* The reserved generation gets its thread, or is given up.
LEMMA SpawnStep == ASSUME IdleInv, NEW p \in Procs, Spawn(p) PROVE IdleInv'
  <1> USE GensFacts, IdleAssumption DEF IdleInv
  <1>0. /\ handle.gen = gen[p] /\ handle.phase \in {"Starting", "Stopping"} /\ ~handle.thread
        /\ handle' \in {NoHandle, [handle EXCEPT !.phase = "Running", !.thread = TRUE]}
        /\ \A g \in Gens : ~Live(g)
    BY DEF Spawn, At, PhaseInv, ThreadInv
  <1>1. TypeOK'
    <2>1. handle' \in Handles
      <3>1. NoHandle \in Handles BY DEF Handles, NoHandle
      <3>2. [handle EXCEPT !.phase = "Running", !.thread = TRUE] \in Handles BY DEF TypeOK, Handles
      <3>. QED BY <1>0, <3>1, <3>2
    <2>2. thr' \in [Gens -> Threads] BY DEF Spawn, TypeOK, Threads
    <2>3. /\ accLock' \in Procs \cup {None} /\ pc' \in [Procs -> Stages] /\ gen' \in [Procs -> Gens \cup {0}]
      BY DEF Spawn, Return, Unlock, Goto, TypeOK, Stages
    <2>. QED BY <2>1, <2>2, <2>3 DEF Spawn, TypeOK
  <1>2. GuardInv'
    BY DEF TypeOK, GuardInv, HoldsLock, NoReference, Spawn, Return, Unlock, Goto
  <1>3. ThreadInv'
    <2>1. CASE UNCHANGED thr /\ handle' = NoHandle
      BY <1>0, <2>1 DEF ThreadInv, Live, NoHandle
    <2>2. CASE /\ handle' = [handle EXCEPT !.phase = "Running", !.thread = TRUE]
               /\ thr' = [thr EXCEPT ![gen[p]] = "check"]
      BY <1>0, <2>2 DEF ThreadInv, Live
    <2>. QED BY <1>0, <2>1, <2>2 DEF Spawn
  <1>4. PhaseInv'
    BY DEF TypeOK, GuardInv, HoldsLock, PhaseInv, Spawn, Return, At, Goto
  <1>5. StoppedInv'
    BY DEF StoppedInv, NoHandle, Spawn
  <1>. QED BY <1>1, <1>2, <1>3, <1>4, <1>5

\* start_idle takes the lock or leaves the account alone.
LEMMA TryLockStep == ASSUME IdleInv, NEW p \in Procs, TryLock(p) PROVE IdleInv'
  <1> USE GensFacts, IdleAssumption DEF IdleInv
  <1>1. TypeOK'
    BY DEF TypeOK, Stages, TryLock, Goto, control
  <1>2. GuardInv'
    BY DEF TypeOK, GuardInv, HoldsLock, NoReference, TryLock, At, Goto
  <1>3. ThreadInv'
    BY DEF ThreadInv, Live, TryLock, control
  <1>4. PhaseInv'
    BY DEF TypeOK, PhaseInv, TryLock, Goto
  <1>5. StoppedInv'
    BY DEF StoppedInv, TryLock
  <1>. QED BY <1>1, <1>2, <1>3, <1>4, <1>5

\* IDLE is enabled.
LEMMA StartIdleStep == ASSUME IdleInv, NEW p \in Procs, StartIdle(p) PROVE IdleInv'
  <1> USE GensFacts, IdleAssumption DEF IdleInv
  <1>1. TypeOK'
    BY DEF TypeOK, Stages, StartIdle, Goto, control
  <1>2. GuardInv'
    BY DEF TypeOK, GuardInv, HoldsLock, NoReference, StartIdle, At, Goto
  <1>3. ThreadInv'
    BY DEF ThreadInv, Live, StartIdle, control
  <1>4. PhaseInv'
    BY DEF PhaseInv, StartIdle, Goto
  <1>5. StoppedInv'
    BY DEF StoppedInv, StartIdle
  <1>. QED BY <1>1, <1>2, <1>3, <1>4, <1>5

\* IDLE is disabled, and the loop told to stop.
LEMMA StopIdleStep == ASSUME IdleInv, NEW p \in Procs, StopIdle(p) PROVE IdleInv'
  <1> USE GensFacts, IdleAssumption DEF IdleInv
  <1>1. TypeOK'
    <2>1. handle' \in Handles BY DEF StopIdle, Stopping, TypeOK, Handles
    <2>2. stopped' \in BOOLEAN BY DEF StopIdle, TypeOK
    <2>3. /\ why' \in [Procs -> {"suspend", "start", "stop"}] /\ pc' \in [Procs -> Stages]
          /\ gen' \in [Procs -> Gens \cup {0}]
      BY DEF StopIdle, Goto, TypeOK, Handles, Stages
    <2>. QED BY <2>1, <2>2, <2>3 DEF StopIdle, control, TypeOK
  <1>2. GuardInv'
    BY DEF TypeOK, GuardInv, HoldsLock, NoReference, StopIdle, At, Goto
  <1>3. ThreadInv'
    BY DEF TypeOK, Handles, ThreadInv, Live, StopIdle, Stopping, control
  <1>4. PhaseInv'
    BY DEF TypeOK, Handles, PhaseInv, StopIdle, Stopping, Goto
  <1>5. StoppedInv'
    <2>1. CASE handle = NoHandle BY <2>1 DEF StopIdle, StoppedInv
    <2>2. CASE handle # NoHandle BY <2>2 DEF StopIdle, StoppedInv
    <2>. QED BY <2>1, <2>2
  <1>. QED BY <1>1, <1>2, <1>3, <1>4, <1>5

\* What the loop's own thread does.
LEMMA ThreadStep ==
    ASSUME IdleInv, NEW g \in Gens, Thread(g) \/ ThreadReturns(g) \/ ThreadPanics(g)
    PROVE  IdleInv'
  <1> USE DEF IdleInv
  <1>1. /\ UNCHANGED <<enabled, accLock, handle, stop, pc, why, gen, stopped>>
        /\ thr' \in [Gens -> Threads] /\ sock' \in [Gens -> {"none", "open", "shut"}]
    BY DEF TypeOK, Threads, Thread, ThreadCheck, ThreadConnect, ThreadWoken, ThreadReturns, ThreadPanics, SetThread
  <1>2. \A h \in Gens : Live(h)' => Live(h)
    BY DEF TypeOK, Live, Thread, ThreadCheck, ThreadConnect, ThreadWoken, ThreadReturns, ThreadPanics, SetThread

  <1>3. TypeOK' BY <1>1 DEF TypeOK
  <1>4. GuardInv' /\ PhaseInv' /\ StoppedInv'
    BY <1>1 DEF GuardInv, HoldsLock, NoReference, PhaseInv, StoppedInv
  <1>5. ThreadInv' BY <1>1, <1>2 DEF ThreadInv
  <1>. QED BY <1>3, <1>4, <1>5

-----------------------------------------------------------------------------
\* Every step of the lifecycle, and stuttering, preserves the invariant.
THEOREM IdleInductive == IdleInv /\ [Next]_vars => IdleInv'
  <1> SUFFICES ASSUME IdleInv, [Next]_vars PROVE IdleInv' OBVIOUS
  <1>1. CASE UNCHANGED vars
    BY <1>1 DEF vars, IdleInv, TypeOK, GuardInv, HoldsLock, NoReference, ThreadInv, Live, PhaseInv, StoppedInv
  <1>2. ASSUME NEW p \in Procs, BeginOp(p) \/ StartIdle(p) \/ StopIdle(p) \/ Step(p) PROVE IdleInv'
    BY <1>2, BeginOpStep, StartIdleStep, StopIdleStep, LockStep, RequestStopStep, StopFlagStep,
       ShutSocketStep, PollStep, JoinStep, WorkStep, ReserveStep, SpawnStep, TryLockStep DEF Step
  <1>3. ASSUME NEW g \in Gens, Thread(g) \/ ThreadReturns(g) \/ ThreadPanics(g) PROVE IdleInv'
    BY <1>3, ThreadStep
  <1>. QED BY <1>1, <1>2, <1>3 DEF Next

\* The lifecycle's invariant holds in every reachable state.
THEOREM IdleInvariant == Spec => []IdleInv
  <1>1. Init => IdleInv
    <2> SUFFICES ASSUME Init PROVE IdleInv OBVIOUS
    <2>1. TypeOK BY DEF Init, TypeOK, NoHandle, Handles, Stages, Threads
    <2>2. GuardInv BY IdleAssumption DEF Init, GuardInv, HoldsLock
    <2>3. ThreadInv /\ PhaseInv /\ StoppedInv
      BY DEF Init, ThreadInv, Live, PhaseInv, StoppedInv, NoHandle
    <2>. QED BY <2>1, <2>2, <2>3 DEF IdleInv
  <1>. QED BY <1>1, IdleInductive, PTL DEF Spec

\* The account never has two IDLE connections, and never one it cannot stop.
THEOREM IdleOneThread == Spec => []OneIdleThread
  <1>1. IdleInv => OneIdleThread BY DEF IdleInv, ThreadInv, OneIdleThread
  <1>. QED BY <1>1, IdleInvariant, PTL

\* The IDLE loop is down while an operation works on its own connection.
THEOREM IdleSuspended == Spec => []SuspendedWhileWorking
  <1>1. IdleInv => SuspendedWhileWorking
    BY DEF IdleInv, ThreadInv, PhaseInv, NoHandle, SuspendedWhileWorking, At
  <1>. QED BY <1>1, IdleInvariant, PTL

\* After stop_idle has reported success nothing runs until start_idle.
THEOREM IdleStopped == Spec => []StoppedStaysDown
  <1>1. IdleInv => StoppedStaysDown
    BY DEF IdleInv, ThreadInv, StoppedInv, NoHandle, StoppedStaysDown
  <1>. QED BY <1>1, IdleInvariant, PTL

-----------------------------------------------------------------------------
(* The mail-sync guard: exclusion and the memory of deferred requests are, *)
(* with the types, inductive.                                              *)

SyncIInv == SyncTypeOK /\ SyncExclusive /\ RequestRemembered

\* Initially nobody syncs and nothing is asked for.
LEMMA SyncInitEstablishes == SyncInit => SyncIInv
  <1>. SUFFICES ASSUME SyncInit PROVE SyncIInv
    OBVIOUS
  <1>1. SyncTypeOK
    <2>1. others \in 0..MaxOthers BY SyncAssumption DEF SyncInit
    <2>2. kind \in [Callers -> Kinds \cup {"deferred"}] BY DEF SyncInit
    <2>3. at \in [Callers -> {"idle", "acquire", "defer", "run", "take", "reacquire"}]
      BY DEF SyncInit
    <2>. QED BY <2>1, <2>2, <2>3 DEF SyncInit, SyncTypeOK
  <1>2. SyncExclusive BY DEF SyncInit, SyncExclusive, IsAt
  <1>3. RequestRemembered BY DEF SyncInit, RequestRemembered
  <1>. QED BY <1>1, <1>2, <1>3 DEF SyncIInv

\* A new call may ask for a sync, and then carries the request itself.
LEMMA GuardCallStep ==
  ASSUME SyncIInv, NEW p \in Callers, NEW k \in Kinds, Call(p, k) PROVE SyncIInv'
  <1>1. SyncTypeOK'
    <2>1. others' \in 0..MaxOthers BY SyncAssumption DEF SyncIInv, SyncTypeOK, Call
    <2>2. at' \in [Callers -> {"idle", "acquire", "defer", "run", "take", "reacquire"}]
      BY DEF SyncIInv, SyncTypeOK, Call, GoOn
    <2>3. kind' \in [Callers -> Kinds \cup {"deferred"}] BY DEF SyncIInv, SyncTypeOK, Call
    <2>4. flag' \in BOOLEAN /\ pending' \in BOOLEAN /\ owed' \in BOOLEAN
      BY DEF SyncIInv, SyncTypeOK, Call
    <2>. QED BY <2>1, <2>2, <2>3, <2>4 DEF SyncTypeOK
  <1>2. SyncExclusive' BY DEF SyncIInv, SyncTypeOK, SyncExclusive, Call, GoOn, IsAt
  <1>3. RequestRemembered' BY DEF SyncIInv, SyncTypeOK, RequestRemembered, Call, GoOn, IsAt
  <1>. QED BY <1>1, <1>2, <1>3 DEF SyncIInv

\* Only the task that found the flag clear goes on to run.
LEMMA GuardAcquireStep == ASSUME SyncIInv, NEW p \in Callers, Acquire(p) PROVE SyncIInv'
  <1>. USE DEF SyncIInv, SyncTypeOK, Acquire, Begin, GoOn, IsAt
  <1>1. SyncTypeOK' BY DEF SyncTypeOK
  <1>2. SyncExclusive' BY DEF SyncExclusive
  <1>3. RequestRemembered' BY SyncAssumption DEF RequestRemembered
  <1>. QED BY <1>1, <1>2, <1>3

\* The request moves from the task to the map of deferred requests.
LEMMA GuardDeferStep == ASSUME SyncIInv, NEW p \in Callers, Defer(p) PROVE SyncIInv'
  <1>. USE DEF SyncIInv, SyncTypeOK, Defer, GoOn, IsAt
  <1>1. SyncTypeOK' BY DEF SyncTypeOK
  <1>2. SyncExclusive' BY DEF SyncExclusive
  <1>3. RequestRemembered' BY DEF RequestRemembered
  <1>. QED BY <1>1, <1>2, <1>3

\* The only holder clears the flag.
LEMMA GuardReleaseStep == ASSUME SyncIInv, NEW p \in Callers, Release(p) PROVE SyncIInv'
  <1>. USE DEF SyncIInv, SyncTypeOK, Release, GoOn, IsAt
  <1>1. SyncTypeOK' BY DEF SyncTypeOK
  <1>2. SyncExclusive' BY DEF SyncExclusive
  <1>3. RequestRemembered' BY DEF RequestRemembered
  <1>. QED BY <1>1, <1>2, <1>3

\* The request moves from the map back to the task that took it.
LEMMA GuardTakeStep == ASSUME SyncIInv, NEW p \in Callers, Take(p) PROVE SyncIInv'
  <1>. USE DEF SyncIInv, SyncTypeOK, Take, GoOn, IsAt
  <1>1. SyncTypeOK' BY DEF SyncTypeOK
  <1>2. SyncExclusive' BY DEF SyncExclusive
  <1>3. RequestRemembered' BY DEF RequestRemembered
  <1>. QED BY <1>1, <1>2, <1>3

\* A taken request is run under the guard, or handed back.
LEMMA GuardReacquireStep == ASSUME SyncIInv, NEW p \in Callers, Reacquire(p) PROVE SyncIInv'
  <1>. USE DEF SyncIInv, SyncTypeOK, Reacquire, GoOn, IsAt
  <1>1. SyncTypeOK' BY DEF SyncTypeOK
  <1>2. SyncExclusive' BY DEF SyncExclusive
  <1>3. RequestRemembered' BY DEF RequestRemembered
  <1>. QED BY <1>1, <1>2, <1>3

\* Every step of every command, and stuttering, preserves the invariant.
THEOREM MailSyncInductive == SyncIInv /\ [SyncNext]_syncVars => SyncIInv'
  <1>. SUFFICES ASSUME SyncIInv, [SyncNext]_syncVars PROVE SyncIInv'
    OBVIOUS
  <1>1. CASE UNCHANGED syncVars
    BY <1>1 DEF syncVars, SyncIInv, SyncTypeOK, SyncExclusive, RequestRemembered, IsAt
  <1>2. CASE SyncNext
    <2>1. ASSUME NEW p \in Callers, SyncStep(p) PROVE SyncIInv'
      BY <2>1, GuardAcquireStep, GuardDeferStep, GuardReleaseStep, GuardTakeStep, GuardReacquireStep DEF SyncStep
    <2>2. ASSUME NEW p \in Callers, NEW k \in Kinds, Call(p, k) PROVE SyncIInv'
      BY <2>2, GuardCallStep
    <2>. QED BY <1>2, <2>1, <2>2 DEF SyncNext
  <1>. QED BY <1>1, <1>2

\* At most one sync or prefetch of the account runs at a time, for any number of
\* concurrent commands, and sync_in_progress says exactly whether one does.
THEOREM MailSyncExclusion == SyncSpec => []SyncExclusive
  <1>1. SyncIInv => SyncExclusive BY DEF SyncIInv
  <1>. QED BY SyncInitEstablishes, MailSyncInductive, <1>1, PTL DEF SyncSpec

\* A requested sync that has not started is recorded as deferred or still
\* carried by a task, however many tasks hand it back and forth.
THEOREM MailSyncRemembers == SyncSpec => []RequestRemembered
  <1>1. SyncIInv => RequestRemembered BY DEF SyncIInv
  <1>. QED BY SyncInitEstablishes, MailSyncInductive, <1>1, PTL DEF SyncSpec
=============================================================================
