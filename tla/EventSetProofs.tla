--------------------------- MODULE EventSetProofs ---------------------------
(***************************************************************************)
(* The safety properties of the event-set writes, for every recurrence,    *)
(* every set of other clients' changes and any number of calls cut short.   *)
(***************************************************************************)
EXTENDS EventSetWrites, TLAPS

\* The calls that change a set in place.
Updates == {"series", "rule", "reset", "occurrence", "exclude"}

\* What can be part of a content: other clients' changes, the call's, what was there.
Changes == Edits \cup {"own", "old"}

\* Types.
Content == [st : {"live", "generated", "excluded", "none"}, body : SUBSET Changes]
EventSets == [parts : [Parts -> Content], revs : [Parts -> Nat]]
Calls == [kind : Updates \cup {"none", "create", "delete"}, at : Parts, before : EventSets,
          desired : [Parts -> Content], view : EventSets, todo : SUBSET Parts,
          patched : BOOLEAN,
          pc : {"idle", "insert", "check", "delete", "write", "master", "refetch", "replay",
                "reread", "verify", "done", "failed"}]

\* Only a live part has content, and all of it was put there by someone.
Accounted(parts) ==
    \A p \in Parts : /\ parts[p].st # "live" => parts[p].body = {}
                     /\ parts[p].body \subseteq made \cup {"own", "old"}

\* Nothing the call wants is in it.
Untouched(parts) == \A p \in Parts : "own" \notin parts[p].body

\* The source as it is, and as the call read it.
Src == remote["src"].parts
Was == call.before.parts

\* Types of the state.
TypeInv ==
    /\ provider \in {"jmap", "caldav", "google", "graph"}
    /\ detached \in SUBSET Positions
    /\ remote \in [Slots -> EventSets]
    /\ clock \in Nat
    /\ call \in Calls
    /\ failures \in Nat
    /\ made \in SUBSET Edits
    /\ lost \in SUBSET Edits

\* Which call is in which step, of which protocol.
FlowInv ==
    /\ call.pc = "idle" => call = Idle /\ lost = {} /\ Untouched(Src) /\ Src["master"].st = "live"
    /\ call.pc # "idle" => call.kind # "none"
    /\ call.pc = "insert" => call.kind = "create"
    /\ call.pc = "delete" => call.kind = "delete"
    /\ call.pc = "write" => call.kind \in Updates /\ provider \in {"jmap", "caldav"}
    /\ call.pc = "check" => call.kind # "create" /\ provider = "google"
    /\ call.pc = "master" => call.kind \in Updates /\ provider \in {"google", "graph"}
    /\ call.pc = "replay" => call.kind # "delete" /\ provider \in {"google", "graph"}
    /\ call.pc \in {"refetch", "reread"} => call.kind # "delete" /\ provider = "graph"

\* Contents are of somebody's making, at the provider, in the snapshot and in the plan.
ContentInv ==
    /\ \A s \in Slots : Accounted(remote[s].parts)
    /\ Accounted(Was)
    /\ Accounted(call.desired)

\* A revision identifies what a part held when the call read it.
RevisionInv ==
    /\ \A s \in Slots, p \in Parts : remote[s].revs[p] <= clock
    /\ \A p \in Parts : call.before.revs[p] <= clock
    /\ call.pc # "idle" => \A p \in Parts : Unwritten("src", p) => Src[p] = Was[p]

\* An update started from a set without its change, and a master it changes gets it.
UpdateInv ==
    call.kind \in Updates =>
        /\ Was["master"].st = "live" /\ Untouched(Was)
        /\ call.desired["master"] = Was["master"] \/ "own" \in call.desired["master"].body

\* Nothing is lost as long as Google's master is untouched; once it is written it
\* shows, so the call is not taken up again as if nothing had happened. Until then an
\* occurrence generated in the snapshot is generated, or shows that it was changed.
SurvivalInv ==
    /\ provider \in {"jmap", "caldav"} => lost = {}
    /\ provider = "google" =>
        /\ call.kind # "delete" /\ ~call.patched => lost = {}
        /\ call.pc \in {"check", "master"} \/ call.kind = "delete" => ~call.patched
        /\ call.pc = "replay" /\ call.kind = "create" => call.patched
        /\ call.kind \in Updates /\ call.patched => "own" \in Src["master"].body
        /\ call.kind \in Updates /\ ~call.patched => \A p \in Positions :
              /\ Src[p].st = "generated" => Was[p].st = "generated"
              /\ Was[p].st = "generated" =>
                    /\ call.desired[p].st # "live" \/ "own" \in call.desired[p].body
                    /\ Src[p].st # "live" \/ ~(Src[p].body \subseteq Was["master"].body)

\* Nobody else has changed anything, and the update does not change the rule.
Undisturbed == made = {} /\ call.kind \in Updates \ {"rule"}

\* What is to be made generated again was an exception in the snapshot.
TodoInv ==
    /\ call.kind \in Updates /\ call.pc \in {"replay", "reread"}
    /\ provider = "google" \/ Undisturbed
    => \A p \in call.todo : p \in Positions /\ (call.desired[p].st # "generated" \/ Was[p].st # "generated")

\* The set is part by part the snapshot or the plan. A part is generated again only
\* with the new master in place, or else it holds what that master generates.
PlanInv ==
    Undisturbed =>
        /\ call.desired = Desired(call.kind, call.at, Was)
        /\ call.at # "master" <=> call.kind \in {"occurrence", "exclude"}
        /\ call.at # "master" => Was[call.at].st # "excluded"
        /\ provider = "caldav" /\ call.kind = "reset" => \A p \in detached : Was[p].st = "generated"
        /\ Src["master"] \in {Was["master"], call.desired["master"]}
        /\ \A p \in Positions :
              \/ Src[p] = Was[p]
              \/ Src[p] = call.desired[p] /\ (Src[p].st = "generated" => Src["master"] = call.desired["master"])
              \/ /\ call.desired[p].st = "generated" /\ Was[p].st # "generated"
                 /\ Src[p] = Live(call.desired["master"].body)

\* Graph's last read of the copy is what the copy still is.
CopyInv ==
    made = {} /\ call.kind = "create" =>
        /\ call.pc = "done" => SemanticEq(remote["copy"].parts, call.desired)
        /\ call.pc = "replay" /\ provider = "graph" => call.view.parts = remote["copy"].parts

EventSetInv ==
    /\ TypeInv /\ FlowInv /\ ContentInv /\ RevisionInv /\ UpdateInv
    /\ SurvivalInv /\ TodoInv /\ PlanInv /\ CopyInv

-----------------------------------------------------------------------------
(* The writes.                                                              *)

\* Where a write into a slot leaves the slots and the clock.
LEMMA WriteFacts ==
    ASSUME TypeInv, NEW s \in Slots, NEW P \in SUBSET Parts, NEW f \in [Parts -> Content],
           Write(s, P, f)
    PROVE  /\ remote' \in [Slots -> EventSets]
           /\ clock' = clock + 1 /\ clock' \in Nat
           /\ \A t \in Slots : t # s => remote'[t] = remote[t]
           /\ \A p \in Parts : remote'[s].parts[p] = IF p \in P THEN f[p] ELSE remote[s].parts[p]
           /\ \A p \in Parts : \/ remote'[s].revs[p] = clock + 1
                               \/ p \notin P /\ remote'[s].revs[p] = remote[s].revs[p]
  <1> DEFINE touched == {Resource(p) : p \in P}
             parts == [p \in Parts |-> IF p \in P THEN f[p] ELSE remote[s].parts[p]]
             revs == [p \in Parts |-> IF Resource(p) \in touched THEN clock + 1
                                                                ELSE remote[s].revs[p]]
  <1>1. remote' = [remote EXCEPT ![s] = [parts |-> parts, revs |-> revs]] /\ clock' = clock + 1
    BY DEF Write
  <1>2. remote[s] \in EventSets /\ clock \in Nat
    BY DEF TypeInv
  <1>3. parts \in [Parts -> Content] /\ revs \in [Parts -> Nat]
    BY <1>2 DEF EventSets
  <1>4. \A p \in P : Resource(p) \in touched
    OBVIOUS
  <1>5. [parts |-> parts, revs |-> revs] \in EventSets
    BY <1>3 DEF EventSets
  <1>6. remote'[s] = [parts |-> parts, revs |-> revs]
    BY <1>1 DEF TypeInv
  <1>7. remote'[s].parts = parts /\ remote'[s].revs = revs
    BY <1>6
  <1> HIDE DEF touched
  <1>8. \A p \in Parts : revs[p] = clock + 1 \/ (p \notin P /\ revs[p] = remote[s].revs[p])
    BY <1>4
  <1>9. \A p \in Parts : parts[p] = IF p \in P THEN f[p] ELSE remote[s].parts[p]
    OBVIOUS
  <1> HIDE DEF parts, revs
  <1>10. remote' \in [Slots -> EventSets] /\ \A t \in Slots : t # s => remote'[t] = remote[t]
    BY <1>1, <1>5 DEF TypeInv
  <1> QED
    BY <1>1, <1>2, <1>7, <1>8, <1>9, <1>10

\* What a write overwrites is counted as lost only if another client put it there
\* after the call had read the set.
LEMMA WriteLosesNothing ==
    ASSUME NEW s \in Slots, NEW P, NEW f, Write(s, P, f),
           \A p \in P : (remote[s].parts[p].body \cap Edits)
                            \subseteq IF s = "src" THEN Was[p].body ELSE {}
    PROVE  lost' = lost
  <1> DEFINE gone(p) == (remote[s].parts[p].body \cap Edits)
                           \ (IF s = "src" THEN Was[p].body \cup f[p].body ELSE f[p].body)
  <1>1. lost' = lost \cup UNION {gone(p) : p \in P}
    BY DEF Write, Was
  <1>2. \A p \in P : gone(p) = {}
    OBVIOUS
  <1> QED
    BY <1>1, <1>2

\* What a write overwrites is some other client's change.
LEMMA LostIsMade ==
    ASSUME NEW s, NEW P, NEW f, Write(s, P, f), lost \in SUBSET Edits
    PROVE  lost' \in SUBSET Edits
  BY DEF Write

\* What stays as it was for a step of the call: its plan.
SamePlan ==
    /\ call' \in Calls
    /\ call'.kind = call.kind /\ call'.at = call.at
    /\ call'.before = call.before /\ call'.desired = call.desired
    /\ call.pc # "idle" /\ call'.pc # "idle"

\* A step of the call that changes nothing at the provider.
LEMMA QuietFrame ==
    ASSUME EventSetInv, SamePlan, KeepRemote, UNCHANGED <<provider, detached, made>>,
           failures' \in Nat,
           provider = "google" => \/ call'.patched = call.patched
                                  \/ call.kind = "create" /\ call'.patched,
           call'.pc \in {"check", "master"} /\ provider = "google" => ~call'.patched,
           call'.pc = "replay" /\ call.kind = "create" /\ provider = "google" => call'.patched
    PROVE  TypeInv' /\ ContentInv' /\ RevisionInv' /\ UpdateInv' /\ SurvivalInv' /\ PlanInv'
  <1>1. /\ call' \in Calls /\ call'.kind = call.kind /\ call'.at = call.at
        /\ call'.before = call.before /\ call'.desired = call.desired
        /\ call.pc # "idle" /\ call'.pc # "idle"
    BY DEF SamePlan
  <1>2. Src' = Src /\ Was' = Was /\ remote' = remote /\ clock' = clock /\ lost' = lost
    BY <1>1 DEF KeepRemote, Src, Was
  <1>3. TypeInv'
    BY <1>1, <1>2 DEF EventSetInv, TypeInv
  <1>4. ContentInv'
    BY <1>1, <1>2 DEF EventSetInv, ContentInv, Accounted
  <1>5. RevisionInv'
    BY <1>1, <1>2 DEF EventSetInv, RevisionInv, Unwritten
  <1>6. UpdateInv'
    BY <1>1, <1>2 DEF EventSetInv, UpdateInv, Untouched
  <1>7. SurvivalInv'
    BY <1>1, <1>2 DEF EventSetInv, SurvivalInv, Updates
  <1>8. PlanInv'
    BY <1>1, <1>2 DEF EventSetInv, PlanInv, Undisturbed
  <1> QED
    BY <1>3, <1>4, <1>5, <1>6, <1>7, <1>8

\* A step of the call that writes.
LEMMA WriteFrame ==
    ASSUME EventSetInv, SamePlan, Keep,
           NEW s \in Slots, NEW P \in SUBSET Parts, NEW f \in [Parts -> Content],
           Accounted(f), Write(s, P, f)
    PROVE  TypeInv' /\ ContentInv' /\ RevisionInv' /\ UpdateInv'
  <1>1. /\ call' \in Calls /\ call'.kind = call.kind /\ call'.at = call.at
        /\ call'.before = call.before /\ call'.desired = call.desired
        /\ call.pc # "idle" /\ call'.pc # "idle"
    BY DEF SamePlan
  <1>2. /\ TypeInv /\ ContentInv /\ RevisionInv /\ UpdateInv
        /\ provider' = provider /\ detached' = detached /\ failures' = failures /\ made' = made
    BY DEF EventSetInv, Keep
  <1>3. /\ remote' \in [Slots -> EventSets]
        /\ clock' = clock + 1 /\ clock' \in Nat
        /\ \A t \in Slots : t # s => remote'[t] = remote[t]
        /\ \A p \in Parts : remote'[s].parts[p] = IF p \in P THEN f[p] ELSE remote[s].parts[p]
        /\ \A p \in Parts : \/ remote'[s].revs[p] = clock + 1
                            \/ p \notin P /\ remote'[s].revs[p] = remote[s].revs[p]
    BY <1>2, WriteFacts
  <1>4. Was' = Was /\ clock \in Nat
    BY <1>1, <1>2 DEF Was, TypeInv
  <1>5. TypeInv'
    BY <1>1, <1>2, <1>3, LostIsMade DEF TypeInv
  <1>6. ContentInv'
    BY <1>1, <1>2, <1>3, <1>4 DEF ContentInv, Accounted
  <1>7. \A t \in Slots, p \in Parts : remote[t].revs[p] \in Nat /\ remote[t].revs[p] <= clock
    BY <1>2 DEF TypeInv, RevisionInv, EventSets
  <1>8. \A p \in Parts : call.before.revs[p] \in Nat /\ call.before.revs[p] <= clock
    BY <1>2 DEF TypeInv, RevisionInv, EventSets, Calls
  <1>9. \A t \in Slots, p \in Parts : remote'[t].revs[p] <= clock'
    BY <1>3, <1>4, <1>7
  <1>10. \A p \in Parts : call'.before.revs[p] <= clock'
    BY <1>1, <1>3, <1>4, <1>8
  <1>11. ASSUME NEW p \in Parts, remote'["src"].revs[p] = call.before.revs[p]
         PROVE  remote'["src"].parts[p] = call.before.parts[p]
    <2>1. remote'["src"].revs[p] # clock + 1
      BY <1>3, <1>4, <1>8, <1>11
    <2>2. remote'["src"].revs[p] = remote["src"].revs[p]
          /\ remote'["src"].parts[p] = remote["src"].parts[p]
      BY <1>3, <2>1 DEF Slots
    <2> QED
      BY <1>1, <1>2, <1>11, <2>2 DEF RevisionInv, Unwritten, Src, Was
  <1>12. RevisionInv'
    BY <1>1, <1>9, <1>10, <1>11 DEF RevisionInv, Unwritten, Src, Was
  <1>13. UpdateInv'
    BY <1>1, <1>2, <1>4 DEF UpdateInv, Untouched
  <1> QED
    BY <1>5, <1>6, <1>12, <1>13

\* A write into the copy leaves the source's invariants alone.
LEMMA CopyWriteFrame ==
    ASSUME EventSetInv, SamePlan, Keep, call.kind = "create",
           NEW P \in SUBSET Parts, NEW f \in [Parts -> Content], Accounted(f),
           Write("copy", P, f),
           provider \in {"jmap", "caldav"} \/ (provider = "google" /\ ~call'.patched) => lost' = {},
           provider = "google" /\ call'.pc \in {"check", "master"} => ~call'.patched,
           provider = "google" /\ call'.pc = "replay" => call'.patched
    PROVE  TypeInv' /\ ContentInv' /\ RevisionInv' /\ UpdateInv' /\ SurvivalInv' /\ TodoInv' /\ PlanInv'
  <1>1. TypeInv' /\ ContentInv' /\ RevisionInv' /\ UpdateInv'
    BY WriteFrame DEF Slots
  <1>2. call'.kind = "create" /\ "create" \notin Updates /\ provider' = provider
    BY DEF SamePlan, Updates, Keep
  <1> QED
    BY <1>1, <1>2 DEF SurvivalInv, TodoInv, PlanInv, Undisturbed

-----------------------------------------------------------------------------
(* Steps that only move the call on.                                        *)

\* What the invariant is made of, and the sets the steps tell apart.
LEMMA InvParts ==
    /\ EventSetInv => /\ TypeInv /\ FlowInv /\ ContentInv /\ RevisionInv /\ UpdateInv
                      /\ SurvivalInv /\ TodoInv /\ PlanInv /\ CopyInv
    /\ "create" \notin Updates /\ "delete" \notin Updates /\ "none" \notin Updates
    /\ "src" \in Slots /\ "copy" \in Slots /\ "master" \in Parts /\ Positions \subseteq Parts
  BY DEF EventSetInv, Updates, Slots, Parts

\* Moving on changes nothing else of the call.
LEMMA GoFacts ==
    ASSUME TypeInv, call.pc # "idle", NEW q, Go(q),
           q \in {"delete", "master", "verify", "done", "failed", "refetch"}
    PROVE  /\ SamePlan /\ call'.pc = q /\ call'.todo = call.todo
           /\ call'.patched = call.patched /\ call'.view = call.view
  BY DEF TypeInv, Go, SamePlan, Calls

\* A call may fail, or be taken to have written everything, after any step.
LEMMA GoKept ==
    ASSUME EventSetInv, call.pc # "idle", KeepRemote, UNCHANGED <<provider, detached, made>>,
           failures' \in Nat, NEW q \in {"verify", "failed"}, Go(q)
    PROVE  EventSetInv'
  <1>1. /\ SamePlan /\ call'.pc = q /\ call'.todo = call.todo
        /\ call'.patched = call.patched /\ call'.view = call.view
    BY GoFacts, InvParts
  <1>2. TypeInv' /\ ContentInv' /\ RevisionInv' /\ UpdateInv' /\ SurvivalInv' /\ PlanInv'
    BY <1>1, QuietFrame
  <1>3. FlowInv' /\ TodoInv' /\ CopyInv'
    BY <1>1, InvParts DEF FlowInv, TodoInv, CopyInv, SamePlan
  <1> QED
    BY <1>2, <1>3 DEF EventSetInv

\* A refused request leaves the provider alone.
LEMMA RefuseKept ==
    ASSUME EventSetInv, call.pc # "idle", Refuse, Keep
    PROVE  EventSetInv'
  <1>1. failures' \in Nat /\ Go("failed") /\ KeepRemote /\ UNCHANGED <<provider, detached, made>>
    BY InvParts DEF Keep, Refuse, TypeInv
  <1> QED
    BY <1>1, GoKept

\* A call is done: of a creation, when the copy is what was asked for.
LEMMA GoDone ==
    ASSUME EventSetInv, call.pc # "idle", KeepRemote, Keep, Go("done"),
           made = {} /\ call.kind = "create" => SemanticEq(remote["copy"].parts, call.desired)
    PROVE  EventSetInv'
  <1>1. /\ SamePlan /\ call'.pc = "done" /\ call'.todo = call.todo
        /\ call'.patched = call.patched /\ call'.view = call.view
    BY GoFacts, InvParts
  <1>2. failures' \in Nat /\ UNCHANGED <<provider, detached, made>> /\ remote' = remote
    BY InvParts DEF Keep, KeepRemote, TypeInv
  <1>3. TypeInv' /\ ContentInv' /\ RevisionInv' /\ UpdateInv' /\ SurvivalInv' /\ PlanInv'
    BY <1>1, <1>2, QuietFrame
  <1>4. FlowInv' /\ TodoInv'
    BY <1>1, InvParts DEF FlowInv, TodoInv, SamePlan
  <1>5. CopyInv'
    <2>1. call'.kind = call.kind /\ call'.desired = call.desired
      BY <1>1 DEF SamePlan
    <2> QED
      BY <1>1, <1>2, <2>1 DEF CopyInv, SemanticEq
  <1> QED
    BY <1>3, <1>4, <1>5 DEF EventSetInv

\* Any attempt may be cut short.
LEMMA FailKept == EventSetInv /\ Fail => EventSetInv'
  <1> SUFFICES ASSUME EventSetInv, Fail PROVE EventSetInv'
    OBVIOUS
  <1>1. failures' \in Nat /\ call.pc # "idle" /\ Go("failed") /\ KeepRemote
        /\ UNCHANGED <<provider, detached, made>>
    BY InvParts DEF Fail, Running, TypeInv
  <1> QED
    BY <1>1, GoKept

\* The final comparison is of what the call wrote into.
LEMMA VerifyKept == EventSetInv /\ Verify => EventSetInv'
  <1> SUFFICES ASSUME EventSetInv, Verify PROVE EventSetInv'
    OBVIOUS
  <1>1. call.pc # "idle" /\ KeepRemote /\ Keep
    BY DEF Verify, At
  <1>2. failures' \in Nat /\ UNCHANGED <<provider, detached, made>>
    BY <1>1, InvParts DEF Keep, TypeInv
  <1>3. CASE SemanticEq(remote[Slot].parts, call.desired)
    <2>1. Go("done")
      BY <1>3 DEF Verify
    <2>2. call.kind = "create" => SemanticEq(remote["copy"].parts, call.desired)
      BY <1>3 DEF Slot
    <2> QED
      BY <1>1, <2>1, <2>2, GoDone
  <1>4. CASE ~SemanticEq(remote[Slot].parts, call.desired)
    <2>1. Go("failed")
      BY <1>4 DEF Verify
    <2> QED
      BY <1>1, <1>2, <2>1, GoKept
  <1> QED
    BY <1>3, <1>4

\* When every resource is written, the set is read again.
LEMMA PutsDoneKept == EventSetInv /\ PutsDone => EventSetInv'
  <1> SUFFICES ASSUME EventSetInv, PutsDone PROVE EventSetInv'
    OBVIOUS
  <1>1. call.pc # "idle" /\ KeepRemote /\ Keep /\ Go("verify")
    BY DEF PutsDone, At
  <1>2. failures' \in Nat /\ UNCHANGED <<provider, detached, made>>
    BY InvParts DEF PutsDone, Keep, TypeInv
  <1> QED
    BY <1>1, <1>2, GoKept

\* check_current leads to the removal or to the master.
LEMMA CheckCurrentKept == EventSetInv /\ CheckCurrent => EventSetInv'
  <1> SUFFICES ASSUME EventSetInv, CheckCurrent PROVE EventSetInv'
    OBVIOUS
  <1>1. call.pc = "check" /\ KeepRemote /\ Keep
    BY DEF CheckCurrent, At
  <1>2. failures' \in Nat /\ UNCHANGED <<provider, detached, made>>
    BY <1>1, InvParts DEF Keep, TypeInv
  <1>3. CASE Go("failed")
    BY <1>1, <1>2, <1>3, GoKept
  <1>4. ASSUME NEW q \in {"delete", "master"}, Go(q), q = "delete" <=> call.kind = "delete"
        PROVE  EventSetInv'
    <2>1. /\ SamePlan /\ call'.pc = q /\ call'.todo = call.todo
          /\ call'.patched = call.patched /\ call'.view = call.view
      BY <1>1, <1>4, GoFacts, InvParts
    <2>2. provider = "google" /\ ~call.patched /\ call.kind # "create" /\ call.kind \in Updates \cup {"delete"}
      BY <1>1, InvParts DEF FlowInv, SurvivalInv, TypeInv, Calls
    <2>3. TypeInv' /\ ContentInv' /\ RevisionInv' /\ UpdateInv' /\ SurvivalInv' /\ PlanInv'
      BY <1>1, <1>2, <1>4, <2>1, <2>2, QuietFrame
    <2>4. call'.kind = call.kind
      BY <2>1 DEF SamePlan
    <2>5. FlowInv' /\ TodoInv' /\ CopyInv'
      BY <1>2, <1>4, <2>1, <2>2, <2>4, InvParts DEF FlowInv, TodoInv, CopyInv
    <2> QED
      BY <2>3, <2>5 DEF EventSetInv
  <1>5. Go("failed") \/ (Go("delete") /\ call.kind = "delete") \/ (Go("master") /\ call.kind # "delete")
    BY DEF CheckCurrent
  <1> QED
    BY <1>3, <1>4, <1>5

\* Graph's last read is of the copy as it still is.
LEMMA ReplayedKept == EventSetInv /\ Replayed => EventSetInv'
  <1> SUFFICES ASSUME EventSetInv, Replayed PROVE EventSetInv'
    OBVIOUS
  <1>1. call.pc = "replay" /\ KeepRemote /\ Keep /\ provider \in {"google", "graph"}
    BY InvParts DEF Replayed, At, FlowInv
  <1>2. failures' \in Nat /\ UNCHANGED <<provider, detached, made>>
    BY <1>1, InvParts DEF Keep, TypeInv
  <1>3. CASE Go("failed") \/ Go("verify")
    BY <1>1, <1>2, <1>3, GoKept
  <1>4. CASE provider = "graph" /\ Go("done") /\ SemanticEq(call.view.parts, call.desired)
    <2>1. made = {} /\ call.kind = "create" => SemanticEq(remote["copy"].parts, call.desired)
      BY <1>1, <1>4, InvParts DEF CopyInv
    <2> QED
      BY <1>1, <1>4, <2>1, GoDone
  <1> QED
    BY <1>1, <1>3, <1>4 DEF Replayed

-----------------------------------------------------------------------------
(* The exceptions to write.                                                 *)

\* Starting on the exceptions fixes which of them are to be written.
LEMMA ReplayFacts ==
    ASSUME TypeInv, call.pc # "idle", NEW v \in EventSets, NEW b \in BOOLEAN, Replay(v, b)
    PROVE  /\ SamePlan /\ call'.view = v /\ call'.patched = b
           /\ call'.todo = Targets(v.parts) /\ Targets(v.parts) \subseteq Positions
           /\ call'.pc \in {"replay", "failed"}
  <1>1. Targets(v.parts) \subseteq Positions /\ Targets(v.parts) \in SUBSET Parts
    BY DEF Targets, Parts
  <1>2. PICK t \in SUBSET Parts : t = Targets(v.parts)
    BY <1>1
  <1>3. PICK q \in {"replay", "failed"} :
            call' = [call EXCEPT !.view = v, !.patched = b, !.todo = t, !.pc = q]
    BY <1>2 DEF Replay
  <1>4. call \in Calls
    BY DEF TypeInv
  <1>5. call' \in Calls
    BY <1>3, <1>4 DEF Calls
  <1>6. /\ call'.kind = call.kind /\ call'.at = call.at
        /\ call'.before = call.before /\ call'.desired = call.desired
        /\ call'.view = v /\ call'.patched = b /\ call'.todo = t /\ call'.pc = q
    BY <1>3, <1>4 DEF Calls
  <1> QED
    BY <1>1, <1>2, <1>5, <1>6 DEF SamePlan

\* What is to be made generated was an exception when the call read the set,
\* whether the targets come from the snapshot or from a later undisturbed read.
LEMMA TargetsFacts ==
    ASSUME EventSetInv, call.kind \in Updates, provider = "google" \/ Undisturbed,
           NEW parts, parts = Was \/ (parts = Src /\ Undisturbed),
           NEW p \in Targets(parts)
    PROVE  p \in Positions /\ (call.desired[p].st # "generated" \/ Was[p].st # "generated")
  <1>1. p \in Positions /\ (call.desired[p].st # "generated" \/ parts[p].st # "generated")
    BY DEF Targets
  <1>2. CASE parts = Was
    BY <1>1, <1>2
  <1>3. CASE parts = Src /\ Undisturbed
    BY <1>1, <1>3, InvParts DEF PlanInv
  <1> QED
    BY <1>2, <1>3

\* Starting to write the exceptions, with nothing written in the same step.
LEMMA ReplayKept ==
    ASSUME EventSetInv, call.pc # "idle", NEW v, NEW b \in BOOLEAN, Replay(v, b),
           KeepRemote, Keep,
           call.kind # "delete", provider \in {"google", "graph"},
           provider = "google" => b = call.patched \/ (call.kind = "create" /\ b),
           call.kind = "create" /\ provider = "google" => b,
           v = call.before \/ (v = remote["src"] /\ call.kind # "create" /\ provider = "graph")
                           \/ (v = remote["copy"] /\ call.kind = "create"),
           provider = "graph" /\ call.kind = "create" => v = remote["copy"]
    PROVE  EventSetInv'
  <1>1. v \in EventSets
    BY InvParts DEF TypeInv, Calls
  <1>2. /\ SamePlan /\ call'.view = v /\ call'.patched = b
        /\ call'.todo = Targets(v.parts) /\ Targets(v.parts) \subseteq Positions
        /\ call'.pc \in {"replay", "failed"}
    BY <1>1, ReplayFacts, InvParts
  <1>3. failures' \in Nat /\ UNCHANGED <<provider, detached, made>> /\ remote' = remote /\ lost' = lost
    BY InvParts DEF Keep, KeepRemote, TypeInv
  <1>4. TypeInv' /\ ContentInv' /\ RevisionInv' /\ UpdateInv' /\ SurvivalInv' /\ PlanInv'
    BY <1>2, <1>3, QuietFrame
  <1>5. /\ call'.kind = call.kind /\ call'.before = call.before /\ call'.desired = call.desired
        /\ Was' = Was
    BY <1>2 DEF SamePlan, Was
  <1>6. FlowInv'
    BY <1>2, <1>3, <1>5, InvParts DEF FlowInv
  <1>7. TodoInv'
    <2> SUFFICES ASSUME call.kind \in Updates, provider = "google" \/ Undisturbed,
                        NEW p \in Targets(v.parts)
                 PROVE  p \in Positions /\ (call.desired[p].st # "generated" \/ Was[p].st # "generated")
      BY <1>2, <1>3, <1>5 DEF TodoInv, Undisturbed
    <2>1. v.parts = Was \/ (v.parts = Src /\ Undisturbed)
      BY InvParts DEF Was, Src
    <2> QED
      BY <2>1, TargetsFacts
  <1>8. CopyInv'
    BY <1>2, <1>3, <1>5, InvParts DEF CopyInv
  <1> QED
    BY <1>4, <1>6, <1>7, <1>8 DEF EventSetInv

\* Graph reads the set after each change it makes.
LEMMA RefetchKept == EventSetInv /\ Refetch => EventSetInv'
  <1> SUFFICES ASSUME EventSetInv, Refetch PROVE EventSetInv'
    OBVIOUS
  <1>1. call.pc \in {"refetch", "reread"} /\ KeepRemote /\ Keep /\ call.kind # "delete"
        /\ provider = "graph"
    BY InvParts DEF Refetch, At, FlowInv
  <1>2. failures' \in Nat /\ UNCHANGED <<provider, detached, made>> /\ remote' = remote
    BY <1>1, InvParts DEF Keep, KeepRemote, TypeInv
  <1>3. CASE Go("failed")
    BY <1>1, <1>2, <1>3, GoKept
  <1>4. CASE call.pc = "refetch" /\ Replay(remote[Slot], call.patched)
    <2>1. call.patched \in BOOLEAN
      BY InvParts DEF TypeInv, Calls
    <2> QED
      BY <1>1, <1>4, <2>1, ReplayKept DEF Slot
  <1>5. CASE call' = [call EXCEPT !.view = remote[Slot], !.pc = "replay"] /\ call.pc = "reread"
    <2>1. PICK v \in EventSets : v = remote[Slot]
      BY InvParts DEF TypeInv, Slot
    <2>2. call \in Calls /\ call' = [call EXCEPT !.view = v, !.pc = "replay"]
      BY <1>5, <2>1, InvParts DEF TypeInv
    <2>3. /\ SamePlan /\ call'.view = v /\ call'.patched = call.patched
          /\ call'.todo = call.todo /\ call'.pc = "replay"
      BY <1>1, <2>2 DEF Calls, SamePlan
    <2>4. TypeInv' /\ ContentInv' /\ RevisionInv' /\ UpdateInv' /\ SurvivalInv' /\ PlanInv'
      BY <1>1, <1>2, <2>3, QuietFrame
    <2>5. /\ call'.kind = call.kind /\ call'.desired = call.desired /\ Was' = Was
      BY <2>3 DEF SamePlan, Was
    <2>6. FlowInv'
      BY <1>1, <1>2, <2>3, <2>5, InvParts DEF FlowInv
    <2>7. TodoInv'
      BY <1>2, <1>5, <2>3, <2>5, InvParts DEF TodoInv, Undisturbed
    <2>8. CopyInv'
      BY <1>2, <2>1, <2>3, <2>5 DEF CopyInv, Slot
    <2> QED
      BY <2>4, <2>6, <2>7, <2>8 DEF EventSetInv
  <1> QED
    BY <1>1, <1>3, <1>4, <1>5 DEF Refetch, At

-----------------------------------------------------------------------------
(* One resource at a time.                                                  *)

\* The plan of an undisturbed update, part by part.
LEMMA PlanFacts ==
    ASSUME EventSetInv, Undisturbed
    PROVE  /\ call.desired["master"] = IF call.kind \in {"series", "reset"}
                  THEN Live(Was["master"].body \cup {"own"}) ELSE Was["master"]
           /\ \A p \in Positions :
                 call.desired[p] = IF call.kind = "reset" THEN Generated
                        ELSE IF p # call.at THEN Was[p]
                        ELSE IF call.kind = "occurrence" THEN Live(Effective(Was, p).body \cup {"own"})
                        ELSE Excluded
           /\ call.kind \in {"series", "reset", "occurrence", "exclude"}
           /\ call.at # "master" <=> call.kind \in {"occurrence", "exclude"}
  <1>1. /\ call.desired = Desired(call.kind, call.at, Was)
        /\ call.at # "master" <=> call.kind \in {"occurrence", "exclude"}
        /\ call.kind \in {"series", "reset", "occurrence", "exclude"}
    BY InvParts DEF PlanInv, Undisturbed, Updates
  <1>2. "master" \notin Positions /\ "master" \in Parts /\ Positions \subseteq Parts
    BY SetAssumption DEF Parts
  <1>3. call.desired["master"] = IF call.kind \in {"series", "reset"}
            THEN Live(Was["master"].body \cup {"own"}) ELSE Was["master"]
    BY <1>1, <1>2 DEF Desired
  <1>4. ASSUME NEW p \in Positions
        PROVE  call.desired[p] = IF call.kind = "reset" THEN Generated
                        ELSE IF p # call.at THEN Was[p]
                        ELSE IF call.kind = "occurrence" THEN Live(Effective(Was, p).body \cup {"own"})
                        ELSE Excluded
    BY <1>1, <1>2 DEF Desired
  <1> QED
    BY <1>1, <1>3, <1>4

\* While a part has the revision of the snapshot, a write there loses nothing.
LEMMA UnwrittenSafe ==
    ASSUME EventSetInv, call.pc # "idle", NEW P \in SUBSET Parts, NEW f, Write("src", P, f),
           \A p \in P : Unwritten("src", p)
    PROVE  lost' = lost /\ \A p \in P : Src[p] = Was[p]
  <1>1. \A p \in P : Src[p] = Was[p]
    BY InvParts DEF RevisionInv
  <1>2. \A p \in P : (remote["src"].parts[p].body \cap Edits) \subseteq Was[p].body
    BY <1>1 DEF Src
  <1> QED
    BY <1>1, <1>2, InvParts, WriteLosesNothing

\* The JMAP request is refused or makes the set the wanted one.
LEMMA SetInStateKept == EventSetInv /\ SetInState => EventSetInv'
  <1> SUFFICES ASSUME EventSetInv, SetInState PROVE EventSetInv'
    OBVIOUS
  <1>1. provider = "jmap" /\ call.pc = "write" /\ call.kind \in Updates /\ Keep
    BY InvParts DEF SetInState, At, FlowInv
  <1>2. CASE \E p \in Parts : ~Unwritten("src", p)
    BY <1>1, <1>2, RefuseKept DEF SetInState
  <1>3. CASE \A p \in Parts : Unwritten("src", p)
    <2>1. Write("src", Changed, call.desired) /\ Go("verify")
      BY <1>3 DEF SetInState
    <2>2. /\ SamePlan /\ call'.pc = "verify" /\ call'.todo = call.todo
          /\ call'.patched = call.patched /\ call'.view = call.view
      BY <1>1, <2>1, GoFacts, InvParts
    <2>3. /\ call.desired \in [Parts -> Content] /\ Accounted(call.desired)
          /\ Changed \in SUBSET Parts
      BY InvParts DEF TypeInv, Calls, ContentInv, Changed
    <2>4. TypeInv' /\ ContentInv' /\ RevisionInv' /\ UpdateInv'
      BY <1>1, <2>1, <2>2, <2>3, WriteFrame, InvParts
    <2>5. lost' = lost /\ \A p \in Parts : Src[p] = Was[p]
      BY <1>1, <1>3, <2>1, <2>3, UnwrittenSafe, InvParts DEF RevisionInv
    <2>6. \A p \in Parts : Src'[p] = IF p \in Changed THEN call.desired[p] ELSE Src[p]
      BY <2>1, <2>3, WriteFacts, InvParts DEF Src
    <2>7. \A p \in Parts : Src'[p] = call.desired[p]
      BY <2>5, <2>6 DEF Changed, Was
    <2>8. /\ call'.kind = call.kind /\ call'.at = call.at /\ call'.desired = call.desired
          /\ Was' = Was /\ UNCHANGED <<provider, detached, made>>
      BY <1>1, <2>2 DEF SamePlan, Was, Keep
    <2>9. FlowInv' /\ TodoInv' /\ CopyInv'
      BY <1>1, <2>2, <2>8, InvParts DEF FlowInv, TodoInv, CopyInv
    <2>10. SurvivalInv'
      BY <1>1, <2>5, <2>8, InvParts DEF SurvivalInv
    <2>11. PlanInv'
      BY <2>7, <2>8, InvParts DEF PlanInv, Undisturbed
    <2> QED
      BY <2>4, <2>9, <2>10, <2>11 DEF EventSetInv
  <1> QED
    BY <1>2, <1>3

\* Which parts a CalDAV resource holds.
LEMMA HoldingFacts ==
    ASSUME TypeInv, provider = "caldav", NEW r
    PROVE  /\ Holding(r) \in SUBSET Parts
           /\ r = "main" => "master" \in Holding(r)
           /\ r # "main" => \A p \in Holding(r) : p = r /\ p \in detached
  BY SetAssumption DEF Holding, Resource, TypeInv, Parts

\* A resource is written on the revision of the snapshot; the one that holds the
\* master comes first.
LEMMA PutResourceKept == \A r : EventSetInv /\ PutResource(r) => EventSetInv'
  <1> SUFFICES ASSUME NEW r, EventSetInv, PutResource(r) PROVE EventSetInv'
    OBVIOUS
  <1>1. provider = "caldav" /\ call.pc = "write" /\ call.kind \in Updates /\ r \in Pending /\ Keep
    BY InvParts DEF PutResource, At, FlowInv
  <1>2. CASE \E p \in Holding(r) : ~Unwritten("src", p)
    BY <1>1, <1>2, RefuseKept DEF PutResource
  <1>3. CASE \A p \in Holding(r) : Unwritten("src", p)
    <2>1. PICK H \in SUBSET Parts : H = Holding(r)
      BY <1>1, HoldingFacts, InvParts
    <2>2. /\ Write("src", H, call.desired)
          /\ call' = [call EXCEPT !.todo = @ \cup H]
      BY <1>3, <2>1 DEF PutResource
    <2>3. call \in Calls
      BY InvParts DEF TypeInv
    <2>4. SamePlan /\ call'.pc = "write" /\ call'.patched = call.patched
      BY <1>1, <2>2, <2>3 DEF SamePlan, Calls
    <2>5. call.desired \in [Parts -> Content] /\ Accounted(call.desired)
      BY InvParts DEF TypeInv, Calls, ContentInv
    <2>6. TypeInv' /\ ContentInv' /\ RevisionInv' /\ UpdateInv'
      BY <1>1, <2>2, <2>4, <2>5, WriteFrame, InvParts
    <2>7. lost' = lost
      BY <1>1, <1>3, <2>1, <2>2, UnwrittenSafe
    <2>8. \A p \in Parts : Src'[p] = IF p \in H THEN call.desired[p] ELSE Src[p]
      <3>1. TypeInv /\ "src" \in Slots
        BY InvParts
      <3> QED
        BY <2>2, <2>5, <3>1, WriteFacts DEF Src
    <2>9. /\ call'.kind = call.kind /\ call'.at = call.at /\ call'.desired = call.desired
          /\ Was' = Was /\ UNCHANGED <<provider, detached, made>>
      BY <1>1, <2>4 DEF SamePlan, Was, Keep
    <2>10. FlowInv' /\ TodoInv' /\ CopyInv'
      BY <1>1, <2>4, <2>9, InvParts DEF FlowInv, TodoInv, CopyInv
    <2>11. SurvivalInv'
      BY <1>1, <2>7, <2>9, InvParts DEF SurvivalInv
    <2>12. PlanInv'
      <3> SUFFICES ASSUME Undisturbed PROVE PlanInv'
        BY <2>9 DEF PlanInv, Undisturbed
      <3>1. CASE r = "main"
        <4>1. Src'["master"] = call.desired["master"]
          BY <2>1, <2>8, <3>1, <1>1, HoldingFacts, InvParts
        <4> QED
          BY <2>8, <2>9, <4>1, InvParts DEF PlanInv, Undisturbed
      <3>2. CASE r # "main"
        <4>1. \A p \in H : p = r /\ p \in detached /\ p \in Positions /\ p # "master"
          BY <1>1, <2>1, <3>2, HoldingFacts, InvParts, SetAssumption DEF TypeInv
        <4>2. r \in detached /\ call.desired[r] # Was[r]
          BY <1>1, <3>2, HoldingFacts, InvParts DEF Pending, Changed, Was, Holding, Resource
        <4>3. call.kind # "reset"
          <5> SUFFICES ASSUME call.kind = "reset" PROVE FALSE
            OBVIOUS
          <5>1. r \in Positions /\ r \in Parts /\ Was[r].st = "generated"
            BY <1>1, <4>2, InvParts DEF PlanInv, TypeInv
          <5>2. Was[r] = Generated
            BY <5>1, InvParts DEF ContentInv, Accounted, Generated, TypeInv, Calls, EventSets, Content, Was
          <5> QED
            BY <4>2, <5>1, <5>2, PlanFacts
        <4>4. call.desired[r].st # "generated"
          <5>1. r \in Positions
            BY <4>2, InvParts DEF TypeInv
          <5>2. call.desired[r] = Excluded \/ call.desired[r] = Live(Effective(Was, r).body \cup {"own"})
            BY <4>2, <4>3, <5>1, PlanFacts
          <5> QED
            BY <5>2 DEF Live, Excluded
        <4> QED
          BY <2>8, <2>9, <4>1, <4>4, InvParts DEF PlanInv, Undisturbed
      <3> QED
        BY <3>1, <3>2
    <2> QED
      BY <2>6, <2>10, <2>11, <2>12 DEF EventSetInv
  <1> QED
    BY <1>2, <1>3

-----------------------------------------------------------------------------
(* The master, then each exception.                                         *)

\* The PATCH of the master is conditional on it; what the provider discards with a
\* changed rule is not part of an undisturbed plan.
LEMMA PatchWriteKept ==
    ASSUME EventSetInv, call.pc = "master", MasterChanged, Keep,
           NEW dropped \in SUBSET Positions, call.kind # "rule" => dropped = {},
           Write("src", {"master"} \cup dropped,
                 [p \in Parts |-> IF p = "master" THEN call.desired[p] ELSE Generated]),
           IF provider = "google" THEN Replay(call.before, TRUE)
                                  ELSE call' = [call EXCEPT !.patched = TRUE, !.pc = "refetch"]
    PROVE  EventSetInv'
  <1>1. call.kind \in Updates /\ provider \in {"google", "graph"}
        /\ "own" \in call.desired["master"].body
    BY InvParts DEF FlowInv, UpdateInv, MasterChanged, Was
  <1>2. call \in Calls /\ call.before \in EventSets
    BY InvParts DEF TypeInv, Calls
  <1>3. /\ SamePlan /\ call'.patched = TRUE
        /\ provider = "google" => /\ call'.todo = Targets(Was) /\ call'.pc \in {"replay", "failed"}
        /\ provider = "graph" => call'.pc = "refetch"
    <2>1. CASE provider = "google"
      BY <1>2, <2>1, ReplayFacts, InvParts DEF Was
    <2>2. CASE provider = "graph"
      <3>1. call' = [call EXCEPT !.patched = TRUE, !.pc = "refetch"]
        BY <2>2
      <3> QED
        BY <1>2, <2>2, <3>1 DEF SamePlan, Calls
    <2> QED
      BY <1>1, <2>1, <2>2
  <1>4. PICK f \in [Parts -> Content] :
            f = [p \in Parts |-> IF p = "master" THEN call.desired[p] ELSE Generated]
    <2>1. call.desired \in [Parts -> Content]
      BY InvParts DEF TypeInv, Calls
    <2>2. Generated \in Content
      BY DEF Generated, Content
    <2> QED
      BY <2>1, <2>2
  <1>5. Accounted(f)
    BY <1>4, InvParts DEF ContentInv, Accounted, Generated
  <1>6. PICK P \in SUBSET Parts : P = {"master"} \cup dropped
    BY InvParts
  <1>7. Write("src", P, f)
    BY <1>4, <1>6
  <1>8. TypeInv' /\ ContentInv' /\ RevisionInv' /\ UpdateInv'
    BY <1>3, <1>5, <1>7, WriteFrame, InvParts
  <1>9. \A p \in Parts : Src'[p] = IF p \in P THEN f[p] ELSE Src[p]
    <2>1. TypeInv /\ "src" \in Slots
      BY InvParts
    <2> QED
      BY <1>7, <2>1, WriteFacts DEF Src
  <1>10. Src'["master"] = call.desired["master"]
    BY <1>4, <1>6, <1>9, InvParts
  <1>11. /\ call'.kind = call.kind /\ call'.at = call.at /\ call'.desired = call.desired
         /\ Was' = Was /\ UNCHANGED <<provider, detached, made>>
    BY <1>3 DEF SamePlan, Was, Keep
  <1>12. FlowInv' /\ CopyInv'
    BY <1>1, <1>3, <1>11, InvParts DEF FlowInv, CopyInv
  <1>13. SurvivalInv'
    BY <1>1, <1>3, <1>10, <1>11, InvParts DEF SurvivalInv
  <1>14. TodoInv'
    BY <1>1, <1>3, <1>11, TargetsFacts DEF TodoInv
  <1>15. PlanInv'
    <2> SUFFICES ASSUME Undisturbed PROVE PlanInv'
      BY <1>11 DEF PlanInv, Undisturbed
    <2>1. \A p \in Positions : Src'[p] = Src[p]
      BY <1>6, <1>9, InvParts, SetAssumption DEF Undisturbed
    <2> QED
      BY <1>10, <1>11, <2>1, InvParts DEF PlanInv, Undisturbed
  <1> QED
    BY <1>8, <1>12, <1>13, <1>14, <1>15 DEF EventSetInv

\* The step of the master: nothing to change, a conflict, or the write.
LEMMA PatchMasterKept == EventSetInv /\ PatchMaster => EventSetInv'
  <1> SUFFICES ASSUME EventSetInv, PatchMaster PROVE EventSetInv'
    OBVIOUS
  <1>1. call.pc = "master" /\ Keep /\ call.kind \in Updates /\ provider \in {"google", "graph"}
        /\ (provider = "google" => ~call.patched)
    BY InvParts DEF PatchMaster, At, FlowInv, SurvivalInv
  <1>2. CASE ~MasterChanged /\ Replay(call.before, FALSE) /\ KeepRemote
    <2>1. call.patched \in BOOLEAN /\ call.kind # "create" /\ call.kind # "delete"
      BY <1>1, InvParts DEF TypeInv, Calls
    <2>2. provider = "google" => FALSE = call.patched
      BY <1>1, <2>1
    <2> QED
      BY <1>1, <1>2, <2>1, <2>2, ReplayKept
  <1>3. CASE MasterChanged /\ ~Unwritten("src", "master") /\ Refuse
    BY <1>1, <1>3, RefuseKept
  <1>4. CASE /\ MasterChanged /\ Unwritten("src", "master")
             /\ \E dropped \in IF call.kind = "rule" THEN {{}, Positions} ELSE {{}} :
                   Write("src", {"master"} \cup dropped,
                         [p \in Parts |-> IF p = "master" THEN call.desired[p] ELSE Generated])
             /\ IF provider = "google" THEN Replay(call.before, TRUE)
                ELSE call' = [call EXCEPT !.patched = TRUE, !.pc = "refetch"]
    <2>1. PICK dropped \in SUBSET Positions :
              /\ call.kind # "rule" => dropped = {}
              /\ Write("src", {"master"} \cup dropped,
                       [p \in Parts |-> IF p = "master" THEN call.desired[p] ELSE Generated])
      BY <1>4
    <2> QED
      BY <1>1, <1>4, <2>1, PatchWriteKept
  <1> QED
    BY <1>2, <1>3, <1>4 DEF PatchMaster

\* What is written for an exception is typed, accounted for and never "generated".
LEMMA TargetFacts ==
    ASSUME EventSetInv
    PROVE  /\ [q \in Parts |-> Target(q)] \in [Parts -> Content]
           /\ Accounted([q \in Parts |-> Target(q)])
           /\ \A q \in Parts : Target(q).st # "generated"
           /\ \A q \in Parts : call.desired[q].st # "generated" => Target(q) = call.desired[q]
           /\ \A q \in Parts : call.desired[q].st = "generated" => Target(q) = Live(call.desired["master"].body)
  <1>1. \A q \in Parts : call.desired[q] \in Content
    BY InvParts DEF TypeInv, Calls
  <1>2. \A b \in SUBSET Changes : Live(b) \in Content /\ Live(b).st = "live" /\ Live(b).body = b
    BY DEF Live, Content
  <1>3. call.desired["master"].body \in SUBSET Changes
    BY <1>1, InvParts DEF Content
  <1>4. \A q \in Parts : Target(q) \in Content
    BY <1>1, <1>2, <1>3 DEF Target
  <1>5. \A q \in Parts : /\ Target(q).st # "live" => Target(q).body = {}
                         /\ Target(q).body \subseteq made \cup {"own", "old"}
    BY <1>2, <1>3, InvParts DEF Target, ContentInv, Accounted
  <1>6. \A q \in Parts : Target(q).st # "generated"
    BY <1>2, <1>3 DEF Target
  <1>7. Accounted([q \in Parts |-> Target(q)])
    BY <1>5 DEF Accounted
  <1> QED
    BY <1>4, <1>6, <1>7 DEF Target

\* Writing one exception of an undisturbed update stays within its plan.
LEMMA OverridePlan ==
    ASSUME EventSetInv, call.pc = "replay", call.kind \in Updates, SamePlan,
           UNCHANGED <<provider, detached, made>>, NEW p \in call.todo, p \in Positions,
           \A q \in Parts : Src'[q] = IF q = p THEN Target(p) ELSE Src[q]
    PROVE  PlanInv'
  <1>1. /\ call'.kind = call.kind /\ call'.at = call.at /\ call'.desired = call.desired
        /\ Was' = Was
    BY DEF SamePlan, Was
  <1> SUFFICES ASSUME Undisturbed PROVE PlanInv'
    BY <1>1 DEF PlanInv, Undisturbed
  <1>2. call.desired[p].st # "generated" \/ Was[p].st # "generated"
    BY InvParts DEF TodoInv
  <1>3. Src'["master"] = Src["master"] /\ Src'[p] = Target(p)
        /\ \A q \in Positions : q # p => Src'[q] = Src[q]
    BY InvParts, SetAssumption
  <1>4. \/ Src'[p] = call.desired[p] /\ Src'[p].st # "generated"
        \/ /\ call.desired[p].st = "generated" /\ Was[p].st # "generated"
           /\ Src'[p] = Live(call.desired["master"].body)
    BY <1>2, <1>3, TargetFacts, InvParts
  <1> QED
    BY <1>1, <1>3, <1>4, InvParts DEF PlanInv, Undisturbed

\* An exception that is already as wanted is passed over.
LEMMA DoneKept ==
    ASSUME EventSetInv, call.pc = "replay", NEW p \in call.todo, Done(p), KeepRemote, Keep
    PROVE  EventSetInv'
  <1>1. call \in Calls
    BY InvParts DEF TypeInv
  <1>2. /\ SamePlan /\ call'.pc = "replay" /\ call'.todo = call.todo \ {p}
        /\ call'.patched = call.patched /\ call'.view = call.view
    BY <1>1 DEF Done, SamePlan, Calls
  <1>3. failures' \in Nat /\ UNCHANGED <<provider, detached, made>> /\ remote' = remote
    BY InvParts DEF Keep, KeepRemote, TypeInv
  <1>4. TypeInv' /\ ContentInv' /\ RevisionInv' /\ UpdateInv' /\ SurvivalInv' /\ PlanInv'
    BY <1>2, <1>3, QuietFrame, InvParts DEF SurvivalInv
  <1>5. call'.kind = call.kind /\ call'.desired = call.desired /\ Was' = Was
    BY <1>2 DEF SamePlan, Was
  <1>6. FlowInv' /\ CopyInv'
    BY <1>2, <1>3, <1>5, InvParts DEF FlowInv, CopyInv
  <1>7. TodoInv'
    BY <1>2, <1>3, <1>5, InvParts DEF TodoInv, Undisturbed
  <1> QED
    BY <1>4, <1>6, <1>7 DEF EventSetInv

\* While the master is untouched, an exception as the snapshot has it holds nothing
\* the call has not seen.
LEMMA AsExpectedSafe ==
    ASSUME EventSetInv, call.pc = "replay", provider = "google", call.kind \in Updates,
           ~call.patched, NEW p \in Positions, AsExpected(p)
    PROVE  (remote["src"].parts[p].body \cap Edits) \subseteq Was[p].body
  <1>1. CASE Was[p].st # "generated"
    <2>1. Src[p] = Was[p]
      BY <1>1, InvParts DEF AsExpected, Was, RevisionInv
    <2> QED
      BY <2>1 DEF Src
  <1>2. CASE Was[p].st = "generated"
    <2>1. Effective(Src, p) = Was["master"]
      BY <1>2 DEF AsExpected, Was, Src
    <2>2. Src[p].st # "live" \/ ~(Src[p].body \subseteq Was["master"].body)
      BY <1>2, InvParts DEF SurvivalInv
    <2>3. Src[p].st # "live"
      BY <2>1, <2>2 DEF Effective
    <2>4. Src[p].body = {}
      BY <2>3, InvParts DEF ContentInv, Accounted, Src
    <2> QED
      BY <2>4 DEF Src
  <1> QED
    BY <1>1, <1>2

\* Google's write of one exception of an update.
LEMMA GoogleWriteKept ==
    ASSUME EventSetInv, call.pc = "replay", provider = "google", call.kind \in Updates, Keep,
           NEW p \in Positions, p \in call.todo, ~call.patched => AsExpected(p),
           Write("src", {p}, [q \in Parts |-> Target(q)]), Done(p)
    PROVE  EventSetInv'
  <1>1. call \in Calls
    BY InvParts DEF TypeInv
  <1>2. /\ SamePlan /\ call'.pc = "replay" /\ call'.todo = call.todo \ {p}
        /\ call'.patched = call.patched /\ call'.view = call.view
    BY <1>1 DEF Done, SamePlan, Calls
  <1>3. PICK f \in [Parts -> Content] : f = [q \in Parts |-> Target(q)]
    BY TargetFacts
  <1>4. Accounted(f) /\ Write("src", {p}, f) /\ {p} \in SUBSET Parts /\ TypeInv /\ "src" \in Slots
    BY <1>3, TargetFacts, InvParts
  <1>5. TypeInv' /\ ContentInv' /\ RevisionInv' /\ UpdateInv'
    BY <1>2, <1>4, WriteFrame
  <1>6. \A q \in Parts : Src'[q] = IF q = p THEN Target(p) ELSE Src[q]
    <2>1. PICK P \in SUBSET Parts : P = {p}
      BY <1>4
    <2>2. Write("src", P, f) /\ TypeInv /\ "src" \in Slots
      BY <1>4, <2>1
    <2>3. \A q \in Parts : Src'[q] = IF q \in P THEN f[q] ELSE Src[q]
      BY <2>2, WriteFacts DEF Src
    <2> QED
      BY <1>3, <2>1, <2>3
  <1>7. /\ call'.kind = call.kind /\ call'.desired = call.desired
        /\ Was' = Was /\ UNCHANGED <<provider, detached, made>>
    BY <1>2 DEF SamePlan, Was, Keep
  <1>8. FlowInv' /\ CopyInv'
    BY <1>2, <1>7, InvParts DEF FlowInv, CopyInv
  <1>9. TodoInv'
    BY <1>2, <1>7, InvParts DEF TodoInv, Undisturbed
  <1>10. PlanInv'
    BY <1>2, <1>6, <1>7, OverridePlan
  <1>11. Src'["master"] = Src["master"] /\ Src'[p] = Target(p) /\ p \in Parts
         /\ \A q \in Positions : q # p => Src'[q] = Src[q]
    BY <1>6, InvParts, SetAssumption
  <1>12. SurvivalInv'
    <2>1. CASE call.patched
      BY <1>2, <1>7, <1>11, <2>1, InvParts DEF SurvivalInv
    <2>2. CASE ~call.patched
      <3>1. lost' = lost
        BY <1>4, <2>2, AsExpectedSafe, WriteLosesNothing
      <3>2. Src'[p].st # "generated"
        BY <1>11, TargetFacts
      <3>3. ASSUME Was[p].st = "generated"
            PROVE  Src'[p].st # "live" \/ ~(Src'[p].body \subseteq Was["master"].body)
        <4>1. Src'[p] = call.desired[p]
          BY <1>11, <3>3, TargetFacts, InvParts DEF TodoInv
        <4>2. call.desired[p].st # "live" \/ "own" \in call.desired[p].body
          BY <2>2, <3>3, InvParts DEF SurvivalInv
        <4>3. "own" \notin Was["master"].body
          BY InvParts DEF UpdateInv, Untouched
        <4> QED
          BY <4>1, <4>2, <4>3
      <3>4. lost = {} /\ \A q \in Positions :
              /\ Src[q].st = "generated" => Was[q].st = "generated"
              /\ Was[q].st = "generated" =>
                    /\ call.desired[q].st # "live" \/ "own" \in call.desired[q].body
                    /\ Src[q].st # "live" \/ ~(Src[q].body \subseteq Was["master"].body)
        BY <2>2, InvParts DEF SurvivalInv
      <3>5. \A q \in Positions :
              /\ Src'[q].st = "generated" => Was[q].st = "generated"
              /\ Was[q].st = "generated" =>
                    /\ call.desired[q].st # "live" \/ "own" \in call.desired[q].body
                    /\ Src'[q].st # "live" \/ ~(Src'[q].body \subseteq Was["master"].body)
        BY <1>11, <3>2, <3>3, <3>4
      <3> QED
        BY <1>2, <1>7, <2>2, <3>1, <3>4, <3>5, InvParts DEF SurvivalInv
    <2> QED
      BY <2>1, <2>2
  <1> QED
    BY <1>5, <1>8, <1>9, <1>10, <1>12 DEF EventSetInv

\* The write of one exception of a copy.
LEMMA CopyOverrideKept ==
    ASSUME EventSetInv, call.pc = "replay", provider \in {"google", "graph"}, call.kind = "create", Keep,
           NEW p \in Positions, Write("copy", {p}, [q \in Parts |-> Target(q)]),
           NEW q \in {"replay", "reread"},
           (provider = "google") <=> (q = "replay"),
           call' = [call EXCEPT !.todo = @ \ {p}, !.pc = q]
    PROVE  EventSetInv'
  <1>1. call \in Calls
    BY InvParts DEF TypeInv
  <1>2. SamePlan /\ call'.pc = q /\ call'.patched = call.patched
    BY <1>1 DEF SamePlan, Calls
  <1>3. PICK f \in [Parts -> Content] : f = [r \in Parts |-> Target(r)]
    BY TargetFacts
  <1>4. Accounted(f) /\ Write("copy", {p}, f) /\ {p} \in SUBSET Parts
    BY <1>3, TargetFacts, InvParts
  <1>5. (provider = "google" => call.patched) /\ (provider \in {"jmap", "caldav"} => lost' = {})
    BY InvParts DEF SurvivalInv
  <1>6. TypeInv' /\ ContentInv' /\ RevisionInv' /\ UpdateInv' /\ SurvivalInv' /\ TodoInv' /\ PlanInv'
    BY <1>2, <1>4, <1>5, CopyWriteFrame
  <1>7. FlowInv' /\ CopyInv'
    <2>1. call'.kind = call.kind /\ provider' = provider
      BY <1>2 DEF SamePlan, Keep
    <2> QED
      BY <1>2, <2>1 DEF FlowInv, CopyInv
  <1> QED
    BY <1>6, <1>7 DEF EventSetInv

\* Google's step for one exception.
LEMMA GoogleReplayKept == \A p \in Positions : EventSetInv /\ GoogleReplay(p) => EventSetInv'
  <1> SUFFICES ASSUME NEW p \in Positions, EventSetInv, GoogleReplay(p) PROVE EventSetInv'
    OBVIOUS
  <1>1. /\ provider = "google" /\ call.pc = "replay" /\ p \in call.todo /\ Keep
        /\ call.kind \in Updates \cup {"create"}
    BY InvParts DEF GoogleReplay, At, FlowInv, TypeInv, Calls
  <1>2. CASE Refuse
    BY <1>1, <1>2, RefuseKept
  <1>3. CASE Done(p) /\ KeepRemote
    BY <1>1, <1>3, DoneKept
  <1>4. CASE /\ call.kind # "create" /\ ~call.patched => AsExpected(p)
             /\ Write(Slot, {p}, [q \in Parts |-> Target(q)]) /\ Done(p)
    <2>1. CASE call.kind = "create"
      <3>1. Write("copy", {p}, [q \in Parts |-> Target(q)])
        BY <1>4, <2>1 DEF Slot
      <3>2. call' = [call EXCEPT !.todo = @ \ {p}, !.pc = "replay"]
        BY <1>1, <1>4, InvParts DEF Done, TypeInv, Calls
      <3> QED
        BY <1>1, <2>1, <3>1, <3>2, CopyOverrideKept
    <2>2. CASE call.kind \in Updates
      <3>1. Write("src", {p}, [q \in Parts |-> Target(q)]) /\ call.kind # "create"
        BY <1>4, <2>2, InvParts DEF Slot
      <3> QED
        BY <1>1, <1>4, <2>2, <3>1, GoogleWriteKept
    <2> QED
      BY <1>1, <2>1, <2>2
  <1> QED
    BY <1>2, <1>3, <1>4 DEF GoogleReplay

\* Graph's write of one exception of an update.
LEMMA GraphWriteKept ==
    ASSUME EventSetInv, call.pc = "replay", provider = "graph", call.kind \in Updates, Keep,
           NEW p \in Positions, p \in call.todo,
           Write("src", {p}, [q \in Parts |-> Target(q)]),
           call' = [call EXCEPT !.todo = @ \ {p}, !.pc = "reread"]
    PROVE  EventSetInv'
  <1>1. call \in Calls
    BY InvParts DEF TypeInv
  <1>2. SamePlan /\ call'.pc = "reread" /\ call'.todo = call.todo \ {p} /\ call'.patched = call.patched
    BY <1>1 DEF SamePlan, Calls
  <1>3. PICK f \in [Parts -> Content] : f = [q \in Parts |-> Target(q)]
    BY TargetFacts
  <1>4. Accounted(f) /\ Write("src", {p}, f) /\ {p} \in SUBSET Parts /\ TypeInv /\ "src" \in Slots
    BY <1>3, TargetFacts, InvParts
  <1>5. TypeInv' /\ ContentInv' /\ RevisionInv' /\ UpdateInv'
    BY <1>2, <1>4, WriteFrame
  <1>6. \A q \in Parts : Src'[q] = IF q = p THEN Target(p) ELSE Src[q]
    <2>1. PICK P \in SUBSET Parts : P = {p}
      BY <1>4
    <2>2. Write("src", P, f) /\ TypeInv /\ "src" \in Slots
      BY <1>4, <2>1
    <2>3. \A q \in Parts : Src'[q] = IF q \in P THEN f[q] ELSE Src[q]
      BY <2>2, WriteFacts DEF Src
    <2> QED
      BY <1>3, <2>1, <2>3
  <1>7. /\ call'.kind = call.kind /\ call'.desired = call.desired
        /\ Was' = Was /\ UNCHANGED <<provider, detached, made>>
    BY <1>2 DEF SamePlan, Was, Keep
  <1>8. FlowInv' /\ CopyInv' /\ SurvivalInv'
    BY <1>2, <1>7, InvParts DEF FlowInv, CopyInv, SurvivalInv
  <1>9. TodoInv'
    BY <1>2, <1>7, InvParts DEF TodoInv, Undisturbed
  <1>10. PlanInv'
    BY <1>2, <1>6, <1>7, OverridePlan
  <1> QED
    BY <1>5, <1>8, <1>9, <1>10 DEF EventSetInv

\* Graph's step for one exception.
LEMMA GraphOverrideKept == \A p \in Positions : EventSetInv /\ GraphOverride(p) => EventSetInv'
  <1> SUFFICES ASSUME NEW p \in Positions, EventSetInv, GraphOverride(p) PROVE EventSetInv'
    OBVIOUS
  <1>1. /\ provider = "graph" /\ call.pc = "replay" /\ p \in call.todo /\ Keep
        /\ call.kind \in Updates \cup {"create"}
    BY InvParts DEF GraphOverride, At, FlowInv, TypeInv, Calls
  <1>2. CASE Refuse
    BY <1>1, <1>2, RefuseKept
  <1>3. CASE Done(p) /\ KeepRemote
    BY <1>1, <1>3, DoneKept
  <1>4. CASE /\ Write(Slot, {p}, [q \in Parts |-> Target(q)])
             /\ call' = [call EXCEPT !.todo = @ \ {p}, !.pc = "reread"]
    <2>1. CASE call.kind = "create"
      <3>1. Write("copy", {p}, [q \in Parts |-> Target(q)])
        BY <1>4, <2>1 DEF Slot
      <3> QED
        BY <1>1, <1>4, <2>1, <3>1, CopyOverrideKept
    <2>2. CASE call.kind \in Updates
      <3>1. Write("src", {p}, [q \in Parts |-> Target(q)])
        BY <1>4, <2>2, InvParts DEF Slot
      <3> QED
        BY <1>1, <1>4, <2>2, <3>1, GraphWriteKept
    <2> QED
      BY <1>1, <2>1, <2>2
  <1> QED
    BY <1>2, <1>3, <1>4 DEF GraphOverride

-----------------------------------------------------------------------------
(* The copy of a transfer, and the removal of its source.                   *)

\* The master of the copy, or the whole copy, is written where nothing is.
LEMMA InsertWriteKept ==
    ASSUME EventSetInv, call.pc = "insert", ~Exists(remote["copy"]), Keep,
           NEW f \in [Parts -> Content], Accounted(f), Write("copy", Parts, f),
           \/ provider \in {"jmap", "caldav"} /\ Go("verify")
           \/ provider = "google" /\ Replay(call.before, TRUE)
           \/ provider = "graph" /\ Go("refetch")
    PROVE  EventSetInv'
  <1>1. call.kind = "create" /\ TypeInv /\ call.before \in EventSets
    BY InvParts DEF FlowInv, TypeInv, Calls
  <1>2. /\ SamePlan
        /\ provider \in {"jmap", "caldav"} => call'.pc = "verify" /\ call'.patched = call.patched
        /\ provider = "google" => call'.pc \in {"replay", "failed"} /\ call'.patched
        /\ provider = "graph" => call'.pc = "refetch"
    <2>1. CASE provider \in {"jmap", "caldav"} /\ Go("verify")
      BY <1>1, <2>1, GoFacts
    <2>2. CASE provider = "google" /\ Replay(call.before, TRUE)
      BY <1>1, <2>2, ReplayFacts
    <2>3. CASE provider = "graph" /\ Go("refetch")
      BY <1>1, <2>3, GoFacts
    <2> QED
      BY <2>1, <2>2, <2>3
  <1>3. \A p \in Parts : remote["copy"].parts[p].body = {}
    BY InvParts DEF Exists, ContentInv, Accounted
  <1>4. lost' = lost
    BY <1>3, WriteLosesNothing, InvParts
  <1>5. provider \in {"jmap", "caldav"} => lost' = {}
    BY <1>4, InvParts DEF SurvivalInv
  <1>6. TypeInv' /\ ContentInv' /\ RevisionInv' /\ UpdateInv' /\ SurvivalInv' /\ TodoInv' /\ PlanInv'
    BY <1>1, <1>2, <1>5, CopyWriteFrame
  <1>7. FlowInv' /\ CopyInv'
    <2>1. call'.kind = call.kind /\ provider' = provider /\ provider \in {"jmap", "caldav", "google", "graph"}
      BY <1>1, <1>2 DEF SamePlan, Keep, TypeInv
    <2> QED
      BY <1>1, <1>2, <2>1, InvParts DEF FlowInv, CopyInv
  <1> QED
    BY <1>6, <1>7 DEF EventSetInv

\* The first request of a creation, or of a creation taken up again.
LEMMA InsertKept == EventSetInv /\ Insert => EventSetInv'
  <1> SUFFICES ASSUME EventSetInv, Insert PROVE EventSetInv'
    OBVIOUS
  <1>1. call.pc = "insert" /\ Keep /\ call.kind = "create"
        /\ provider \in {"jmap", "caldav", "google", "graph"}
    BY InvParts DEF Insert, At, FlowInv, TypeInv
  <1>2. failures' \in Nat /\ UNCHANGED <<provider, detached, made>>
    BY <1>1, InvParts DEF Keep, TypeInv
  <1>3. CASE Exists(remote["copy"])
    <2>1. KeepRemote
      BY <1>3 DEF Insert
    <2>2. CASE Go("verify") \/ Go("failed")
      BY <1>1, <1>2, <2>1, <2>2, GoKept
    <2>3. CASE provider = "google" /\ Replay(call.before, TRUE)
      BY <1>1, <2>1, <2>3, ReplayKept
    <2>4. CASE provider = "graph" /\ Replay(remote["copy"], TRUE)
      BY <1>1, <2>1, <2>4, ReplayKept
    <2> QED
      BY <1>1, <1>3, <2>2, <2>3, <2>4 DEF Insert
  <1>4. CASE ~Exists(remote["copy"])
    <2>1. call.desired \in [Parts -> Content] /\ Accounted(call.desired)
      BY InvParts DEF TypeInv, Calls, ContentInv
    <2>2. Bare \in [Parts -> Content] /\ Accounted(Bare)
      <3>1. Generated \in Content
        BY DEF Generated, Content
      <3> QED
        BY <2>1, <3>1 DEF Bare, Accounted, Generated
    <2>3. CASE provider \in {"jmap", "caldav"}
      <3>1. Write("copy", Parts, call.desired) /\ Go("verify")
        BY <1>4, <2>3 DEF Insert
      <3> QED
        BY <1>1, <1>4, <2>1, <2>3, <3>1, InsertWriteKept
    <2>4. CASE provider = "google"
      <3>1. Write("copy", Parts, Bare) /\ Replay(call.before, TRUE)
        BY <1>4, <2>4 DEF Insert
      <3> QED
        BY <1>1, <1>4, <2>2, <2>4, <3>1, InsertWriteKept
    <2>5. CASE provider = "graph"
      <3>1. Write("copy", Parts, Bare) /\ Go("refetch")
        BY <1>4, <2>5 DEF Insert
      <3> QED
        BY <1>1, <1>4, <2>2, <2>5, <3>1, InsertWriteKept
    <2> QED
      BY <1>1, <2>3, <2>4, <2>5
  <1> QED
    BY <1>3, <1>4

\* What a removal leaves.
LEMMA GoneFacts == Gone \in [Parts -> Content] /\ Accounted(Gone)
  BY DEF Gone, None, Content, Accounted

\* A removal, of the set or of a resource, on the revisions of the snapshot.
LEMMA DeleteWriteKept ==
    ASSUME EventSetInv, call.pc = "delete", Keep, NEW P \in SUBSET Parts, Write("src", P, Gone),
           SamePlan, call'.patched = call.patched, call'.pc \in {"done", "delete"},
           provider \in {"jmap", "caldav"} => \A p \in P : Unwritten("src", p)
    PROVE  EventSetInv'
  <1>1. call.kind = "delete"
    BY InvParts DEF FlowInv
  <1>2. TypeInv' /\ ContentInv' /\ RevisionInv' /\ UpdateInv'
    BY WriteFrame, GoneFacts, InvParts
  <1>3. call'.kind = "delete" /\ provider' = provider
    BY <1>1 DEF SamePlan, Keep
  <1>4. provider \in {"jmap", "caldav"} => lost' = {}
    BY UnwrittenSafe, InvParts DEF SurvivalInv
  <1>5. SurvivalInv'
    BY <1>1, <1>3, <1>4, InvParts DEF SurvivalInv
  <1>6. FlowInv' /\ TodoInv' /\ PlanInv' /\ CopyInv'
    BY <1>3, InvParts DEF FlowInv, TodoInv, PlanInv, CopyInv, Undisturbed
  <1> QED
    BY <1>2, <1>5, <1>6 DEF EventSetInv

\* The removal of a whole set.
LEMMA DeleteSetKept == EventSetInv /\ DeleteSet => EventSetInv'
  <1> SUFFICES ASSUME EventSetInv, DeleteSet PROVE EventSetInv'
    OBVIOUS
  <1>1. call.pc = "delete" /\ Keep /\ provider # "caldav"
    BY DEF DeleteSet, At
  <1>2. CASE Refuse
    BY <1>1, <1>2, RefuseKept
  <1>3. CASE /\ \A p \in IF provider = "jmap" THEN Parts ELSE {"master"} : Unwritten("src", p)
             /\ Write("src", Parts, Gone) /\ Go("done")
    <2>1. SamePlan /\ call'.pc = "done" /\ call'.patched = call.patched
      BY <1>1, <1>3, GoFacts, InvParts
    <2> QED
      BY <1>1, <1>3, <2>1, DeleteWriteKept
  <1> QED
    BY <1>2, <1>3 DEF DeleteSet

\* The removal of one CalDAV resource.
LEMMA DeleteResourceKept == \A r : EventSetInv /\ DeleteResource(r) => EventSetInv'
  <1> SUFFICES ASSUME NEW r, EventSetInv, DeleteResource(r) PROVE EventSetInv'
    OBVIOUS
  <1>1. call.pc = "delete" /\ Keep /\ provider = "caldav"
    BY DEF DeleteResource, At
  <1>2. CASE Refuse
    BY <1>1, <1>2, RefuseKept
  <1>3. ASSUME \A p \in Holding(r) : Unwritten("src", p), Write("src", Holding(r), Gone),
               NEW q \in {"done", "delete"},
               call' = [call EXCEPT !.todo = @ \cup Holding(r), !.pc = q]
        PROVE  EventSetInv'
    <2>1. PICK H \in SUBSET Parts : H = Holding(r)
      BY <1>1, HoldingFacts, InvParts
    <2>2. call \in Calls /\ call' = [call EXCEPT !.todo = @ \cup H, !.pc = q] /\ Write("src", H, Gone)
      BY <1>3, <2>1, InvParts DEF TypeInv
    <2>3. SamePlan /\ call'.pc = q /\ call'.patched = call.patched
      BY <1>1, <2>2 DEF SamePlan, Calls
    <2> QED
      BY <1>1, <1>3, <2>1, <2>2, <2>3, DeleteWriteKept
  <1> QED
    BY <1>2, <1>3 DEF DeleteResource

-----------------------------------------------------------------------------
(* Other clients, and the coordinator.                                      *)

\* A change another client makes gives the part a new revision and is new to the
\* snapshot.
LEMMA ExternalEditKept ==
    \A x \in Edits, s \in Slots, p \in Parts :
        EventSetInv /\ ExternalEdit(x, s, p) => EventSetInv'
  <1> SUFFICES ASSUME NEW x \in Edits, NEW s \in Slots, NEW p \in Parts,
                      EventSetInv, ExternalEdit(x, s, p)
               PROVE  EventSetInv'
    OBVIOUS
  <1>1. /\ x \notin made /\ made' = made \cup {x} /\ x # "own" /\ x # "old"
        /\ clock' = clock + 1 /\ clock \in Nat /\ lost' = lost
        /\ UNCHANGED <<provider, detached, call, failures>>
    BY InvParts, SetAssumption DEF ExternalEdit, TypeInv
  <1>2. PICK c : c = Live(Effective(remote[s].parts, p).body \cup {x})
    OBVIOUS
  <1>3. remote[s] \in EventSets /\ remote[s].parts \in [Parts -> Content]
        /\ remote[s].revs \in [Parts -> Nat] /\ Accounted(remote[s].parts)
    BY InvParts DEF TypeInv, EventSets, ContentInv
  <1>4. Effective(remote[s].parts, p) \in Content /\ Effective(remote[s].parts, p).st = "live"
        /\ Effective(remote[s].parts, p).body \subseteq made \cup {"own", "old"}
    BY <1>3, InvParts DEF Effective, Accounted, ExternalEdit
  <1>5. c \in Content /\ c.st = "live" /\ c.body \subseteq made' \cup {"own", "old"} /\ x \in c.body
        /\ c.body = Effective(remote[s].parts, p).body \cup {x}
    BY <1>1, <1>2, <1>4 DEF Live, Content, Changes
  <1>6. PICK revs \in [Parts -> Nat] :
            revs = [q \in Parts |-> IF Resource(q) = Resource(p) THEN clock + 1 ELSE remote[s].revs[q]]
    <2>1. clock + 1 \in Nat /\ \A q \in Parts : remote[s].revs[q] \in Nat
      BY <1>1, <1>3
    <2>2. [q \in Parts |-> IF Resource(q) = Resource(p) THEN clock + 1 ELSE remote[s].revs[q]]
              \in [Parts -> Nat]
      BY <2>1
    <2> QED
      BY <2>2
  <1>7. \A q \in Parts : revs[q] = clock + 1 \/ (q # p /\ revs[q] = remote[s].revs[q])
    BY <1>6
  <1>8. PICK parts \in [Parts -> Content] : parts = [remote[s].parts EXCEPT ![p] = c]
    BY <1>3, <1>5
  <1>9. \A q \in Parts : parts[q] = IF q = p THEN c ELSE remote[s].parts[q]
    BY <1>3, <1>8
  <1>10. remote' = [remote EXCEPT ![s] = [parts |-> parts, revs |-> revs]]
    BY <1>2, <1>6, <1>8 DEF ExternalEdit
  <1>11. /\ remote' \in [Slots -> EventSets] /\ remote'[s].parts = parts /\ remote'[s].revs = revs
         /\ \A t \in Slots : t # s => remote'[t] = remote[t]
    BY <1>10, InvParts DEF TypeInv, EventSets
  <1>12. Was' = Was
    BY <1>1 DEF Was
  <1>13. TypeInv'
    BY <1>1, <1>11, InvParts DEF TypeInv
  <1>14. ContentInv'
    <2>1. \A q \in Parts : /\ parts[q].st # "live" => parts[q].body = {}
                           /\ parts[q].body \subseteq made' \cup {"own", "old"}
      BY <1>1, <1>3, <1>5, <1>9 DEF Accounted
    <2> QED
      BY <1>1, <1>11, <1>12, <2>1, InvParts DEF ContentInv, Accounted
  <1>15. RevisionInv'
    <2>1. /\ \A t \in Slots, q \in Parts : remote[t].revs[q] \in Nat /\ remote[t].revs[q] <= clock
          /\ \A q \in Parts : call.before.revs[q] \in Nat /\ call.before.revs[q] <= clock
      BY InvParts DEF TypeInv, RevisionInv, EventSets, Calls
    <2>2. \A t \in Slots, q \in Parts : remote'[t].revs[q] <= clock'
      BY <1>1, <1>7, <1>11, <2>1
    <2>3. ASSUME call.pc # "idle", NEW q \in Parts, remote'["src"].revs[q] = call.before.revs[q]
          PROVE  remote'["src"].parts[q] = call.before.parts[q]
      <3>1. remote'["src"].revs[q] # clock + 1
        BY <1>1, <2>1, <2>3
      <3>2. remote'["src"].revs[q] = remote["src"].revs[q]
            /\ remote'["src"].parts[q] = remote["src"].parts[q]
        BY <1>7, <1>9, <1>11, <3>1, InvParts
      <3> QED
        BY <2>3, <3>2, InvParts DEF RevisionInv, Unwritten, Src, Was
    <2> QED
      BY <1>1, <2>1, <2>2, <2>3 DEF RevisionInv, Unwritten, Src, Was
  <1>16. UpdateInv' /\ TodoInv' /\ PlanInv' /\ CopyInv'
    BY <1>1, <1>12, InvParts DEF UpdateInv, Untouched, TodoInv, PlanInv, CopyInv, Undisturbed
  <1>17. CASE s = "copy"
    <2>1. Src' = Src
      BY <1>11, <1>17, InvParts DEF Src
    <2>2. FlowInv' /\ SurvivalInv'
      BY <1>1, <1>12, <2>1, InvParts DEF FlowInv, SurvivalInv, Untouched
    <2> QED
      BY <1>13, <1>14, <1>15, <1>16, <2>2 DEF EventSetInv
  <1>18. CASE s = "src"
    <2>1. \A q \in Parts : Src'[q] = IF q = p THEN c ELSE Src[q]
      BY <1>9, <1>11, <1>18 DEF Src
    <2>2. c.body = Effective(Src, p).body \cup {x}
      BY <1>5, <1>18 DEF Src
    <2>3. Src["master"].body \subseteq Src'["master"].body
          /\ (Src["master"].st = "live" => Src'["master"].st = "live")
      BY <1>5, <2>1, <2>2, InvParts DEF Effective
    <2>4. Untouched(Src) => Untouched(Src')
      BY <1>1, <2>1, <2>2, InvParts DEF Untouched, Effective
    <2>5. FlowInv'
      BY <1>1, <2>3, <2>4, InvParts DEF FlowInv, Untouched
    <2>6. ASSUME NEW q \in Positions, Src[q].st = "generated" => Was[q].st = "generated",
                 Was[q].st = "generated" =>
                    Src[q].st # "live" \/ ~(Src[q].body \subseteq Was["master"].body)
          PROVE  /\ Src'[q].st = "generated" => Was[q].st = "generated"
                 /\ Was[q].st = "generated" =>
                       Src'[q].st # "live" \/ ~(Src'[q].body \subseteq Was["master"].body)
      <3>1. x \notin Was["master"].body
        BY <1>1, InvParts DEF ContentInv, Accounted
      <3> QED
        BY <1>5, <2>1, <2>6, <3>1, InvParts
    <2>7. SurvivalInv'
      BY <1>1, <1>12, <2>3, <2>6, InvParts DEF SurvivalInv
    <2> QED
      BY <1>13, <1>14, <1>15, <1>16, <2>5, <2>7 DEF EventSetInv
  <1> QED
    BY <1>17, <1>18 DEF Slots

\* Where a call starts.
LEMMA FirstStepFacts ==
    ASSUME TypeInv, NEW k \in Updates \cup {"create", "delete"}
    PROVE  /\ FirstStep(k) \in {"insert", "check", "delete", "write", "master"}
           /\ FirstStep(k) = "insert" => k = "create"
           /\ FirstStep(k) = "delete" => k = "delete"
           /\ FirstStep(k) = "write" => k \in Updates /\ provider \in {"jmap", "caldav"}
           /\ FirstStep(k) = "check" => k # "create" /\ provider = "google"
           /\ FirstStep(k) = "master" => k \in Updates /\ provider \in {"google", "graph"}
  BY InvParts DEF FirstStep, TypeInv

\* The coordinator calls a backend: nothing of its own is in the set yet.
LEMMA BeginKept == \A k \in Kinds, at \in Parts : EventSetInv /\ Begin(k, at) => EventSetInv'
  <1> SUFFICES ASSUME NEW k \in Kinds, NEW at \in Parts, EventSetInv, Begin(k, at) PROVE EventSetInv'
    OBVIOUS
  <1>1. /\ call.pc = "idle" /\ call = Idle /\ lost = {} /\ Untouched(Src) /\ Src["master"].st = "live"
        /\ (k \in {"occurrence", "exclude"}) <=> (at # "master")
        /\ at # "master" => Src[at].st # "excluded"
        /\ ~Refused(k, remote["src"])
        /\ UNCHANGED <<remote, clock, lost, provider, detached, failures, made>>
    BY InvParts DEF Begin, FlowInv, Src, KeepRemote, Keep
  <1>2. PICK want : want = IF k \in {"create", "delete"} THEN Src ELSE Desired(k, at, Src)
    OBVIOUS
  <1>3. call' = [Idle EXCEPT !.kind = k, !.at = at, !.before = remote["src"], !.desired = want,
                             !.view = remote["src"], !.pc = FirstStep(k)]
    BY <1>2 DEF Begin, Src
  <1>4. /\ call'.kind = k /\ call'.at = at /\ call'.before = remote["src"] /\ call'.desired = want
        /\ call'.view = remote["src"] /\ call'.pc = FirstStep(k) /\ call'.todo = {} /\ ~call'.patched
    BY <1>3 DEF Idle
  <1>5. Src' = Src /\ Was' = Src
    BY <1>1, <1>4 DEF Src, Was
  <1>6. k \in Updates \cup {"create", "delete"}
    BY SetAssumption DEF Updates
  <1>7. /\ FirstStep(k) \in {"insert", "check", "delete", "write", "master"}
        /\ FirstStep(k) = "insert" => k = "create"
        /\ FirstStep(k) = "delete" => k = "delete"
        /\ FirstStep(k) = "write" => k \in Updates /\ provider \in {"jmap", "caldav"}
        /\ FirstStep(k) = "check" => k # "create" /\ provider = "google"
        /\ FirstStep(k) = "master" => k \in Updates /\ provider \in {"google", "graph"}
    BY <1>6, FirstStepFacts, InvParts
  <1>8. Src \in [Parts -> Content] /\ Accounted(Src) /\ remote["src"] \in EventSets
    BY InvParts DEF TypeInv, EventSets, ContentInv, Src
  <1>9. ASSUME k \in Updates
        PROVE  /\ want["master"] = IF k \in {"series", "rule", "reset"}
                                  THEN Live(Src["master"].body \cup {"own"}) ELSE Src["master"]
               /\ \A p \in Positions :
                     want[p] = IF k = "reset" THEN Generated
                               ELSE IF p # at THEN Src[p]
                               ELSE IF k = "occurrence" THEN Live(Effective(Src, p).body \cup {"own"})
                               ELSE IF k = "exclude" THEN Excluded ELSE Src[p]
    <2>1. want = Desired(k, at, Src) /\ "master" \notin Positions
      BY <1>2, <1>9, InvParts, SetAssumption
    <2>2. want["master"] = IF k \in {"series", "rule", "reset"}
                           THEN Live(Src["master"].body \cup {"own"}) ELSE Src["master"]
      BY <1>1, <2>1, InvParts DEF Desired
    <2>3. ASSUME NEW p \in Positions
          PROVE  want[p] = IF k = "reset" THEN Generated
                           ELSE IF p # at THEN Src[p]
                           ELSE IF k = "occurrence" THEN Live(Effective(Src, p).body \cup {"own"})
                           ELSE IF k = "exclude" THEN Excluded ELSE Src[p]
      BY <1>1, <2>1, InvParts DEF Desired
    <2> QED
      BY <2>2, <2>3
  <1>10. \A b \in SUBSET Changes : Live(b) \in Content /\ Live(b).st = "live" /\ Live(b).body = b
    BY DEF Live, Content
  <1>11. \A p \in Parts : /\ Src[p] \in Content /\ Src[p].body \in SUBSET Changes
                          /\ Effective(Src, p) \in Content /\ Effective(Src, p).body \in SUBSET Changes
                          /\ Effective(Src, p).body \subseteq made \cup {"own", "old"}
                          /\ "own" \notin Effective(Src, p).body
    BY <1>1, <1>8, InvParts DEF Effective, Content, Accounted, Untouched
  <1>12. Generated \in Content /\ Excluded \in Content /\ Generated.st = "generated" /\ Generated.body = {}
         /\ Excluded.st = "excluded" /\ Excluded.body = {}
    BY DEF Generated, Excluded, Content
  <1>13. ASSUME NEW p \in Parts
         PROVE  /\ want[p] \in Content
                /\ want[p].st # "live" => want[p].body = {}
                /\ want[p].body \subseteq made \cup {"own", "old"}
    <2>1. CASE k \in {"create", "delete"}
      BY <1>2, <1>8, <1>11, <2>1 DEF Accounted
    <2>2. CASE k \in Updates
      <3>1. \/ want[p] = Src[p] \/ want[p] = Generated \/ want[p] = Excluded
            \/ want[p] = Live(Src[p].body \cup {"own"})
            \/ want[p] = Live(Effective(Src, p).body \cup {"own"})
        BY <1>9, <2>2 DEF Parts
      <3>2. Src[p].body \cup {"own"} \in SUBSET Changes /\ Effective(Src, p).body \cup {"own"} \in SUBSET Changes
        BY <1>11 DEF Changes
      <3> QED
        BY <1>8, <1>10, <1>11, <1>12, <3>1, <3>2 DEF Accounted
    <2> QED
      BY <1>6, <2>1, <2>2
  <1>14. want \in [Parts -> Content] /\ Accounted(want)
    <2>1. want = [p \in Parts |-> want[p]]
      <3>1. CASE k \in {"create", "delete"}
        BY <1>2, <1>8, <3>1
      <3>2. CASE k \notin {"create", "delete"}
        <4>1. want = Desired(k, at, Src)
          BY <1>2, <3>2
        <4> QED
          BY <4>1 DEF Desired
      <3> QED
        BY <3>1, <3>2
    <2> QED
      BY <1>13, <2>1 DEF Accounted
  <1>15. TypeInv'
    <2>1. call' \in Calls
      BY <1>3, <1>6, <1>7, <1>8, <1>14 DEF Calls, Idle
    <2> QED
      BY <1>1, <2>1, InvParts DEF TypeInv
  <1>16. ContentInv'
    BY <1>1, <1>4, <1>5, <1>8, <1>14, InvParts DEF ContentInv, Accounted
  <1>17. RevisionInv'
    BY <1>1, <1>4, <1>5, InvParts DEF RevisionInv, Unwritten
  <1>18. FlowInv'
    BY <1>1, <1>4, <1>6, <1>7, InvParts DEF FlowInv
  <1>19. UpdateInv'
    <2> SUFFICES ASSUME k \in Updates PROVE UpdateInv'
      BY <1>4 DEF UpdateInv
    <2>1. want["master"] = Src["master"] \/ "own" \in want["master"].body
      <3>1. Src["master"].body \cup {"own"} \in SUBSET Changes
        BY <1>11, InvParts DEF Changes
      <3> QED
        BY <1>9, <1>10, <3>1
    <2> QED
      BY <1>1, <1>4, <1>5, <2>1 DEF UpdateInv, Untouched
  <1>20. ASSUME k \in Updates, NEW p \in Positions, Src[p].st = "generated"
         PROVE  /\ want[p].st # "live" \/ "own" \in want[p].body
                /\ Src[p].st # "live"
    <2>1. Effective(Src, p).body \cup {"own"} \in SUBSET Changes
      BY <1>11, InvParts DEF Changes
    <2> QED
      BY <1>9, <1>10, <1>12, <1>20, <2>1
  <1>21. SurvivalInv'
    BY <1>1, <1>4, <1>5, <1>7, <1>20 DEF SurvivalInv
  <1>22. TodoInv' /\ CopyInv'
    BY <1>4, <1>7 DEF TodoInv, CopyInv
  <1>23. PlanInv'
    <2> SUFFICES ASSUME k \in Updates \ {"rule"} PROVE PlanInv'
      BY <1>4 DEF PlanInv, Undisturbed
    <2>1. want = Desired(k, at, Src)
      BY <1>2, InvParts
    <2>2. provider = "caldav" /\ k = "reset" => \A p \in detached : Src[p].st = "generated"
      BY <1>1 DEF Refused, Src
    <2>3. Src'["master"] = Was'["master"] /\ \A p \in Positions : Src'[p] = Was'[p]
      BY <1>5
    <2>4. call'.desired = Desired(call'.kind, call'.at, Was') /\ detached' = detached /\ provider' = provider
      BY <1>1, <1>4, <1>5, <2>1
    <2> QED
      BY <1>1, <1>4, <1>5, <2>2, <2>3, <2>4 DEF PlanInv
  <1> QED
    BY <1>15, <1>16, <1>17, <1>18, <1>19, <1>21, <1>22, <1>23 DEF EventSetInv

\* An update is taken up again only from a set that holds none of its writes: then an
\* undisturbed set is, part by part, what it was.
LEMMA ResumedAsBefore ==
    ASSUME EventSetInv, call.kind \in Updates, SemanticEq(Src, Was)
    PROVE  /\ Src["master"] = Was["master"] /\ Untouched(Src)
           /\ Undisturbed => \A p \in Parts : Src[p] = Was[p]
  <1>1. \A p \in Parts : Effective(Src, p) = Effective(Was, p)
    BY DEF SemanticEq
  <1>2. Src["master"] = Was["master"]
    BY <1>1, InvParts DEF Effective
  <1>3. Untouched(Was) /\ Was["master"].st = "live"
    BY InvParts DEF UpdateInv
  <1>4. \A p \in Parts : "own" \notin Effective(Was, p).body
    BY <1>3, InvParts DEF Untouched, Effective
  <1>5. Untouched(Src)
    <2> SUFFICES ASSUME NEW p \in Parts PROVE "own" \notin Src[p].body
      BY DEF Untouched
    <2>1. CASE Src[p].st = "generated"
      BY <2>1, InvParts DEF ContentInv, Accounted, Src
    <2>2. CASE Src[p].st # "generated"
      BY <1>1, <1>4, <2>2 DEF Effective
    <2> QED
      BY <2>1, <2>2
  <1>6. ASSUME Undisturbed, NEW p \in Positions PROVE Src[p] = Was[p]
    <2>1. p \in Parts /\ Live(call.desired["master"].body).st = "live"
          /\ Live(call.desired["master"].body).body = call.desired["master"].body
      BY InvParts DEF Live
    <2>plan.
          /\ call.desired[p] = IF call.kind = "reset" THEN Generated
                               ELSE IF p # call.at THEN Was[p]
                               ELSE IF call.kind = "occurrence" THEN Live(Effective(Was, p).body \cup {"own"})
                               ELSE Excluded
          /\ call.at # "master" <=> call.kind \in {"occurrence", "exclude"}
      BY <1>6, PlanFacts
    <2>2. call.kind \in {"series", "reset"} => "own" \in call.desired["master"].body
      BY <1>6, PlanFacts DEF Live
    <2>3. CASE Src[p] = Was[p]
      BY <2>3
    <2>4. CASE Src[p] = call.desired[p] /\ (Src[p].st = "generated" => Src["master"] = call.desired["master"])
      <3>1. CASE call.kind \in {"series", "reset"}
        <4>1. Src["master"] # call.desired["master"]
          BY <1>5, <2>2, <3>1, InvParts DEF Untouched
        <4>2. call.desired[p].st # "generated"
          BY <2>4, <4>1
        <4>3. call.kind = "series" /\ call.at = "master"
          BY <2>plan, <3>1, <4>2 DEF Generated
        <4> QED
          BY <2>plan, <2>4, <4>3, SetAssumption
      <3>2. CASE call.kind \in {"occurrence", "exclude"} /\ p # call.at
        BY <2>plan, <2>4, <3>2
      <3>3. CASE call.kind = "occurrence" /\ p = call.at
        <4>1. Src[p] = Live(Effective(Was, p).body \cup {"own"})
          BY <2>plan, <2>4, <3>3
        <4> QED
          BY <1>5, <2>1, <4>1 DEF Untouched, Live
      <3>4. CASE call.kind = "exclude" /\ p = call.at
        <4>1. Src[p] = Excluded
          BY <2>plan, <2>4, <3>4
        <4>2. Effective(Was, p).st = "excluded"
          BY <1>1, <2>1, <4>1 DEF Effective, Excluded
        <4>3. Was[p].st # "excluded" /\ Was["master"].st # "excluded"
          BY <1>3, <1>6, <3>4, InvParts, SetAssumption DEF PlanInv
        <4> QED
          BY <4>2, <4>3 DEF Effective
      <3> QED
        BY <1>6, <3>1, <3>2, <3>3, <3>4, PlanFacts
    <2>5. CASE /\ call.desired[p].st = "generated" /\ Was[p].st # "generated"
               /\ Src[p] = Live(call.desired["master"].body)
      <3>1. call.kind = "reset"
        BY <2>plan, <2>5 DEF Live, Excluded
      <3> QED
        BY <1>5, <2>1, <2>2, <2>5, <3>1 DEF Untouched
    <2> QED
      BY <1>6, <2>3, <2>4, <2>5, InvParts DEF PlanInv
  <1> QED
    BY <1>2, <1>5, <1>6 DEF Parts

\* An update goes on from what it started from.
LEMMA ResumeUpdateKept ==
    ASSUME EventSetInv, call.pc = "failed", call.kind \in Updates, KeepRemote, Keep,
           SemanticEq(Src, Was),
           call' = [call EXCEPT !.before = remote["src"], !.view = remote["src"], !.patched = FALSE,
                                !.todo = {}, !.pc = FirstStep(call.kind)]
    PROVE  EventSetInv'
  <1>1. call \in Calls /\ remote["src"] \in EventSets
    BY InvParts DEF TypeInv
  <1>2. /\ FirstStep(call.kind) \in {"check", "write", "master"}
        /\ FirstStep(call.kind) = "write" => provider \in {"jmap", "caldav"}
        /\ FirstStep(call.kind) = "check" => provider = "google"
        /\ FirstStep(call.kind) = "master" => provider \in {"google", "graph"}
    BY FirstStepFacts, InvParts
  <1>3. /\ call' \in Calls /\ call'.kind = call.kind /\ call'.at = call.at
        /\ call'.before = remote["src"] /\ call'.desired = call.desired
        /\ call'.todo = {} /\ call'.patched = FALSE /\ call'.pc = FirstStep(call.kind)
    BY <1>1, <1>2 DEF Calls
  <1>4. /\ UNCHANGED <<remote, clock, lost, provider, detached, failures, made>>
        /\ Src' = Src /\ Was' = Src
    BY <1>3 DEF KeepRemote, Keep, Src, Was
  <1>5. /\ Src["master"] = Was["master"] /\ Untouched(Src)
        /\ Undisturbed => \A p \in Parts : Src[p] = Was[p]
    BY ResumedAsBefore
  <1>6. TypeInv'
    BY <1>3, <1>4, InvParts DEF TypeInv
  <1>7. FlowInv'
    BY <1>2, <1>3, <1>4, InvParts DEF FlowInv
  <1>8. ContentInv'
    BY <1>3, <1>4, InvParts DEF ContentInv, Accounted, Src
  <1>9. RevisionInv'
    BY <1>3, <1>4, InvParts DEF RevisionInv, Unwritten
  <1>10. UpdateInv'
    BY <1>3, <1>4, <1>5, InvParts DEF UpdateInv, Untouched
  <1>11. SurvivalInv'
    <2>1. provider = "google" => ~call.patched
      BY <1>5, InvParts DEF SurvivalInv, Untouched
    <2>2. ASSUME provider = "google", NEW p \in Positions, Src[p].st = "generated"
          PROVE  /\ call.desired[p].st # "live" \/ "own" \in call.desired[p].body
                 /\ Src[p].st # "live"
      BY <2>1, <2>2, InvParts DEF SurvivalInv
    <2> QED
      BY <1>3, <1>4, <2>1, <2>2, InvParts DEF SurvivalInv
  <1>12. TodoInv' /\ CopyInv'
    BY <1>2, <1>3, InvParts DEF TodoInv, CopyInv
  <1>13. PlanInv'
    <2> SUFFICES ASSUME Undisturbed PROVE PlanInv'
      BY <1>3, <1>4 DEF PlanInv, Undisturbed
    <2>1. Src = Was
      BY <1>1, <1>5, InvParts DEF TypeInv, Calls, EventSets, Src, Was
    <2> QED
      BY <1>3, <1>4, <2>1, InvParts DEF PlanInv, Undisturbed
  <1> QED
    BY <1>6, <1>7, <1>8, <1>9, <1>10, <1>11, <1>12, <1>13 DEF EventSetInv

\* A call that failed is taken up again, or found to be done.
LEMMA ResumeKept == EventSetInv /\ Resume => EventSetInv'
  <1> SUFFICES ASSUME EventSetInv, Resume PROVE EventSetInv'
    OBVIOUS
  <1>1. call.pc = "failed" /\ KeepRemote /\ Keep /\ call.kind \in Updates \cup {"create", "delete"}
    BY InvParts DEF Resume, FlowInv, TypeInv, Calls
  <1>2. failures' \in Nat /\ UNCHANGED <<provider, detached, made>>
    BY <1>1, InvParts DEF Keep, TypeInv
  <1>3. CASE /\ call.kind \in {"create", "delete"}
             /\ call' = [call EXCEPT !.todo = {}, !.pc = FirstStep(call.kind)]
    <2>1. call \in Calls
      BY InvParts DEF TypeInv
    <2>2. PICK q \in {"insert", "check", "delete"} : q = FirstStep(call.kind)
      BY <1>1, <1>3, FirstStepFacts, InvParts
    <2>3. /\ SamePlan /\ call'.pc = q /\ call'.patched = call.patched
      BY <1>1, <1>3, <2>1, <2>2 DEF SamePlan, Calls
    <2>4. call'.kind = call.kind /\ call'.desired = call.desired /\ provider' = provider
      BY <1>2, <2>3 DEF SamePlan
    <2>5. q = "check" /\ provider = "google" => ~call.patched
      BY <1>1, <1>3, <2>2, FirstStepFacts, InvParts DEF SurvivalInv
    <2>6. TypeInv' /\ ContentInv' /\ RevisionInv' /\ UpdateInv' /\ SurvivalInv' /\ PlanInv'
      BY <1>1, <1>2, <2>2, <2>3, <2>5, QuietFrame
    <2>7. FlowInv' /\ TodoInv' /\ CopyInv'
      BY <1>1, <1>3, <2>2, <2>3, <2>4, FirstStepFacts, InvParts DEF FlowInv, TodoInv, CopyInv
    <2> QED
      BY <2>6, <2>7 DEF EventSetInv
  <1>4. CASE call.kind \notin {"create", "delete"} /\ Go("done")
    BY <1>1, <1>4, GoDone
  <1>5. CASE /\ call.kind \notin {"create", "delete"}
             /\ SemanticEq(remote["src"].parts, call.before.parts)
             /\ call' = [call EXCEPT !.before = remote["src"], !.view = remote["src"], !.patched = FALSE,
                                     !.todo = {}, !.pc = FirstStep(call.kind)]
    BY <1>1, <1>5, ResumeUpdateKept DEF Src, Was
  <1> QED
    BY <1>3, <1>4, <1>5 DEF Resume

-----------------------------------------------------------------------------
\* The invariant holds of a series nobody has called a backend for.
LEMMA InitInv == Init => EventSetInv
  <1> SUFFICES ASSUME Init PROVE EventSetInv
    OBVIOUS
  <1>1. PICK f \in [Positions -> {Generated, Excluded, Live({"old"})}] :
          /\ remote = [s \in Slots |-> IF s = "src"
                 THEN [parts |-> [p \in Parts |-> IF p = "master" THEN Live({}) ELSE f[p]],
                       revs |-> [p \in Parts |-> 0]]
                 ELSE NoSet]
          /\ detached \in IF provider = "caldav" THEN SUBSET {p \in Positions : f[p].st = "live"}
                          ELSE {{}}
    BY DEF Init
  <1>2. PICK parts : parts = [p \in Parts |-> IF p = "master" THEN Live({}) ELSE f[p]]
    OBVIOUS
  <1>3. Live({}) \in Content /\ Live({"old"}) \in Content /\ Generated \in Content
        /\ Excluded \in Content /\ None \in Content
    BY DEF Live, Generated, Excluded, None, Content, Changes
  <1>4. /\ parts \in [Parts -> Content] /\ parts["master"] = Live({})
        /\ \A p \in Parts : parts[p] \in {Live({}), Generated, Excluded, Live({"old"})}
    BY <1>2, <1>3 DEF Parts
  <1>5. \A c \in {Live({}), Generated, Excluded, Live({"old"}), None} :
           /\ c.st # "live" => c.body = {}
           /\ c.body \subseteq {"own", "old"} /\ "own" \notin c.body
    BY DEF Live, Generated, Excluded, None
  <1>6. /\ remote["src"] = [parts |-> parts, revs |-> [p \in Parts |-> 0]]
        /\ remote["copy"] = NoSet
        /\ remote \in [Slots -> {[parts |-> parts, revs |-> [p \in Parts |-> 0]], NoSet}]
    BY <1>1, <1>2 DEF Slots
  <1>7. /\ [parts |-> parts, revs |-> [p \in Parts |-> 0]] \in EventSets /\ NoSet \in EventSets
        /\ NoSet.parts = [p \in Parts |-> None] /\ NoSet.revs = [p \in Parts |-> 0]
        /\ NoSet.parts \in [Parts -> Content]
    BY <1>3, <1>4 DEF EventSets, NoSet
  <1>8. call = Idle /\ clock = 0 /\ failures = 0 /\ made = {} /\ lost = {} /\ provider \in Providers
        /\ detached \subseteq Positions
    BY <1>1 DEF Init
  <1>9. /\ call.kind = "none" /\ call.pc = "idle" /\ call.at = "master" /\ call.before = NoSet
        /\ call.desired = NoSet.parts /\ call.view = NoSet /\ call.todo = {} /\ call.patched = FALSE
    BY <1>8 DEF Idle
  <1>10. TypeInv
    <2>1. call \in Calls
      BY <1>7, <1>8, InvParts DEF Calls, Idle
    <2>2. remote \in [Slots -> EventSets]
      BY <1>6, <1>7
    <2> QED
      BY <1>8, <2>1, <2>2, SetAssumption DEF TypeInv
  <1>11. Src = parts /\ Was = [p \in Parts |-> None]
    BY <1>6, <1>7, <1>9 DEF Src, Was
  <1>12. FlowInv
    BY <1>4, <1>5, <1>8, <1>9, <1>11 DEF FlowInv, Untouched, Live
  <1>13. ContentInv
    BY <1>4, <1>5, <1>6, <1>7, <1>9, <1>11 DEF ContentInv, Accounted, Src, Slots
  <1>14. RevisionInv
    BY <1>6, <1>7, <1>8, <1>9 DEF RevisionInv, Slots
  <1>15. UpdateInv /\ SurvivalInv /\ TodoInv /\ PlanInv /\ CopyInv
    BY <1>8, <1>9, InvParts DEF UpdateInv, SurvivalInv, TodoInv, PlanInv, CopyInv, Undisturbed
  <1> QED
    BY <1>10, <1>12, <1>13, <1>14, <1>15 DEF EventSetInv

\* Every step of a call, of the coordinator and of another client preserves the
\* invariant.
THEOREM EventSetInductive == EventSetInv /\ [Next]_vars => EventSetInv'
  <1> SUFFICES ASSUME EventSetInv, [Next]_vars PROVE EventSetInv'
    OBVIOUS
  <1>1. CASE UNCHANGED vars
    BY <1>1 DEF vars, EventSetInv, TypeInv, FlowInv, ContentInv, RevisionInv, UpdateInv, SurvivalInv,
        TodoInv, PlanInv, CopyInv, Undisturbed, Accounted, Untouched, Unwritten, Src, Was
  <1>2. CASE Backend
    BY <1>2, SetInStateKept, PutsDoneKept, CheckCurrentKept, PatchMasterKept, RefetchKept, ReplayedKept,
       InsertKept, DeleteSetKept, VerifyKept, PutResourceKept, DeleteResourceKept, GoogleReplayKept,
       GraphOverrideKept DEF Backend
  <1> QED
    BY <1>1, <1>2, BeginKept, ResumeKept, FailKept, ExternalEditKept DEF Next

\* The inductive invariant holds in every reachable state.
THEOREM EventSetInvariant == Spec => []EventSetInv
  BY InitInv, EventSetInductive, PTL DEF Spec

\* JMAP and CalDAV never overwrite or delete a change made after the set was read,
\* and Google does not as long as the call leaves the master alone and the set in place.
THEOREM EventSetUnseenSurvives == Spec => []UnseenSurvives
  <1>1. EventSetInv => UnseenSurvives
    BY DEF EventSetInv, TypeInv, SurvivalInv, UnseenSurvives, Exposed
  <1> QED
    BY <1>1, EventSetInvariant, PTL

\* An update cut short that nobody else disturbed leaves every part as it was or as
\* it is wanted, in whatever state the attempts before left the set.
THEOREM EventSetOnlyPlanned == Spec => []OnlyPlannedContent
  <1>1. EventSetInv => OnlyPlannedContent
    <2> SUFFICES ASSUME EventSetInv, Undisturbed, NEW p \in Parts
                 PROVE  \/ Effective(Src, p) = Effective(Was, p)
                        \/ Effective(Src, p) = Effective(call.desired, p)
      BY DEF OnlyPlannedContent, Undisturbed, Updates, Src, Was
    <2>1. Src["master"] \in {Was["master"], call.desired["master"]}
      BY InvParts DEF PlanInv
    <2> DEFINE Plan == /\ call.desired[p] = IF call.kind = "reset" THEN Generated
                                 ELSE IF p # call.at THEN Was[p]
                                 ELSE IF call.kind = "occurrence"
                                      THEN Live(Effective(Was, p).body \cup {"own"})
                                 ELSE Excluded
                       /\ call.at # "master" <=> call.kind \in {"occurrence", "exclude"}
    <2>plan. ASSUME p \in Positions PROVE Plan
      BY <2>plan, PlanFacts
    <2>2. CASE p = "master"
      BY <2>1, <2>2 DEF Effective
    <2>3. CASE p \in Positions /\ Src[p] = Was[p]
      <3>1. CASE Src["master"] = Was["master"]
        BY <2>3, <3>1 DEF Effective
      <3>2. CASE Src["master"] = call.desired["master"] /\ Src["master"] # Was["master"]
        <4>1. call.kind \in {"series", "reset"}
          BY <3>2, PlanFacts
        <4>2. Was[p].st = "generated" => call.desired[p].st = "generated"
          BY <2>plan, <2>3, <4>1, SetAssumption DEF Generated
        <4> QED
          BY <2>3, <3>2, <4>2 DEF Effective
      <3> QED
        BY <2>1, <3>1, <3>2
    <2>4. CASE /\ p \in Positions /\ Src[p] = call.desired[p]
               /\ Src[p].st = "generated" => Src["master"] = call.desired["master"]
      BY <2>4 DEF Effective
    <2>5. CASE /\ p \in Positions /\ call.desired[p].st = "generated" /\ Was[p].st # "generated"
               /\ Src[p] = Live(call.desired["master"].body)
      <3>1. call.kind = "reset"
        BY <2>plan, <2>5 DEF Live, Excluded
      <3>2. call.desired["master"] = Live(Was["master"].body \cup {"own"})
        BY <3>1, PlanFacts
      <3> QED
        BY <2>5, <3>2 DEF Effective, Live
    <2> QED
      BY <2>2, <2>3, <2>4, <2>5, InvParts DEF PlanInv, Parts
  <1> QED
    BY <1>1, EventSetInvariant, PTL

\* A copy reported complete has every exception, whichever attempt made which part.
THEOREM EventSetCopyIsWhole == Spec => []CopyIsWhole
  <1>1. EventSetInv => CopyIsWhole
    BY DEF EventSetInv, CopyInv, CopyIsWhole
  <1> QED
    BY <1>1, EventSetInvariant, PTL
=============================================================================
