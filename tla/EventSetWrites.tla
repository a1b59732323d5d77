--------------------------- MODULE EventSetWrites ---------------------------
(***************************************************************************)
(* How the calendar backends write an event set: a series' master and its  *)
(* exceptions. JMAP changes them in one request conditional on the         *)
(* account's state; CalDAV with one conditional PUT or DELETE per resource; *)
(* Google and Graph with one conditional request for the master and one    *)
(* for each exception. Other clients change the set between the requests,  *)
(* and a call can stop after any of them.                                  *)
(*                                                                         *)
(* Source: backend/calendar/google/event_sets.rs, mail/google/event_sets.rs, *)
(* mail/graph/event_set.rs and its writes.rs, mail/jmap/calendar/          *)
(* event_set.rs and backend/calendar/caldav/event_sets.rs, called by       *)
(* commands/calendar_actions.rs. CalendarActions takes each call as one    *)
(* write; this module opens it. Reading a set is one step: Google and Graph *)
(* read the master again and refuse a read it changed under, and a JMAP    *)
(* read is of one state.                                                   *)
(*                                                                         *)
(* A part's content is the set of changes made to it. A position without   *)
(* an exception is generated from the master.                              *)
(***************************************************************************)
EXTENDS Naturals, FiniteSets

CONSTANTS
    Providers,    \* which of "jmap", "caldav", "google", "graph"
    Positions,    \* positions of the series' recurrence
    Edits,        \* changes other clients make
    Kinds,        \* the calls: series, rule, reset, occurrence, exclude, create, delete
    MaxFailures   \* bound on calls cut short

ASSUME SetAssumption ==
    /\ Providers \subseteq {"jmap", "caldav", "google", "graph"}
    /\ Kinds \subseteq {"series", "rule", "reset", "occurrence", "exclude", "create", "delete"}
    /\ IsFiniteSet(Positions) /\ "master" \notin Positions
    /\ Edits \cap {"own", "old"} = {} /\ MaxFailures \in Nat

VARIABLES
    provider,   \* the protocol of the calendar
    detached,   \* CalDAV: positions whose exception is a resource of its own
    remote,     \* what the provider holds: the source, and the copy a transfer makes
    clock,      \* its last revision
    call,       \* the call of the coordinator
    failures,   \* how many attempts were cut short
    made,       \* history: changes of other clients
    lost        \* history: those overwritten by a call that had not seen them

vars == <<provider, detached, remote, clock, call, failures, made, lost>>

Parts == {"master"} \cup Positions
Slots == {"src", "copy"}
Live(b) == [st |-> "live", body |-> b]
Generated == [st |-> "generated", body |-> {}]
Excluded == [st |-> "excluded", body |-> {}]
None == [st |-> "none", body |-> {}]
NoSet == [parts |-> [p \in Parts |-> None], revs |-> [p \in Parts |-> 0]]

Exists(set) == \E p \in Parts : set.parts[p].st # "none"

\* What a reader sees at a part (apply_event_fields on the master for a slot
\* without exception).
Effective(parts, p) == IF parts[p].st = "generated" THEN parts["master"] ELSE parts[p]

\* semantic_eq: an exception that says what the master says is no difference.
SemanticEq(a, b) == \A p \in Parts : Effective(a, p) = Effective(b, p)

\* The resource that holds a part, with the revision its writes are conditional on.
Resource(p) ==
    CASE provider = "jmap" -> "account"
      [] provider = "caldav" -> IF p \in detached THEN p ELSE "main"
      [] OTHER -> p
Holding(r) == {p \in Parts : Resource(p) = r}

\* desired_set: the whole series, its rule, the series without its exceptions, or
\* one occurrence.
Desired(k, at, parts) ==
    [p \in Parts |->
        CASE p = "master" ->
                IF k \in {"series", "rule", "reset"} THEN Live(parts[p].body \cup {"own"}) ELSE parts[p]
          [] p # "master" /\ k = "reset" -> Generated
          [] p = at /\ k = "occurrence" -> Live(Effective(parts, p).body \cup {"own"})
          [] p = at /\ k = "exclude" -> Excluded
          [] OTHER -> parts[p]]

\* A part is written in slot s with content f[p], for p in P. What another client
\* put there since the call read it is gone, unless it is part of what is written.
Write(s, P, f) ==
    LET now == remote[s]
        seen == call.before.parts
        touched == {Resource(p) : p \in P}
        gone(p) == (now.parts[p].body \cap Edits)
                      \ (IF s = "src" THEN seen[p].body \cup f[p].body ELSE f[p].body) IN
    /\ remote' = [remote EXCEPT ![s] =
          [parts |-> [p \in Parts |-> IF p \in P THEN f[p] ELSE now.parts[p]],
           revs |-> [p \in Parts |-> IF Resource(p) \in touched THEN clock + 1 ELSE now.revs[p]]]]
    /\ clock' = clock + 1
    /\ lost' = lost \cup UNION {gone(p) : p \in P}

KeepRemote == UNCHANGED <<remote, clock, lost>>
Keep == UNCHANGED <<provider, detached, failures, made>>
At(pc) == call.pc = pc
Go(pc) == call' = [call EXCEPT !.pc = pc]
Refuse == Go("failed") /\ KeepRemote
Unwritten(s, p) == remote[s].revs[p] = call.before.revs[p]

-----------------------------------------------------------------------------
(* The coordinator.                                                         *)

Idle == [kind |-> "none", at |-> "master", before |-> NoSet, desired |-> NoSet.parts,
         view |-> NoSet, todo |-> {}, patched |-> FALSE, pc |-> "idle"]

\* What a backend refuses before its first request: Graph cannot restore a
\* cancelled occurrence, CalDAV does not remove a detached resource.
Refused(k, set) ==
    /\ k = "reset"
    /\ \/ provider = "graph" /\ \E p \in Positions : set.parts[p].st = "excluded"
       \/ provider = "caldav" /\ \E p \in detached : set.parts[p].st # "generated"

FirstStep(k) ==
    CASE k = "create" -> "insert"
      [] k = "delete" -> IF provider = "google" THEN "check" ELSE "delete"
      [] OTHER -> IF provider \in {"jmap", "caldav"} THEN "write"
                  ELSE IF provider = "google" THEN "check" ELSE "master"

\* The coordinator has read the source and found it as planned; it calls the backend.
Begin(k, at) ==
    LET set == remote["src"]
        want == IF k \in {"create", "delete"} THEN set.parts ELSE Desired(k, at, set.parts) IN
    /\ call.pc = "idle" /\ Exists(set)
    /\ k \in {"occurrence", "exclude"} <=> at # "master"
    /\ at # "master" => set.parts[at].st # "excluded"
    /\ ~Refused(k, set)
    /\ call' = [Idle EXCEPT !.kind = k, !.at = at, !.before = set, !.desired = want,
                            !.view = set, !.pc = FirstStep(k)]
    /\ KeepRemote /\ Keep

Slot == IF call.kind = "create" THEN "copy" ELSE "src"

\* A call that failed is resumed. An update goes on only from exactly what it
\* started from, or is done; a creation looks for what it made; a removal starts
\* again from the same snapshot.
Resume ==
    LET now == remote["src"] IN
    /\ call.pc = "failed"
    /\ \/ /\ call.kind \in {"create", "delete"}
          /\ call' = [call EXCEPT !.todo = {}, !.pc = FirstStep(call.kind)]
       \/ /\ call.kind \notin {"create", "delete"} /\ Exists(now)
          /\ \/ SemanticEq(now.parts, call.desired) /\ Go("done")
             \/ /\ SemanticEq(now.parts, call.before.parts)
                /\ call' = [call EXCEPT !.before = now, !.view = now, !.patched = FALSE,
                                        !.todo = {}, !.pc = FirstStep(call.kind)]
    /\ KeepRemote /\ Keep

Running == call.pc \notin {"idle", "done", "failed"}

\* A request fails, its reply is lost, or the application stops.
Fail ==
    /\ Running /\ failures < MaxFailures
    /\ failures' = failures + 1 /\ Go("failed")
    /\ KeepRemote /\ UNCHANGED <<provider, detached, made>>

\* The set is read and compared with what was asked for.
Verify ==
    /\ At("verify")
    /\ IF SemanticEq(remote[Slot].parts, call.desired) THEN Go("done") ELSE Go("failed")
    /\ KeepRemote /\ Keep

-----------------------------------------------------------------------------
(* One resource at a time, on the revisions of the snapshot.                 *)

Changed == {p \in Parts : call.desired[p] # call.before.parts[p]}
Pending == {Resource(p) : p \in Changed \ call.todo}

\* native_set: one request with ifInState.
SetInState ==
    /\ provider = "jmap" /\ At("write")
    /\ IF \E p \in Parts : ~Unwritten("src", p) THEN Refuse
       ELSE Write("src", Changed, call.desired) /\ Go("verify")
    /\ Keep

\* Mutant: the revision is taken from the resource as it is now.
PutResourceFresh(r) ==
    /\ provider = "caldav" /\ At("write") /\ r \in Pending
    /\ r # "main" => "main" \notin Pending
    /\ Write("src", Holding(r), call.desired)
    /\ call' = [call EXCEPT !.todo = @ \cup Holding(r)]
    /\ Keep

\* update: the main resource, then the detached ones, each with its If-Match.
PutResource(r) ==
    /\ provider = "caldav" /\ At("write") /\ r \in Pending
    /\ r # "main" => "main" \notin Pending
    /\ IF \E p \in Holding(r) : ~Unwritten("src", p) THEN Refuse
       ELSE /\ Write("src", Holding(r), call.desired)
            /\ call' = [call EXCEPT !.todo = @ \cup Holding(r)]
    /\ Keep

PutsDone ==
    /\ provider = "caldav" /\ At("write") /\ Pending = {}
    /\ Go("verify") /\ KeepRemote /\ Keep

-----------------------------------------------------------------------------
(* The master, then each exception.                                         *)

\* check_current.
CheckCurrent ==
    /\ At("check")
    /\ Go(IF remote["src"] # call.before THEN "failed"
          ELSE IF call.kind = "delete" THEN "delete" ELSE "master")
    /\ KeepRemote /\ Keep

\* The exceptions to write: those wanted, and those to turn back into generated
\* ones. Google knows the latter from the snapshot of an update, Graph from its
\* last read; Graph gives up if one of them is cancelled.
Targets(old) ==
    {p \in Positions : \/ call.desired[p].st # "generated"
                       \/ old[p].st # "generated" /\ ~(provider = "google" /\ call.kind = "create")}
Restorable(old) ==
    provider = "graph" => \A p \in Positions : old[p].st = "excluded" => call.desired[p].st # "generated"

MasterChanged == call.desired["master"] # call.before.parts["master"]
Replay(view, patched) ==
    call' = [call EXCEPT !.view = view, !.patched = patched, !.todo = Targets(view.parts),
                         !.pc = IF Restorable(view.parts) THEN "replay" ELSE "failed"]

\* The conditional PATCH of the master. Changing the rule may discard exceptions.
PatchMaster ==
    /\ At("master")
    /\ \/ ~MasterChanged /\ Replay(call.before, FALSE) /\ KeepRemote
       \/ /\ MasterChanged /\ Unwritten("src", "master")
          /\ \E dropped \in IF call.kind = "rule" THEN {{}, Positions} ELSE {{}} :
                Write("src", {"master"} \cup dropped,
                      [p \in Parts |-> IF p = "master" THEN call.desired[p] ELSE Generated])
          /\ IF provider = "google" THEN Replay(call.before, TRUE)
             ELSE call' = [call EXCEPT !.patched = TRUE, !.pc = "refetch"]
       \/ MasterChanged /\ ~Unwritten("src", "master") /\ Refuse
    /\ Keep

\* Mutant: an exception that is no longer wanted is deleted, which cancels the slot.
TargetDeleted(p) == IF call.desired[p].st = "generated" THEN Excluded ELSE call.desired[p]

\* The exception as it is to be written: a slot that loses its exception is
\* written with what the new master generates there.
Target(p) == IF call.desired[p].st = "generated" THEN Live(call.desired["master"].body)
             ELSE call.desired[p]

\* replay: while the master is untouched an exception must be as in the snapshot
\* (its revision, or the generated content); afterwards it is taken as it is.
AsExpected(p) ==
    IF call.before.parts[p].st # "generated" THEN Unwritten("src", p)
    ELSE Effective(remote["src"].parts, p) = call.before.parts["master"]

Done(p) == call' = [call EXCEPT !.todo = @ \ {p}]

GoogleReplay(p) ==
    /\ provider = "google" /\ At("replay") /\ p \in call.todo
    /\ IF call.kind # "create" /\ ~call.patched /\ ~AsExpected(p) THEN Refuse
       ELSE IF Effective(remote[Slot].parts, p) = Target(p) THEN Done(p) /\ KeepRemote
       ELSE Write(Slot, {p}, [q \in Parts |-> Target(q)]) /\ Done(p)
    /\ Keep

\* apply_overrides: an exception known from the last read is written on the revision
\* it had there, another slot on what it is now.
GraphOverride(p) ==
    LET known == call.view.parts[p]
        base == IF known.st = "live" THEN known ELSE Effective(remote[Slot].parts, p)
        same == base = Target(p) /\ ~(call.kind = "rule" /\ Target(p).st = "live") IN
    /\ provider = "graph" /\ At("replay") /\ p \in call.todo
    /\ \/ known.st = "excluded" /\ Target(p).st = "excluded" /\ Done(p) /\ KeepRemote
       \/ known.st = "excluded" /\ Target(p).st # "excluded" /\ Refuse
       \/ known.st # "excluded" /\ base.st = "excluded" /\ Refuse
       \/ known.st # "excluded" /\ base.st # "excluded" /\ same /\ Done(p) /\ KeepRemote
       \/ /\ known.st # "excluded" /\ base.st # "excluded" /\ ~same
          /\ IF known.st = "live" /\ remote[Slot].revs[p] # call.view.revs[p] THEN Refuse
             ELSE /\ Write(Slot, {p}, [q \in Parts |-> Target(q)])
                  /\ call' = [call EXCEPT !.todo = @ \ {p}, !.pc = "reread"]
    /\ Keep

\* fetch_calendar_event_set after each accepted change. The targets are fixed by
\* the read that follows the master.
Refetch ==
    /\ At("refetch") \/ At("reread")
    /\ IF ~Exists(remote[Slot]) THEN Go("failed")
       ELSE IF At("refetch") THEN Replay(remote[Slot], call.patched)
       ELSE call' = [call EXCEPT !.view = remote[Slot], !.pc = "replay"]
    /\ KeepRemote /\ Keep

\* Google reads the set once more; Graph returns its last read.
Replayed ==
    /\ At("replay") /\ call.todo = {}
    /\ Go(IF provider = "google" THEN "verify"
          ELSE IF SemanticEq(call.view.parts, call.desired) THEN "done" ELSE "failed")
    /\ KeepRemote /\ Keep

-----------------------------------------------------------------------------
(* Creating the copy of a transfer, under the identity of the operation.     *)

Bare == [p \in Parts |-> IF p = "master" THEN call.desired[p] ELSE Generated]

\* Mutant: a copy that is already there is taken to be complete.
InsertTrusting ==
    /\ At("insert")
    /\ IF Exists(remote["copy"]) THEN Go("done") /\ KeepRemote
       ELSE IF provider \in {"jmap", "caldav"}
            THEN Write("copy", Parts, call.desired) /\ Go("verify")
       ELSE IF provider = "google" THEN Write("copy", Parts, Bare) /\ Replay(call.before, TRUE)
       ELSE Write("copy", Parts, Bare) /\ Go("refetch")
    /\ Keep

\* Mutant: a copy that is already there is a conflict.
InsertOnce ==
    /\ At("insert")
    /\ IF Exists(remote["copy"]) THEN Refuse
       ELSE IF provider \in {"jmap", "caldav"}
            THEN Write("copy", Parts, call.desired) /\ Go("verify")
       ELSE IF provider = "google" THEN Write("copy", Parts, Bare) /\ Replay(call.before, TRUE)
       ELSE Write("copy", Parts, Bare) /\ Go("refetch")
    /\ Keep

\* JMAP and CalDAV create the set in one request, Google and Graph the master; an
\* object that bears the operation's identity is the one made earlier, and has to
\* have the master that is wanted.
Insert ==
    /\ At("insert")
    /\ IF Exists(remote["copy"])
       THEN /\ KeepRemote
            /\ IF provider \in {"jmap", "caldav"} THEN Go("verify")
               ELSE IF remote["copy"].parts["master"] # call.desired["master"] THEN Go("failed")
               ELSE IF provider = "google" THEN Replay(call.before, TRUE)
               ELSE Replay(remote["copy"], TRUE)
       ELSE IF provider \in {"jmap", "caldav"}
            THEN Write("copy", Parts, call.desired) /\ Go("verify")
       ELSE IF provider = "google" THEN Write("copy", Parts, Bare) /\ Replay(call.before, TRUE)
       ELSE Write("copy", Parts, Bare) /\ Go("refetch")
    /\ Keep

-----------------------------------------------------------------------------
(* Removing the source of a transfer. An absent source is an error.          *)

Gone == [p \in Parts |-> None]

\* One request: conditional on the account's state, or on the master's revision.
DeleteSet ==
    /\ provider # "caldav" /\ At("delete")
    /\ IF Exists(remote["src"])
          /\ \A p \in IF provider = "jmap" THEN Parts ELSE {"master"} : Unwritten("src", p)
       THEN Write("src", Parts, Gone) /\ Go("done")
       ELSE Refuse
    /\ Keep

\* CalDAV deletes resource by resource, the main one first.
DeleteResource(r) ==
    LET left == {Resource(p) : p \in {q \in Parts : call.before.parts[q].st # "none"} \ call.todo} IN
    /\ provider = "caldav" /\ At("delete") /\ r \in left /\ (r # "main" => "main" \notin left)
    /\ IF \A p \in Holding(r) : Unwritten("src", p) /\ remote["src"].parts[p].st # "none"
       THEN /\ Write("src", Holding(r), Gone)
            /\ call' = [call EXCEPT !.todo = @ \cup Holding(r),
                                    !.pc = IF left = {r} THEN "done" ELSE "delete"]
       ELSE Refuse
    /\ Keep

-----------------------------------------------------------------------------
\* Another client changes the master or an occurrence, which makes it an exception.
ExternalEdit(x, s, p) ==
    LET set == remote[s] IN
    /\ x \notin made /\ set.parts["master"].st = "live"
    /\ Effective(set.parts, p).st = "live"
    /\ remote' = [remote EXCEPT ![s] =
          [parts |-> [set.parts EXCEPT ![p] = Live(Effective(set.parts, p).body \cup {x})],
           revs |-> [q \in Parts |-> IF Resource(q) = Resource(p) THEN clock + 1 ELSE set.revs[q]]]]
    /\ clock' = clock + 1 /\ made' = made \cup {x}
    /\ UNCHANGED <<provider, detached, call, failures, lost>>

-----------------------------------------------------------------------------
\* A series with any exceptions, none of them in a CalDAV resource of its own but
\* live ones.
Init ==
    /\ provider \in Providers
    /\ \E f \in [Positions -> {Generated, Excluded, Live({"old"})}] :
          /\ remote = [s \in Slots |-> IF s = "src"
                 THEN [parts |-> [p \in Parts |-> IF p = "master" THEN Live({}) ELSE f[p]],
                       revs |-> [p \in Parts |-> 0]]
                 ELSE NoSet]
          /\ detached \in IF provider = "caldav" THEN SUBSET {p \in Positions : f[p].st = "live"}
                          ELSE {{}}
    /\ clock = 0 /\ call = Idle /\ failures = 0 /\ made = {} /\ lost = {}

Backend ==
    \/ SetInState \/ PutsDone \/ CheckCurrent \/ PatchMaster \/ Refetch \/ Replayed \/ Insert
    \/ DeleteSet \/ Verify
    \/ \E r \in Positions \cup {"main"} : PutResource(r) \/ DeleteResource(r)
    \/ \E p \in Positions : GoogleReplay(p) \/ GraphOverride(p)

Next ==
    \/ \E k \in Kinds, at \in Parts : Begin(k, at)
    \/ Resume \/ Fail \/ Backend
    \/ \E x \in Edits, s \in Slots, p \in Parts : ExternalEdit(x, s, p)

Spec == Init /\ [][Next]_vars

\* The coordinator's command runs to its end and is resumed when it fails.
FairSpec == Spec /\ WF_vars(Backend) /\ WF_vars(Resume)

-----------------------------------------------------------------------------
\* The calls that leave an exception to a later read instead of the snapshot.
Exposed ==
    \/ provider = "graph"
    \/ provider = "google" /\ (call.patched \/ call.kind = "delete")

\* "using the original native revisions": a change another client makes after the
\* set was read is never overwritten or deleted. It holds of JMAP and CalDAV, and of
\* Google as long as the call leaves the master alone and the set in place.
UnseenSurvives == lost # {} => Exposed

\* An update that was cut short, and that nobody else disturbed, has left every part
\* as it was or as it is wanted: nothing in between, no exception cancelled that was
\* to be generated again, nothing outside the plan. A changed rule is excepted: the
\* provider may have discarded the exceptions the call had still to restore.
OnlyPlannedContent ==
    made = {} /\ call.kind \in {"series", "reset", "occurrence", "exclude"} =>
        \A p \in Parts : LET now == Effective(remote["src"].parts, p) IN
            now = Effective(call.before.parts, p) \/ now = Effective(call.desired, p)

\* A transfer's copy is reported complete only when it is: with every exception,
\* whichever attempt made which part of it. (Until another client changes it.)
CopyIsWhole ==
    made = {} /\ call.kind = "create" /\ call.pc = "done"
        => SemanticEq(remote["copy"].parts, call.desired)

\* A creation cut short anywhere is completed by resuming it, unless another client
\* changes something in the meantime.
CreationCompletes == (call.kind = "create") ~> (made # {} \/ call.pc = "done")

=============================================================================
