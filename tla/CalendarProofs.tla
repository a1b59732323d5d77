--------------------------- MODULE CalendarProofs ---------------------------
(***************************************************************************)
(* Proofs about the durable calendar actions of CalendarActions, for any   *)
(* number of operations, rows and changes of other clients: a command      *)
(* changes the provider only under its claim, nothing accepted by the      *)
(* provider is lost, an operation writes its content once, and a move      *)
(* leaves the event in one place.                                          *)
(***************************************************************************)
EXTENDS CalendarActions, FiniteSetTheorems, TLAPS

Selections == [anchor : Rows, members : SUBSET Rows, set : Resources]

Stages == {"evicted", "recheck", "refresh", "admit", "probe", "verify", "claim",
           "mark", "move", "create", "verified", "update", "reconcile", "updated",
           "remove", "source", "removed", "commit"}

Commands == [op : Ops, pc : Stages, mem : Operations, planned : BOOLEAN]

TypeOK ==
    /\ remote \in [Slots -> Resources \cup {None}]
    /\ clock \in Nat /\ hidden \in {"never", "now", "over"}
    /\ rows \in SUBSET Rows /\ mirror \in Resources \cup {None}
    /\ token \in Selections \cup {None} /\ fresh \in SUBSET (Ops \cup {"token"})
    /\ ops \in [Ops -> Operations \cup {None}] /\ claim \in [Rows -> Ops \cup {None}]
    /\ cmd # None => cmd \in Commands
    /\ failures \in Nat /\ writes \in [Ops -> Nat]
    /\ made \in SUBSET (Ops \cup Edits) /\ gone \in BOOLEAN

\* The provider: revisions come from the clock, all content was accepted, and an
\* event that was moved natively is no longer at the source.
RemoteInv ==
    /\ \A s \in Slots : remote[s] # None =>
          /\ remote[s].body \subseteq made
          /\ remote[s].rev <= clock
    /\ remote["moved"] # None => remote["src"] = None

\* A revision identifies content: a set read earlier that has the source's revision
\* is what the source holds.
Genuine(k) ==
    /\ k.body \subseteq made /\ k.rev <= clock
    /\ remote["src"] # None /\ remote["src"].rev = k.rev => k.body = remote["src"].body

DisplayInv ==
    /\ mirror # None => Genuine(mirror)
    /\ token # None => Genuine(token.set)

\* What the journal, or a command, knows of an operation is true: it was planned
\* on genuine content that lacks its own change, its confirmed result is the
\* intended one, and what it recorded as removed is gone from the source.
Sound(o, m) ==
    /\ Genuine(m.src)
    /\ o \notin m.src.body
    /\ m.canonical # None =>
          /\ m.canonical.body = Desired(o, m)
          /\ ~HasDestination(m) => Genuine(m.canonical)
    /\ m.after # None => IF m.kind = "occ" THEN Genuine(m.after) ELSE remote["src"] = None
    /\ m.native => m.kind = "move"
    /\ m.native /\ m.canonical # None => remote["src"] = None
    /\ m.stage = "Planned" =>
          /\ m.canonical = None /\ m.after = None /\ ~m.native
          /\ o \notin made /\ writes[o] = 0

JournalInv ==
    \A o \in Ops :
       /\ ops[o] # None => Sound(o, ops[o])
       /\ ops[o] = None => o \notin made /\ writes[o] = 0

\* The command agrees with the journal on all but results not yet checkpointed.
Agrees(m, n) ==
    /\ m # None
    /\ m.stage = n.stage /\ m.kind = n.kind /\ m.native = n.native
    /\ m.members = n.members /\ m.anchor = n.anchor /\ m.src = n.src

CommandInv ==
    cmd # None =>
       /\ Agrees(ops[cmd.op], cmd.mem)
       /\ Sound(cmd.op, cmd.mem)
       /\ cmd.mem.stage # "Completed"

\* What holds where the command has come to.
Moves(m) == m.kind \in {"move", "editmove"}

StageInv ==
    cmd # None =>
       LET o == cmd.op
           m == cmd.mem IN
       /\ cmd.pc \notin {"admit", "verify", "claim"} => m.stage # "Planned"
       /\ cmd.pc \in {"evicted", "recheck", "refresh", "admit", "verify", "claim"}
             => (cmd.planned <=> m.stage = "Planned")
       /\ cmd.pc = "recheck" => m.canonical # None
       /\ cmd.pc \in {"probe", "move"} => m.native
       /\ cmd.pc \in {"probe", "verify", "claim", "mark", "move", "create"} => m.canonical = None
       /\ cmd.pc \in {"verify", "claim", "mark", "create", "remove", "source", "removed"} => ~m.native
       /\ cmd.pc \in {"mark", "move"} => m.kind = "move" /\ writes[o] = 0
       /\ cmd.pc \in {"create", "verified", "remove", "source", "removed"} => HasDestination(m)
       /\ cmd.pc \in {"update", "reconcile", "updated"} => ~HasDestination(m)
       /\ cmd.pc \in {"verified", "remove", "source", "removed"} => m.canonical # None
       /\ cmd.pc = "removed" => m.after # None
       /\ cmd.pc = "source" =>
             gone \/ (remote[o] # None /\ Desired(o, m) \subseteq remote[o].body)
       /\ cmd.pc = "commit" /\ Moves(m) => remote["src"] = None

\* An operation under way owns its rows.
ClaimInv ==
    \A o \in Ops : ops[o] # None /\ ops[o].stage \notin {"Planned", "Completed"}
                      => \A r \in ops[o].members : claim[r] = o

\* An operation that wrote left a trace that a retry finds.
WriteInv ==
    gone \/ \A o \in Ops :
       /\ writes[o] <= 1
       /\ writes[o] # 0 =>
             IF HasDestination(ops[o])
             THEN remote[o] # None \/ (ops[o].native /\ remote["src"] = None)
             ELSE remote["src"] = None \/ o \in remote["src"].body

\* Every accepted change is in a set that exists.
LossInv ==
    gone \/ /\ \E s \in Slots : remote[s] # None
            /\ \A x \in made : \E s \in Slots : remote[s] # None /\ x \in remote[s].body

\* A completed move has removed its source, and no other is about to write.
CompletedInv ==
    /\ \A o \in Movers : ops[o].stage = "Completed" => remote["src"] = None
    /\ cmd # None /\ cmd.pc \in {"claim", "mark", "move", "create"} /\ Moves(cmd.mem)
          => \A o \in Movers : ops[o].stage # "Completed"

\* As long as the source could be read at all times, there is one row.
SameRow(r) ==
    /\ rows \subseteq {r} /\ (rows = {} => remote["src"] = None)
    /\ token # None => token.members = {r} /\ token.anchor = r
    /\ \A o \in Ops : ops[o] # None => ops[o].members = {r} /\ ops[o].anchor = r

RowInv == hidden = "never" => \E r \in Rows : SameRow(r)

SingleInv ==
    hidden = "never" =>
       \A o, p \in Movers : writes[o] > 0 /\ writes[p] > 0 => o = p

CalendarInv ==
    /\ TypeOK /\ RemoteInv /\ DisplayInv /\ JournalInv /\ CommandInv /\ StageInv
    /\ ClaimInv /\ WriteInv /\ LossInv /\ CompletedInv /\ RowInv /\ SingleInv

-----------------------------------------------------------------------------
(* The parts of the invariant that a step leaves alone.                     *)

\* A step that changes nothing at the provider keeps what is said of it, and each
\* other part whose variables it does not change.
LEMMA QuietFrame ==
    ASSUME CalendarInv, KeepRemote
    PROVE  /\ RemoteInv' /\ LossInv'
           /\ UNCHANGED <<mirror, token>> => DisplayInv'
           /\ UNCHANGED ops => JournalInv' /\ WriteInv' /\ SingleInv'
           /\ UNCHANGED <<ops, claim>> => ClaimInv'
           /\ UNCHANGED <<rows, token, ops>> => RowInv'
           /\ cmd' = None => CommandInv' /\ StageInv'
           /\ UNCHANGED ops /\ cmd' = None => CompletedInv'
  <1> USE DEF CalendarInv, KeepRemote
  <1>1. RemoteInv' /\ LossInv' BY DEF RemoteInv, LossInv
  <1>2. UNCHANGED <<mirror, token>> => DisplayInv' BY DEF DisplayInv, Genuine
  <1>3. UNCHANGED ops => JournalInv' BY DEF JournalInv, Sound, Genuine
  <1>4. UNCHANGED ops => WriteInv' /\ SingleInv' BY DEF WriteInv, SingleInv, Movers
  <1>5. UNCHANGED <<ops, claim>> => ClaimInv' BY DEF ClaimInv
  <1>6. UNCHANGED <<rows, token, ops>> => RowInv' BY DEF RowInv, SameRow
  <1>7. cmd' = None => CommandInv' /\ StageInv' BY DEF CommandInv, StageInv
  <1>8. UNCHANGED ops /\ cmd' = None => CompletedInv' BY DEF CompletedInv, Movers
  <1>. QED BY <1>1, <1>2, <1>3, <1>4, <1>5, <1>6, <1>7, <1>8

\* What a running command is known to be.
LEMMA CommandFacts ==
    ASSUME CalendarInv, cmd # None
    PROVE  /\ cmd \in Commands /\ cmd.op \in Ops /\ cmd.mem \in Operations
           /\ cmd.planned \in BOOLEAN /\ cmd.pc \in Stages
           /\ ops[cmd.op] \in Operations /\ ops[cmd.op] # None
           /\ Agrees(ops[cmd.op], cmd.mem) /\ Sound(cmd.op, cmd.mem)
           /\ cmd.mem.stage # "Completed"
  <1>1. cmd \in Commands BY DEF CalendarInv, TypeOK
  <1>2. cmd.op \in Ops /\ cmd.mem \in Operations /\ cmd.planned \in BOOLEAN /\ cmd.pc \in Stages
    BY <1>1 DEF Commands
  <1>3. Agrees(ops[cmd.op], cmd.mem) /\ Sound(cmd.op, cmd.mem) /\ cmd.mem.stage # "Completed"
    BY DEF CalendarInv, CommandInv
  <1>4. ops[cmd.op] # None BY <1>3 DEF Agrees
  <1>5. ops[cmd.op] \in Operations BY <1>2, <1>4 DEF CalendarInv, TypeOK
  <1>. QED BY <1>1, <1>2, <1>3, <1>4, <1>5

\* Step moves the command on and keeps which operation it executes.
LEMMA StepFacts ==
    ASSUME cmd \in Commands, NEW n \in Operations, NEW there \in Stages, Step(n, there)
    PROVE  /\ cmd' \in Commands
           /\ cmd'.op = cmd.op /\ cmd'.mem = n /\ cmd'.pc = there
           /\ cmd'.planned = cmd.planned
  BY DEF Step, Commands

-----------------------------------------------------------------------------
(* One lemma per step: reading, planning and the sync.                      *)

\* The displayed set, and the selection, become what the provider holds.
LEMMA ReadEventSetStep ==
    ASSUME CalendarInv, NEW r \in Rows, ReadEventSet(r) PROVE CalendarInv'
  <1>1. TypeOK'
    BY DEF CalendarInv, TypeOK, ReadEventSet, KeepRemote, Readable, Selections, Slots
  <1>2. DisplayInv'
    BY DEF CalendarInv, TypeOK, RemoteInv, DisplayInv, Genuine, ReadEventSet, KeepRemote, Readable, Selections, Slots
  <1>3. RowInv'
    BY DEF CalendarInv, RowInv, SameRow, ReadEventSet, KeepRemote
  <1>. QED BY <1>1, <1>2, <1>3, QuietFrame DEF CalendarInv, ReadEventSet

\* The selection becomes what is displayed.
LEMMA ListOccurrencesStep ==
    ASSUME CalendarInv, NEW r \in Rows, ListOccurrences(r) PROVE CalendarInv'
  <1>1. TypeOK'
    BY DEF CalendarInv, TypeOK, ListOccurrences, KeepRemote, Selections
  <1>2. DisplayInv'
    BY DEF CalendarInv, TypeOK, DisplayInv, Genuine, ListOccurrences, KeepRemote
  <1>3. RowInv'
    BY DEF CalendarInv, RowInv, SameRow, ListOccurrences, KeepRemote
  <1>. QED BY <1>1, <1>2, <1>3, QuietFrame DEF CalendarInv, ListOccurrences

\* A planned operation is sound: its content is what the provider accepted from
\* others, and it has done nothing yet.
LEMMA PlannedIsSound ==
    ASSUME CalendarInv, NEW o \in Ops, ops[o] = None, NEW k \in Kinds, NEW r \in Rows,
           NEW members \in SUBSET Rows, NEW set \in Resources, Genuine(set)
    PROVE  /\ NewOperation(k, r, members, set) \in Operations
           /\ NewOperation(k, r, members, set) # None
           /\ Sound(o, NewOperation(k, r, members, set))
  <1>1. NewOperation(k, r, members, set) \in Operations
    BY DEF NewOperation, Operations
  <1>2. NewOperation(k, r, members, set) # None BY <1>1, NoneAssumption
  <1>3. Sound(o, NewOperation(k, r, members, set))
    BY DEF CalendarInv, JournalInv, Sound, NewOperation, Genuine
  <1>. QED BY <1>1, <1>2, <1>3

\* The journal takes an operation planned on the selection.
LEMMA PlanStep ==
    ASSUME CalendarInv, NEW o \in Ops, NEW k \in Kinds, Plan(o, k) PROVE CalendarInv'
  <1> DEFINE n0 == NewOperation(k, token.anchor, token.members, token.set)
  <1>1. PICK n : n = n0 OBVIOUS
  <1>2. token \in Selections /\ Genuine(token.set)
    BY DEF CalendarInv, TypeOK, DisplayInv, Plan
  <1>3. n \in Operations /\ n # None /\ Sound(o, n)
    BY <1>1, <1>2, PlannedIsSound DEF Selections, Plan
  <1>4. /\ n.stage = "Planned" /\ n.members = token.members /\ n.anchor = token.anchor
        /\ ops' = [ops EXCEPT ![o] = n]
    BY <1>1 DEF NewOperation, Plan
  <1> HIDE DEF n0
  <1>5. TypeOK'
    BY <1>3, <1>4 DEF CalendarInv, TypeOK, Plan, KeepRemote
  <1>6. JournalInv'
    BY <1>3, <1>4 DEF CalendarInv, TypeOK, JournalInv, Sound, Genuine, Plan, KeepRemote
  <1>7. ClaimInv'
    BY <1>3, <1>4 DEF CalendarInv, TypeOK, ClaimInv, Plan
  <1>8. WriteInv' /\ SingleInv'
    BY <1>3, <1>4 DEF CalendarInv, TypeOK, JournalInv, WriteInv, SingleInv, Movers, Plan, KeepRemote
  <1>9. CompletedInv'
    BY <1>3, <1>4 DEF CalendarInv, TypeOK, CompletedInv, Movers, Plan, KeepRemote
  <1>10. RowInv'
    BY <1>3, <1>4 DEF CalendarInv, TypeOK, RowInv, SameRow, Plan, KeepRemote
  <1>. QED BY <1>5, <1>6, <1>7, <1>8, <1>9, <1>10, QuietFrame DEF CalendarInv, Plan

\* The same, on what the provider holds, and claimed at once.
LEMMA PlanOccurrenceStep ==
    ASSUME CalendarInv, NEW o \in Ops, NEW r \in Rows, PlanOccurrence(o, r) PROVE CalendarInv'
  <1> DEFINE n0 == NewOperation("auto", r, rows, remote["src"])
  <1>1. PICK n : n = n0 OBVIOUS
  <1>2. /\ remote["src"] \in Resources /\ Genuine(remote["src"])
        /\ rows \in SUBSET Rows /\ "auto" \in Kinds
    BY DEF CalendarInv, TypeOK, RemoteInv, Genuine, PlanOccurrence, Readable, Slots
  <1>3. n \in Operations /\ n # None /\ Sound(o, n)
    BY <1>1, <1>2, PlannedIsSound DEF PlanOccurrence
  <1>4. /\ n.stage = "Planned" /\ n.kind = "auto" /\ n.members = rows /\ n.anchor = r
        /\ ops' = [ops EXCEPT ![o] = n] /\ Claimable(o, n) /\ claim' = Claimed(o, n)
    BY <1>1 DEF NewOperation, PlanOccurrence
  <1> HIDE DEF n0
  <1>5. TypeOK'
    BY <1>2, <1>3, <1>4 DEF CalendarInv, TypeOK, Claimed, PlanOccurrence, KeepRemote
  <1>6. DisplayInv'
    BY <1>2 DEF CalendarInv, DisplayInv, Genuine, PlanOccurrence, KeepRemote
  <1>7. JournalInv'
    BY <1>3, <1>4 DEF CalendarInv, TypeOK, JournalInv, Sound, Genuine, PlanOccurrence, KeepRemote
  <1>8. ClaimInv'
    <2> SUFFICES ASSUME NEW p \in Ops, ops'[p] # None,
                        ops'[p].stage \notin {"Planned", "Completed"},
                        NEW q \in ops'[p].members
                 PROVE  claim'[q] = p
      BY DEF ClaimInv
    <2>1. p # o /\ ops'[p] = ops[p] BY <1>4 DEF CalendarInv, TypeOK
    <2>2. claim[q] = p /\ q \in Rows
      BY <2>1 DEF CalendarInv, TypeOK, ClaimInv, Operations
    <2>3. q \notin n.members
      BY <1>4, <2>1, <2>2, ActionAssumption DEF Claimable
    <2>. QED BY <1>4, <2>2, <2>3 DEF Claimed
  <1>9. WriteInv' /\ SingleInv'
    BY <1>3, <1>4 DEF CalendarInv, TypeOK, JournalInv, WriteInv, SingleInv, Movers, PlanOccurrence, KeepRemote
  <1>10. CompletedInv'
    BY <1>3, <1>4 DEF CalendarInv, TypeOK, CompletedInv, Movers, PlanOccurrence, KeepRemote
  <1>11. RowInv'
    BY <1>3, <1>4 DEF CalendarInv, TypeOK, RowInv, SameRow, PlanOccurrence, KeepRemote
  <1>. QED BY <1>5, <1>6, <1>7, <1>8, <1>9, <1>10, <1>11, QuietFrame DEF CalendarInv, PlanOccurrence

\* Only an operation that has done nothing can be discarded.
LEMMA DiscardStep == ASSUME CalendarInv, NEW o \in Ops, Discard(o) PROVE CalendarInv'
  <1>1. TypeOK'
    BY DEF CalendarInv, TypeOK, Discard, KeepRemote
  <1>2. JournalInv'
    BY DEF CalendarInv, TypeOK, JournalInv, Sound, Genuine, Discard, KeepRemote
  <1>3. ClaimInv'
    BY DEF CalendarInv, TypeOK, ClaimInv, Discard
  <1>4. WriteInv' /\ SingleInv'
    BY DEF CalendarInv, TypeOK, JournalInv, Sound, WriteInv, SingleInv, Movers, Discard, KeepRemote
  <1>5. CompletedInv'
    BY DEF CalendarInv, TypeOK, CompletedInv, Movers, Discard, KeepRemote
  <1>6. RowInv'
    BY DEF CalendarInv, TypeOK, RowInv, SameRow, Discard, KeepRemote
  <1>. QED BY <1>1, <1>2, <1>3, <1>4, <1>5, <1>6, QuietFrame DEF CalendarInv, Discard

\* The sync replaces the row and what is displayed; while the source is readable
\* the row keeps its id.
LEMMA SyncStep == ASSUME CalendarInv, Sync PROVE CalendarInv'
  <1>1. TypeOK'
    BY DEF CalendarInv, TypeOK, Sync, SyncPresent, SyncAbsent, KeepRemote, Readable, Slots
  <1>2. DisplayInv'
    BY DEF CalendarInv, TypeOK, RemoteInv, DisplayInv, Genuine, Sync, SyncPresent, SyncAbsent,
           KeepRemote, Readable, Slots
  <1>3. RowInv'
    <2> SUFFICES ASSUME hidden = "never" PROVE \E r \in Rows : SameRow(r)'
      BY DEF RowInv, Sync, KeepRemote
    <2>1. PICK r \in Rows : SameRow(r) BY DEF CalendarInv, RowInv
    <2>2. SameRow(r)'
      BY <2>1 DEF SameRow, Sync, SyncPresent, SyncAbsent, KeepRemote, Readable
    <2>. QED BY <2>2
  <1>. QED BY <1>1, <1>2, <1>3, QuietFrame DEF CalendarInv, Sync

\* A command begins with what the journal holds.
LEMMA ExecuteStep == ASSUME CalendarInv, NEW o \in Ops, Execute(o) PROVE CalendarInv'
  <1>1. PICK m \in Operations : m = ops[o] BY DEF CalendarInv, TypeOK, Execute
  <1>2. /\ cmd' \in Commands /\ cmd'.op = o /\ cmd'.mem = m /\ cmd'.pc = Prelude(m)
        /\ cmd'.pc \in Stages /\ cmd'.planned = (m.stage = "Planned")
    BY <1>1 DEF Execute, Commands, Prelude, Stages
  <1>3. ops[o] # None /\ m.stage # "Completed" /\ Sound(o, m)
    BY <1>1 DEF CalendarInv, JournalInv, Execute
  <1>4. TypeOK'
    BY <1>2 DEF CalendarInv, TypeOK, Execute, local, KeepRemote
  <1>5. CommandInv'
    BY <1>1, <1>2, <1>3 DEF CommandInv, Agrees, Sound, Genuine, Execute, KeepRemote
  <1>6. StageInv'
    BY <1>2, <1>3 DEF StageInv, Prelude, Underway
  <1>7. CompletedInv'
    BY <1>2 DEF CalendarInv, CompletedInv, Movers, Prelude, Execute, KeepRemote
  <1>. QED BY <1>4, <1>5, <1>6, <1>7, QuietFrame DEF CalendarInv, Execute, local

-----------------------------------------------------------------------------
(* Facts the steps of a command share.                                      *)

\* A checkpoint of sound knowledge, with nothing changed at the provider.
LEMMA SaveFrame ==
    ASSUME CalendarInv, KeepRemote, NEW o \in Ops, NEW n \in Operations, ops[o] # None,
           Save(o, n), Sound(o, n), n.kind = ops[o].kind
    PROVE  /\ ops' \in [Ops -> Operations \cup {None}]
           /\ ops'[o] = n /\ n # None
           /\ JournalInv' /\ SingleInv'
           /\ n.native = ops[o].native => WriteInv'
           /\ (/\ n.anchor = ops[o].anchor /\ UNCHANGED <<rows, token>>
               /\ n.members = ops[o].members \/ (n.members = rows /\ n.anchor \in rows))
                 => RowInv'
           /\ (/\ n.members = ops[o].members /\ UNCHANGED claim
               /\ ops[o].stage \notin {"Planned", "Completed"})
                 => ClaimInv'
           /\ n.stage # "Completed"
                 => \A p \in Movers' : ops'[p].stage = "Completed" =>
                       p \in Movers /\ ops[p].stage = "Completed" /\ remote'["src"] = None
  <1>1. n # None BY NoneAssumption
  <1>2. /\ ops' \in [Ops -> Operations \cup {None}] /\ ops'[o] = n
        /\ \A p \in Ops : p # o => ops'[p] = ops[p]
    BY DEF CalendarInv, TypeOK, Save
  <1>3. JournalInv'
    BY <1>1, <1>2 DEF CalendarInv, JournalInv, Sound, Genuine, KeepRemote
  <1>4. Movers' = Movers BY <1>1, <1>2 DEF Movers
  <1>5. SingleInv' BY <1>4 DEF CalendarInv, SingleInv, KeepRemote
  <1>6. n.native = ops[o].native => WriteInv'
    BY <1>2 DEF CalendarInv, WriteInv, HasDestination, KeepRemote
  <1>7. (/\ n.anchor = ops[o].anchor /\ UNCHANGED <<rows, token>>
         /\ n.members = ops[o].members \/ (n.members = rows /\ n.anchor \in rows))
           => RowInv'
    BY <1>1, <1>2 DEF CalendarInv, RowInv, SameRow, KeepRemote
  <1>8. (/\ n.members = ops[o].members /\ UNCHANGED claim
         /\ ops[o].stage \notin {"Planned", "Completed"})
           => ClaimInv'
    BY <1>2 DEF CalendarInv, ClaimInv
  <1>9. n.stage # "Completed"
           => \A p \in Movers' : ops'[p].stage = "Completed" =>
                 p \in Movers /\ ops[p].stage = "Completed" /\ remote'["src"] = None
    BY <1>2, <1>4 DEF CalendarInv, CompletedInv, Movers, KeepRemote
  <1>. QED BY <1>1, <1>2, <1>3, <1>5, <1>6, <1>7, <1>8, <1>9

\* Rebasing an operation on the displayed set keeps it sound and changes neither
\* its intent nor, while there is one row, the rows it acts on.
LEMMA RebasedFacts ==
    ASSUME CalendarInv, NEW o \in Ops, NEW m \in Operations, Sound(o, m),
           NEW n, n = Rebased(o, m)
    PROVE  /\ n \in Operations /\ Sound(o, n)
           /\ n.stage = m.stage /\ n.kind = m.kind /\ n.native = m.native
           /\ n.anchor = m.anchor /\ n.after = m.after
           /\ n.members = m.members \/ (n.members = rows /\ m.anchor \in rows)
           /\ Currency(o, m) \in {"current", "stale"} => n = m
           /\ n = m \/ (m.stage # "Planned" /\ ~HasDestination(m))
  <1>1. CASE Currency(o, m) = "rebased"
    <2>1. /\ n = [m EXCEPT !.members = rows, !.src = mirror]
          /\ m.stage # "Planned" /\ ~HasDestination(m) /\ mirror # None /\ m.anchor \in rows
          /\ mirror.body = m.src.body
      BY <1>1 DEF Rebased, Currency, Recoverable
    <2>2. mirror \in Resources /\ rows \in SUBSET Rows /\ Genuine(mirror)
      BY <2>1 DEF CalendarInv, TypeOK, DisplayInv
    <2>3. n \in Operations /\ n.src = mirror /\ n.members = rows
      BY <2>1, <2>2 DEF Operations
    <2>4. /\ n.stage = m.stage /\ n.kind = m.kind /\ n.native = m.native /\ n.anchor = m.anchor
          /\ n.after = m.after /\ n.canonical = m.canonical
      BY <2>1 DEF Operations
    <2>5. Sound(o, n)
      BY <2>1, <2>2, <2>3, <2>4 DEF Sound, Desired, HasDestination
    <2>. QED BY <1>1, <2>1, <2>3, <2>4, <2>5
  <1>2. CASE Currency(o, m) = "recovered"
    <2>1. /\ n = [m EXCEPT !.members = rows, !.canonical = mirror]
          /\ m.stage # "Planned" /\ ~HasDestination(m) /\ mirror # None /\ m.anchor \in rows
          /\ mirror.body = Desired(o, m)
      BY <1>2 DEF Rebased, Currency, Recoverable
    <2>2. mirror \in Resources /\ rows \in SUBSET Rows /\ Genuine(mirror)
      BY <2>1 DEF CalendarInv, TypeOK, DisplayInv
    <2>3. n \in Operations /\ n.canonical = mirror /\ n.members = rows
      BY <2>1, <2>2 DEF Operations
    <2>4. /\ n.stage = m.stage /\ n.kind = m.kind /\ n.native = m.native /\ n.anchor = m.anchor
          /\ n.after = m.after /\ n.src = m.src
      BY <2>1 DEF Operations
    <2>5. Sound(o, n)
      BY <2>1, <2>2, <2>3, <2>4 DEF Sound, Desired, HasDestination
    <2>. QED BY <1>2, <2>1, <2>3, <2>4, <2>5
  <1>3. CASE Currency(o, m) \notin {"rebased", "recovered"}
    BY <1>3 DEF Rebased
  <1>. QED BY <1>1, <1>2, <1>3

\* A claim that no other operation stands in the way of takes nothing from another.
LEMMA ClaimedFrame ==
    ASSUME CalendarInv, NEW o \in Ops, NEW n \in Operations, Claimable(o, n), claim' = Claimed(o, n),
           ops'[o].members = n.members, \A p \in Ops : p # o => ops'[p] = ops[p]
    PROVE  claim' \in [Rows -> Ops \cup {None}] /\ ClaimInv'
  <1>1. claim' \in [Rows -> Ops \cup {None}] BY DEF CalendarInv, TypeOK, Claimed
  <1>2. ASSUME NEW p \in Ops, ops'[p] # None, ops'[p].stage \notin {"Planned", "Completed"},
               NEW q \in ops'[p].members
        PROVE  claim'[q] = p
    <2>1. CASE p = o BY <2>1 DEF Claimed, Operations
    <2>2. CASE p # o
      <3>1. ops'[p] = ops[p] BY <2>2
      <3>2. claim[q] = p /\ q \in Rows
        BY <1>2, <3>1 DEF CalendarInv, TypeOK, ClaimInv, Operations
      <3>3. q \notin n.members
        BY <2>2, <3>2, ActionAssumption DEF Claimable
      <3>. QED BY <3>2, <3>3 DEF Claimed
    <2>. QED BY <2>1, <2>2
  <1>. QED BY <1>1, <1>2 DEF ClaimInv

\* A checkpoint of an operation that is under way and owns its rows.
LEMMA CheckpointFrame ==
    ASSUME CalendarInv, cmd # None, NEW o, NEW m, o = cmd.op, m = cmd.mem, m.stage # "Planned",
           KeepRemote, UNCHANGED <<rows, mirror, token, claim>>,
           NEW n \in Operations, Save(o, n), Sound(o, n), n.stage # "Completed",
           n.kind = m.kind, n.native = m.native, n.members = m.members, n.anchor = m.anchor
    PROVE  /\ ops' \in [Ops -> Operations \cup {None}] /\ ops'[o] = n /\ n # None
           /\ RemoteInv' /\ DisplayInv' /\ JournalInv' /\ ClaimInv' /\ WriteInv' /\ LossInv'
           /\ RowInv' /\ SingleInv'
           /\ \A p \in Movers' : ops'[p].stage = "Completed" =>
                 p \in Movers /\ ops[p].stage = "Completed" /\ remote'["src"] = None
  <1>1. /\ o \in Ops /\ ops[o] # None /\ n.kind = ops[o].kind /\ n.native = ops[o].native
        /\ n.members = ops[o].members /\ n.anchor = ops[o].anchor
        /\ ops[o].stage \notin {"Planned", "Completed"}
    BY CommandFacts DEF Agrees
  <1>2. RemoteInv' /\ DisplayInv' /\ LossInv' BY QuietFrame
  <1>. QED BY <1>1, <1>2, SaveFrame

\* The command returns with everything as it was.
LEMMA QuietReturn ==
    ASSUME CalendarInv, KeepRemote, Return, UNCHANGED <<local, ops, claim, failures>>
    PROVE  CalendarInv'
  <1>1. TypeOK' BY DEF CalendarInv, TypeOK, Return, local, KeepRemote
  <1>. QED BY <1>1, QuietFrame DEF CalendarInv, Return, local

-----------------------------------------------------------------------------
(* One lemma per step of a command that only reads the provider.            *)

\* A row the sync removed is restored.
LEMMA RefreshEvictedStep ==
    ASSUME CalendarInv, cmd # None, NEW o, NEW m, o = cmd.op, m = cmd.mem, RefreshEvicted(o, m)
    PROVE  CalendarInv'
  <1>1. o \in Ops /\ m \in Operations /\ cmd \in Commands /\ Sound(o, m) /\ Agrees(ops[o], m)
        /\ m.stage # "Planned" /\ m.stage # "Completed" /\ ~cmd.planned
    BY CommandFacts DEF CalendarInv, StageInv, RefreshEvicted, At
  <1>2. CASE UNCHANGED local /\ Return
    <2>1. TypeOK' BY <1>2 DEF CalendarInv, TypeOK, RefreshEvicted, Return, local, KeepRemote
    <2>. QED BY <1>2, <2>1, QuietFrame DEF CalendarInv, RefreshEvicted, Return, local
  <1>3. CASE /\ Readable /\ rows' = rows \cup {m.anchor} /\ mirror' = remote["src"] /\ fresh' = {}
             /\ Step(m, IF m.canonical # None THEN "recheck" ELSE "refresh") /\ UNCHANGED token
    <2>1. /\ cmd' \in Commands /\ cmd'.op = o /\ cmd'.mem = m /\ cmd'.planned = cmd.planned
          /\ cmd'.pc = (IF m.canonical # None THEN "recheck" ELSE "refresh") /\ m.anchor \in Rows
      BY <1>1, <1>3, StepFacts DEF Stages, Operations
    <2>2. TypeOK'
      BY <1>3, <2>1 DEF CalendarInv, TypeOK, RefreshEvicted, Readable, Slots, KeepRemote
    <2>3. DisplayInv'
      BY <1>3 DEF CalendarInv, TypeOK, RemoteInv, DisplayInv, Genuine, RefreshEvicted, Readable,
                  Slots, KeepRemote
    <2>4. CommandInv'
      BY <1>1, <2>1 DEF CommandInv, Agrees, Sound, Genuine, RefreshEvicted, KeepRemote
    <2>5. StageInv' BY <1>1, <2>1 DEF StageInv
    <2>6. CompletedInv' BY <2>1 DEF CalendarInv, CompletedInv, Movers, RefreshEvicted, KeepRemote
    <2>7. RowInv'
      BY <1>1, <1>3 DEF CalendarInv, RowInv, SameRow, Agrees, RefreshEvicted, KeepRemote
    <2>. QED BY <2>2, <2>3, <2>4, <2>5, <2>6, <2>7, QuietFrame DEF CalendarInv, RefreshEvicted
  <1>. QED BY <1>2, <1>3 DEF RefreshEvicted

\* The result confirmed earlier is read again.
LEMMA RecheckCanonicalStep ==
    ASSUME CalendarInv, cmd # None, NEW o, NEW m, o = cmd.op, m = cmd.mem, RecheckCanonical(o, m)
    PROVE  CalendarInv'
  <1>1. o \in Ops /\ m \in Operations /\ cmd \in Commands /\ Sound(o, m) /\ Agrees(ops[o], m)
        /\ m.stage # "Planned" /\ m.stage # "Completed" /\ ~cmd.planned /\ m.canonical # None
    BY CommandFacts DEF CalendarInv, StageInv, RecheckCanonical, At
  <1>2. CASE Return
    <2>1. TypeOK' BY <1>2 DEF CalendarInv, TypeOK, RecheckCanonical, Return, local, KeepRemote
    <2>. QED BY <1>2, <2>1, QuietFrame DEF CalendarInv, RecheckCanonical, Return, local
  <1>3. CASE /\ remote[Home(o, m)] # None /\ remote[Home(o, m)].body = m.canonical.body
             /\ Step([m EXCEPT !.canonical = remote[Home(o, m)]], "admit")
    <2>1. PICK c \in Resources : c = remote[Home(o, m)]
      BY <1>1, <1>3 DEF CalendarInv, TypeOK, Home, Slots
    <2>2. PICK n : n = [m EXCEPT !.canonical = c] OBVIOUS
    <2>3. /\ n \in Operations /\ n.canonical = c /\ n.stage = m.stage /\ n.kind = m.kind
          /\ n.native = m.native /\ n.members = m.members /\ n.anchor = m.anchor
          /\ n.src = m.src /\ n.after = m.after
      BY <1>1, <2>1, <2>2 DEF Operations
    <2>4. /\ cmd' \in Commands /\ cmd'.op = o /\ cmd'.mem = n /\ cmd'.pc = "admit"
          /\ cmd'.planned = cmd.planned
      BY <1>1, <1>3, <2>1, <2>2, <2>3, StepFacts DEF Stages
    <2>5. TypeOK'
      BY <2>4 DEF CalendarInv, TypeOK, RecheckCanonical, local, KeepRemote
    <2>6. Sound(o, n)
      BY <1>1, <1>3, <2>1, <2>3 DEF CalendarInv, RemoteInv, Sound, Desired, HasDestination, Genuine,
                                    Home, Slots
    <2>7. CommandInv'
      BY <1>1, <2>3, <2>4, <2>6 DEF CommandInv, Agrees, Sound, Genuine, RecheckCanonical, KeepRemote
    <2>8. StageInv' BY <1>1, <2>3, <2>4 DEF StageInv
    <2>9. CompletedInv' BY <2>4 DEF CalendarInv, CompletedInv, Movers, RecheckCanonical, KeepRemote
    <2>. QED BY <2>5, <2>7, <2>8, <2>9, QuietFrame DEF CalendarInv, RecheckCanonical, local
  <1>. QED BY <1>2, <1>3 DEF RecheckCanonical

\* The displayed set becomes what the provider holds.
LEMMA RefreshSourceStep ==
    ASSUME CalendarInv, cmd # None, NEW o, NEW m, o = cmd.op, m = cmd.mem, RefreshSource(o, m)
    PROVE  CalendarInv'
  <1>1. o \in Ops /\ m \in Operations /\ cmd \in Commands /\ Sound(o, m) /\ Agrees(ops[o], m)
        /\ m.stage # "Planned" /\ m.stage # "Completed" /\ ~cmd.planned
    BY CommandFacts DEF CalendarInv, StageInv, RefreshSource, At
  <1>2. CASE UNCHANGED local /\ Return
    <2>1. TypeOK' BY <1>2 DEF CalendarInv, TypeOK, RefreshSource, Return, local, KeepRemote
    <2>. QED BY <1>2, <2>1, QuietFrame DEF CalendarInv, RefreshSource, Return, local
  <1>3. CASE /\ Readable /\ mirror' = remote["src"] /\ fresh' = {} /\ Step(m, "admit")
             /\ UNCHANGED <<rows, token>>
    <2>1. /\ cmd' \in Commands /\ cmd'.op = o /\ cmd'.mem = m /\ cmd'.planned = cmd.planned
          /\ cmd'.pc = "admit"
      BY <1>1, <1>3, StepFacts DEF Stages
    <2>2. TypeOK'
      BY <1>3, <2>1 DEF CalendarInv, TypeOK, RefreshSource, Readable, Slots, KeepRemote
    <2>3. DisplayInv'
      BY <1>3 DEF CalendarInv, TypeOK, RemoteInv, DisplayInv, Genuine, RefreshSource, Readable,
                  Slots, KeepRemote
    <2>4. CommandInv'
      BY <1>1, <2>1 DEF CommandInv, Agrees, Sound, Genuine, RefreshSource, KeepRemote
    <2>5. StageInv' BY <1>1, <2>1 DEF StageInv
    <2>6. CompletedInv' BY <2>1 DEF CalendarInv, CompletedInv, Movers, RefreshSource, KeepRemote
    <2>. QED BY <1>3, <2>2, <2>3, <2>4, <2>5, <2>6, QuietFrame DEF CalendarInv, RefreshSource
  <1>. QED BY <1>2, <1>3 DEF RefreshSource

\* The command returns without having changed anything.
LEMMA AbortStep == ASSUME CalendarInv, Abort PROVE CalendarInv'
  <1>1. TypeOK' BY ActionAssumption DEF CalendarInv, TypeOK, Abort, Fail, Return, local, KeepRemote
  <1>. QED BY <1>1, QuietFrame DEF CalendarInv, Abort, Return, local

\* The first transaction: the operation is rebased, and claimed again if under way.
LEMMA AdmitStep ==
    ASSUME CalendarInv, cmd # None, NEW o, NEW m, o = cmd.op, m = cmd.mem, Admit(o, m)
    PROVE  CalendarInv'
  <1>1. /\ o \in Ops /\ m \in Operations /\ cmd \in Commands /\ Sound(o, m) /\ Agrees(ops[o], m)
        /\ m.stage # "Completed" /\ (cmd.planned <=> m.stage = "Planned")
    BY CommandFacts DEF CalendarInv, StageInv, Admit, At
  <1>2. CASE Return /\ UNCHANGED <<ops, fresh, claim>>
    <2>1. TypeOK' BY <1>2 DEF CalendarInv, TypeOK, Admit, Return, KeepRemote
    <2>. QED BY <1>2, <2>1, QuietFrame DEF CalendarInv, Admit, Return
  <1>3. CASE ~(Return /\ UNCHANGED <<ops, fresh, claim>>)
    <2>1. PICK n : n = Rebased(o, m) OBVIOUS
    <2>2. /\ n \in Operations /\ Sound(o, n)
          /\ n.stage = m.stage /\ n.kind = m.kind /\ n.native = m.native
          /\ n.anchor = m.anchor /\ n.after = m.after
          /\ n.members = m.members \/ (n.members = rows /\ m.anchor \in rows)
          /\ Currency(o, m) = "current" => n = m
          /\ n = m \/ m.stage # "Planned"
      BY <1>1, <2>1, RebasedFacts
    <2>3. PICK there : there = IF n.canonical # None THEN Finish(n)
                               ELSE IF n.native THEN "probe"
                               ELSE IF cmd.planned /\ n.kind = "auto" THEN "claim" ELSE "verify"
      OBVIOUS
    <2>4. /\ Step(n, there)
          /\ m.stage # "Planned" => Claimable(o, n)
          /\ claim' = IF m.stage # "Planned" THEN Claimed(o, n) ELSE claim
          /\ IF Currency(o, m) = "current"
             THEN UNCHANGED <<ops, fresh>>
             ELSE Save(o, n) /\ fresh' = fresh \cup {o} /\ m.stage # "Planned"
      BY <1>3, <2>1, <2>3 DEF Admit, Currency, Recoverable
    <2>5. there \in Stages BY <2>3 DEF Stages, Finish
    <2>6. /\ cmd' \in Commands /\ cmd'.op = o /\ cmd'.mem = n /\ cmd'.pc = there
          /\ cmd'.planned = cmd.planned
      BY <1>1, <2>2, <2>4, <2>5, StepFacts
    <2>7. KeepRemote /\ UNCHANGED <<rows, mirror, token, failures>> BY DEF Admit
    <2>8. /\ ops' \in [Ops -> Operations \cup {None}] /\ ops'[o] # None /\ Agrees(ops'[o], n)
          /\ JournalInv' /\ SingleInv' /\ WriteInv' /\ RowInv'
          /\ \A p \in Movers' : ops'[p].stage = "Completed" => remote'["src"] = None
      <3>1. CASE Currency(o, m) = "current"
        <4>1. UNCHANGED ops /\ n = m BY <2>2, <2>4, <3>1
        <4>2. JournalInv' /\ SingleInv' /\ WriteInv' /\ RowInv'
          BY <2>7, <4>1, QuietFrame
        <4>3. \A p \in Movers' : ops'[p].stage = "Completed" => remote'["src"] = None
          BY <2>7, <4>1 DEF CalendarInv, CompletedInv, Movers, KeepRemote
        <4>. QED BY <1>1, <4>1, <4>2, <4>3 DEF CalendarInv, TypeOK, Agrees
      <3>2. CASE Currency(o, m) # "current"
        <4>1. Save(o, n) /\ ops[o] # None /\ n.kind = ops[o].kind /\ n.native = ops[o].native
              /\ n.anchor = ops[o].anchor /\ n.stage # "Completed"
              /\ (n.members = ops[o].members \/ (n.members = rows /\ n.anchor \in rows))
          BY <1>1, <2>2, <2>4, <3>2 DEF Agrees
        <4>. QED BY <1>1, <2>2, <2>7, <4>1, SaveFrame DEF Agrees
      <3>. QED BY <3>1, <3>2
    <2>9. claim' \in [Rows -> Ops \cup {None}] /\ ClaimInv'
      <3>1. CASE m.stage = "Planned"
        BY <2>4, <2>7, <3>1, QuietFrame DEF CalendarInv, TypeOK
      <3>2. CASE m.stage # "Planned"
        <4>1. Claimable(o, n) /\ claim' = Claimed(o, n) BY <2>4, <3>2
        <4>2. \A p \in Ops : p # o => ops'[p] = ops[p] BY <2>4 DEF CalendarInv, TypeOK, Save
        <4>3. ops'[o].members = n.members BY <2>8 DEF Agrees
        <4>. QED BY <1>1, <2>2, <4>1, <4>2, <4>3, ClaimedFrame
      <3>. QED BY <3>1, <3>2
    <2>10. TypeOK'
      BY <1>1, <2>4, <2>6, <2>7, <2>8, <2>9 DEF CalendarInv, TypeOK, KeepRemote
    <2>11. CommandInv'
      BY <1>1, <2>2, <2>6, <2>7, <2>8 DEF CommandInv, Sound, Genuine, KeepRemote
    <2>12. StageInv'
      BY <1>1, <2>2, <2>3, <2>6, <2>7 DEF StageInv, Sound, Finish, HasDestination, Moves, KeepRemote
    <2>13. CompletedInv'
      BY <2>2, <2>3, <2>6, <2>8 DEF CompletedInv, Moves, Finish
    <2>. QED BY <2>7, <2>8, <2>9, <2>10, <2>11, <2>12, <2>13, QuietFrame DEF CalendarInv
  <1>. QED BY <1>2, <1>3

\* A native move is found at the destination, or the operation waits.
LEMMA ProbeNativeMoveStep ==
    ASSUME CalendarInv, cmd # None, NEW o, NEW m, o = cmd.op, m = cmd.mem, ProbeNativeMove(o, m)
    PROVE  CalendarInv'
  <1>1. /\ o \in Ops /\ m \in Operations /\ cmd \in Commands /\ Sound(o, m) /\ Agrees(ops[o], m)
        /\ m.stage # "Planned" /\ m.stage # "Completed"
    BY CommandFacts DEF CalendarInv, StageInv, ProbeNativeMove, At
  <1>2. KeepRemote /\ UNCHANGED <<rows, mirror, token, fresh, claim, failures>>
    BY DEF ProbeNativeMove, local
  <1>3. CASE Save(o, [m EXCEPT !.stage = "Reconciling"]) /\ Return
    <2>1. PICK n : n = [m EXCEPT !.stage = "Reconciling"] OBVIOUS
    <2>2. /\ n \in Operations /\ n.stage = "Reconciling" /\ n.kind = m.kind
          /\ n.native = m.native /\ n.members = m.members /\ n.anchor = m.anchor
          /\ n.src = m.src /\ n.after = m.after /\ n.canonical = m.canonical
      BY <1>1, <2>1 DEF Operations
    <2>3. Save(o, n) /\ Sound(o, n)
      <3>1. Save(o, n) BY <1>3, <2>1
      <3>2. Sound(o, n) BY <1>1, <2>2 DEF Sound, Desired, HasDestination
      <3>. QED BY <3>1, <3>2
    <2>4. /\ ops' \in [Ops -> Operations \cup {None}] /\ JournalInv' /\ SingleInv' /\ WriteInv'
          /\ RowInv' /\ ClaimInv'
          /\ \A p \in Movers' : ops'[p].stage = "Completed" => remote'["src"] = None
      BY <1>1, <1>2, <2>2, <2>3, CheckpointFrame
    <2>5. TypeOK' BY <1>2, <1>3, <2>4 DEF CalendarInv, TypeOK, Return, KeepRemote
    <2>6. CompletedInv' BY <1>3, <2>4 DEF CompletedInv, Return
    <2>. QED BY <1>2, <1>3, <2>4, <2>5, <2>6, QuietFrame DEF CalendarInv, Return
  <1>4. CASE /\ remote["moved"] # None /\ remote["moved"].body = Desired(o, m)
             /\ Save(o, [m EXCEPT !.canonical = remote["moved"]])
             /\ Step([m EXCEPT !.canonical = remote["moved"]], "commit")
    <2>1. PICK c \in Resources : c = remote["moved"] BY <1>4 DEF CalendarInv, TypeOK, Slots
    <2>2. PICK n : n = [m EXCEPT !.canonical = c] OBVIOUS
    <2>3. /\ n \in Operations /\ n.canonical = c /\ n.stage = m.stage /\ n.kind = m.kind
          /\ n.native = m.native /\ n.members = m.members /\ n.anchor = m.anchor
          /\ n.src = m.src /\ n.after = m.after
      BY <1>1, <2>1, <2>2 DEF Operations
    <2>4. /\ cmd' \in Commands /\ cmd'.op = o /\ cmd'.mem = n /\ cmd'.pc = "commit"
      BY <1>1, <1>4, <2>1, <2>2, <2>3, StepFacts DEF Stages
    <2>5. remote["src"] = None BY <1>4 DEF CalendarInv, RemoteInv
    <2>6. m.native /\ m.kind = "move"
      BY <1>1 DEF CalendarInv, StageInv, ProbeNativeMove, At, Sound
    <2>7. Sound(o, n)
      BY <1>1, <1>4, <2>1, <2>3, <2>5, <2>6 DEF Sound, Desired, HasDestination
    <2> Save(o, n) BY <1>4, <2>1, <2>2
    <2>8. /\ ops' \in [Ops -> Operations \cup {None}] /\ JournalInv' /\ SingleInv' /\ WriteInv'
          /\ RowInv' /\ ClaimInv' /\ ops'[o] = n /\ n # None
          /\ \A p \in Movers' : ops'[p].stage = "Completed" => remote'["src"] = None
      BY <1>1, <1>2, <2>3, <2>7, CheckpointFrame
    <2>9. TypeOK' BY <1>2, <2>4, <2>8 DEF CalendarInv, TypeOK, KeepRemote
    <2>10. CommandInv'
      BY <1>1, <1>2, <2>3, <2>4, <2>7, <2>8 DEF CommandInv, Agrees, Sound, Genuine, KeepRemote
    <2>11. StageInv' BY <1>1, <1>2, <2>1, <2>3, <2>4, <2>5 DEF StageInv, KeepRemote
    <2>12. CompletedInv' BY <2>4, <2>8 DEF CompletedInv
    <2>. QED BY <1>2, <2>8, <2>9, <2>10, <2>11, <2>12, QuietFrame DEF CalendarInv
  <1>. QED BY <1>3, <1>4 DEF ProbeNativeMove

\* The source is compared with the plan.
LEMMA VerifySourceStep ==
    ASSUME CalendarInv, cmd # None, NEW o, NEW m, o = cmd.op, m = cmd.mem, VerifySource(o, m)
    PROVE  CalendarInv'
  <1>1. /\ o \in Ops /\ m \in Operations /\ cmd \in Commands /\ Sound(o, m) /\ Agrees(ops[o], m)
        /\ m.stage # "Completed" /\ (cmd.planned <=> m.stage = "Planned")
        /\ m.canonical = None /\ ~m.native
    BY CommandFacts DEF CalendarInv, StageInv, VerifySource, At
  <1>2. KeepRemote /\ UNCHANGED <<rows, mirror, token, fresh, ops, claim, failures>>
    BY DEF VerifySource, local
  <1>3. CASE Return BY <1>3, QuietReturn DEF VerifySource
  <1>4. CASE Readable /\ Unchanged(m) /\ Step(m, "claim")
    <2>1. /\ cmd' \in Commands /\ cmd'.op = o /\ cmd'.mem = m /\ cmd'.pc = "claim"
          /\ cmd'.planned = cmd.planned
      BY <1>1, <1>4, StepFacts DEF Stages
    <2>2. TypeOK' BY <1>2, <2>1 DEF CalendarInv, TypeOK, KeepRemote
    <2>3. CommandInv' BY <1>1, <1>2, <2>1 DEF CommandInv, Agrees, Sound, Genuine, KeepRemote
    <2>4. StageInv' BY <1>1, <2>1 DEF StageInv
    <2>5. CompletedInv'
      BY <1>2, <1>4 DEF CalendarInv, CompletedInv, Movers, Readable, KeepRemote
    <2>. QED BY <1>2, <2>2, <2>3, <2>4, <2>5, QuietFrame DEF CalendarInv
  <1>5. CASE /\ Readable /\ ~HasDestination(m) /\ ~cmd.planned /\ remote["src"].body = Desired(o, m)
             /\ Step([m EXCEPT !.canonical = remote["src"]], "commit")
    <2>1. PICK c \in Resources : c = remote["src"]
      BY <1>5 DEF CalendarInv, TypeOK, Readable, Slots
    <2>2. PICK n : n = [m EXCEPT !.canonical = c] OBVIOUS
    <2>3. /\ n \in Operations /\ n.canonical = c /\ n.stage = m.stage /\ n.kind = m.kind
          /\ n.native = m.native /\ n.members = m.members /\ n.anchor = m.anchor
          /\ n.src = m.src /\ n.after = m.after
      BY <1>1, <2>1, <2>2 DEF Operations
    <2>4. cmd' \in Commands /\ cmd'.op = o /\ cmd'.mem = n /\ cmd'.pc = "commit"
      BY <1>1, <1>5, <2>1, <2>2, <2>3, StepFacts DEF Stages
    <2>5. Sound(o, n)
      BY <1>1, <1>5, <2>1, <2>3 DEF CalendarInv, RemoteInv, Sound, Genuine, Desired, HasDestination,
                                    Readable, Slots
    <2>6. TypeOK' BY <1>2, <2>4 DEF CalendarInv, TypeOK, KeepRemote
    <2>7. CommandInv'
      BY <1>1, <1>2, <2>3, <2>4, <2>5 DEF CommandInv, Agrees, Sound, Genuine, KeepRemote
    <2>8. StageInv' BY <1>1, <1>5, <2>3, <2>4 DEF StageInv, HasDestination, Moves
    <2>9. CompletedInv' BY <1>2, <2>4 DEF CalendarInv, CompletedInv, Movers, KeepRemote
    <2>. QED BY <1>2, <2>6, <2>7, <2>8, <2>9, QuietFrame DEF CalendarInv
  <1>. QED BY <1>3, <1>4, <1>5 DEF VerifySource

\* The operation is applying, and owns its rows.
LEMMA ClaimSourceStep ==
    ASSUME CalendarInv, cmd # None, NEW o, NEW m, o = cmd.op, m = cmd.mem, ClaimSource(o, m)
    PROVE  CalendarInv'
  <1>1. /\ o \in Ops /\ m \in Operations /\ cmd \in Commands /\ Sound(o, m) /\ Agrees(ops[o], m)
        /\ m.stage # "Completed" /\ (cmd.planned <=> m.stage = "Planned")
        /\ m.canonical = None /\ ~m.native
    BY CommandFacts DEF CalendarInv, StageInv, ClaimSource, At
  <1>2. KeepRemote /\ UNCHANGED <<rows, mirror, token, failures>> BY DEF ClaimSource
  <1>3. CASE Return /\ UNCHANGED <<ops, fresh, claim>>
    BY <1>2, <1>3, QuietReturn DEF local
  <1>4. CASE ~(Return /\ UNCHANGED <<ops, fresh, claim>>)
    <2>1. PICK a : a = [m EXCEPT !.stage = "Applying"] OBVIOUS
    <2>2. /\ a \in Operations /\ a.stage = "Applying" /\ a.kind = m.kind
          /\ a.native = m.native /\ a.members = m.members /\ a.anchor = m.anchor
          /\ a.src = m.src /\ a.after = m.after /\ a.canonical = m.canonical
      BY <1>1, <2>1 DEF Operations
    <2>3. Sound(o, a) BY <1>1, <2>2 DEF Sound, Desired, HasDestination
    <2>4. PICK n : n = Rebased(o, a) OBVIOUS
    <2>5. /\ n \in Operations /\ Sound(o, n)
          /\ n.stage = a.stage /\ n.kind = a.kind /\ n.native = a.native
          /\ n.anchor = a.anchor /\ n.after = a.after
          /\ n.members = a.members \/ (n.members = rows /\ a.anchor \in rows)
          /\ n = a \/ ~HasDestination(a)
      BY <1>1, <2>2, <2>3, <2>4, RebasedFacts
    <2>6. PICK there : there = IF n.canonical # None THEN "commit"
                               ELSE IF ~HasDestination(n) THEN "update"
                               ELSE IF NativeEligible(n) THEN "mark" ELSE "create"
      OBVIOUS
    <2>7. /\ Step(n, there) /\ Save(o, n) /\ fresh' = fresh \cup {o}
          /\ Claimable(o, n) /\ claim' = Claimed(o, n)
      BY <1>4, <2>1, <2>4, <2>6 DEF ClaimSource
    <2>8. there \in {"commit", "update", "mark", "create"} BY <2>6
    <2>9. /\ cmd' \in Commands /\ cmd'.op = o /\ cmd'.mem = n /\ cmd'.pc = there
          /\ cmd'.planned = cmd.planned
      BY <1>1, <2>5, <2>7, <2>8, StepFacts DEF Stages
    <2>10. /\ ops[o] # None /\ n.kind = ops[o].kind /\ n.native = ops[o].native
           /\ n.anchor = ops[o].anchor /\ n.stage # "Completed"
           /\ (n.members = ops[o].members \/ (n.members = rows /\ n.anchor \in rows))
      BY <1>1, <2>2, <2>5 DEF Agrees
    <2>11. /\ ops' \in [Ops -> Operations \cup {None}] /\ ops'[o] = n /\ n # None
           /\ JournalInv' /\ SingleInv' /\ WriteInv' /\ RowInv'
           /\ \A p \in Movers' : ops'[p].stage = "Completed" =>
                 p \in Movers /\ ops[p].stage = "Completed" /\ remote'["src"] = None
      BY <1>1, <1>2, <2>5, <2>7, <2>10, SaveFrame
    <2>12. claim' \in [Rows -> Ops \cup {None}] /\ ClaimInv'
      <3>1. \A p \in Ops : p # o => ops'[p] = ops[p] BY <2>7 DEF CalendarInv, TypeOK, Save
      <3>. QED BY <1>1, <2>5, <2>7, <2>11, <3>1, ClaimedFrame
    <2>13. TypeOK' BY <1>1, <1>2, <2>7, <2>9, <2>11, <2>12 DEF CalendarInv, TypeOK, KeepRemote
    <2>14. CommandInv'
      BY <1>2, <2>2, <2>5, <2>9, <2>11 DEF CommandInv, Agrees, Sound, Genuine, KeepRemote
    <2>15. StageInv'
      BY <1>1, <1>2, <2>2, <2>5, <2>6, <2>9
         DEF StageInv, Sound, NativeEligible, HasDestination, Moves, KeepRemote
    <2>16. CompletedInv'
      BY <2>2, <2>5, <2>9, <2>11 DEF CalendarInv, CompletedInv, Moves, ClaimSource, At
    <2>. QED BY <1>2, <2>11, <2>12, <2>13, <2>14, <2>15, <2>16, QuietFrame DEF CalendarInv
  <1>. QED BY <1>3, <1>4

\* The result is checkpointed as verified.
LEMMA CheckpointVerifiedStep ==
    ASSUME CalendarInv, cmd # None, NEW o, NEW m, o = cmd.op, m = cmd.mem, CheckpointVerified(o, m)
    PROVE  CalendarInv'
  <1>1. /\ o \in Ops /\ m \in Operations /\ cmd \in Commands /\ Sound(o, m) /\ Agrees(ops[o], m)
        /\ m.stage \notin {"Planned", "Completed"} /\ m.canonical # None /\ HasDestination(m)
    BY CommandFacts DEF CalendarInv, StageInv, CheckpointVerified, At
  <1>2. KeepRemote /\ UNCHANGED <<rows, mirror, token, fresh, claim, failures>>
    BY DEF CheckpointVerified, local
  <1>3. PICK n : n = [m EXCEPT !.stage = "DestinationVerified"] OBVIOUS
  <1>4. /\ n \in Operations /\ n.stage = "DestinationVerified" /\ n.kind = m.kind
        /\ n.native = m.native /\ n.members = m.members /\ n.anchor = m.anchor
        /\ n.src = m.src /\ n.after = m.after /\ n.canonical = m.canonical
    BY <1>1, <1>3 DEF Operations
  <1>5. Save(o, n) /\ Step(n, Finish(n)) BY <1>3 DEF CheckpointVerified
  <1>6. Sound(o, n) BY <1>1, <1>4 DEF Sound, Desired, HasDestination
  <1>7. /\ ops' \in [Ops -> Operations \cup {None}] /\ ops'[o] = n /\ n # None
        /\ RemoteInv' /\ DisplayInv' /\ JournalInv' /\ ClaimInv' /\ WriteInv' /\ LossInv'
        /\ RowInv' /\ SingleInv'
        /\ \A p \in Movers' : ops'[p].stage = "Completed" => remote'["src"] = None
    BY <1>1, <1>2, <1>4, <1>5, <1>6, CheckpointFrame
  <1>8. /\ cmd' \in Commands /\ cmd'.op = o /\ cmd'.mem = n
        /\ cmd'.pc = Finish(n) /\ cmd'.pc \in {"remove", "commit"}
    BY <1>1, <1>4, <1>5, StepFacts DEF Stages, Finish
  <1>9. TypeOK' BY <1>2, <1>7, <1>8 DEF CalendarInv, TypeOK, KeepRemote
  <1>10. CommandInv'
    BY <1>2, <1>4, <1>6, <1>7, <1>8 DEF CommandInv, Agrees, Sound, Genuine, KeepRemote
  <1>11. StageInv'
    BY <1>1, <1>2, <1>4, <1>6, <1>8 DEF StageInv, Sound, Finish, HasDestination, KeepRemote
  <1>12. CompletedInv' BY <1>7, <1>8 DEF CompletedInv
  <1>. QED BY <1>7, <1>9, <1>10, <1>11, <1>12 DEF CalendarInv

\* The native move is marked before it is tried.
LEMMA MarkNativeMoveStep ==
    ASSUME CalendarInv, cmd # None, NEW o, NEW m, o = cmd.op, m = cmd.mem, MarkNativeMove(o, m)
    PROVE  CalendarInv'
  <1>1. /\ o \in Ops /\ m \in Operations /\ cmd \in Commands /\ Sound(o, m) /\ Agrees(ops[o], m)
        /\ m.stage \notin {"Planned", "Completed"} /\ m.canonical = None /\ m.kind = "move"
        /\ writes[o] = 0
    BY CommandFacts DEF CalendarInv, StageInv, MarkNativeMove, At
  <1>2. KeepRemote /\ UNCHANGED <<rows, mirror, token, fresh, claim, failures>>
    BY DEF MarkNativeMove, local
  <1>3. PICK n : n = [m EXCEPT !.native = TRUE] OBVIOUS
  <1>4. /\ n \in Operations /\ n.native /\ n.stage = m.stage /\ n.kind = m.kind
        /\ n.members = m.members /\ n.anchor = m.anchor
        /\ n.src = m.src /\ n.after = m.after /\ n.canonical = m.canonical
    BY <1>1, <1>3 DEF Operations
  <1>5. Save(o, n) /\ Step(n, "move") BY <1>3 DEF MarkNativeMove
  <1>6. Sound(o, n) BY <1>1, <1>4 DEF Sound
  <1>7. /\ ops[o] # None /\ n.kind = ops[o].kind /\ n.members = ops[o].members
        /\ n.anchor = ops[o].anchor /\ n.stage # "Completed"
        /\ ops[o].stage \notin {"Planned", "Completed"}
    BY <1>1, <1>4 DEF Agrees
  <1>8. /\ ops' \in [Ops -> Operations \cup {None}] /\ ops'[o] = n /\ n # None
        /\ JournalInv' /\ ClaimInv' /\ RowInv' /\ SingleInv'
        /\ \A p \in Movers' : ops'[p].stage = "Completed" =>
              p \in Movers /\ ops[p].stage = "Completed" /\ remote'["src"] = None
    BY <1>1, <1>2, <1>4, <1>5, <1>6, <1>7, SaveFrame
  <1>9. WriteInv'
    BY <1>1, <1>2, <1>5 DEF CalendarInv, TypeOK, WriteInv, Save, KeepRemote
  <1>10. /\ cmd' \in Commands /\ cmd'.op = o /\ cmd'.mem = n /\ cmd'.pc = "move"
    BY <1>1, <1>4, <1>5, StepFacts DEF Stages
  <1>11. TypeOK' BY <1>2, <1>8, <1>10 DEF CalendarInv, TypeOK, KeepRemote
  <1>12. CommandInv'
    BY <1>1, <1>2, <1>4, <1>6, <1>8, <1>10 DEF CommandInv, Agrees, Sound, Genuine, KeepRemote
  <1>13. StageInv' BY <1>1, <1>2, <1>4, <1>10 DEF StageInv, KeepRemote
  <1>14. CompletedInv'
    BY <1>4, <1>8, <1>10 DEF CalendarInv, CompletedInv, Moves, MarkNativeMove, At
  <1>. QED BY <1>2, <1>8, <1>9, <1>11, <1>12, <1>13, <1>14, QuietFrame DEF CalendarInv

\* A read decides whether the update took effect.
LEMMA ReconcileUpdateStep ==
    ASSUME CalendarInv, cmd # None, NEW o, NEW m, o = cmd.op, m = cmd.mem, ReconcileUpdate(o, m)
    PROVE  CalendarInv'
  <1>1. /\ o \in Ops /\ m \in Operations /\ cmd \in Commands /\ Sound(o, m) /\ Agrees(ops[o], m)
        /\ m.stage \notin {"Planned", "Completed"} /\ ~HasDestination(m)
    BY CommandFacts DEF CalendarInv, StageInv, ReconcileUpdate, At
  <1>2. KeepRemote /\ UNCHANGED <<rows, mirror, token, fresh, ops, claim, failures>>
    BY DEF ReconcileUpdate, local
  <1>3. CASE Return BY <1>3, QuietReturn DEF ReconcileUpdate
  <1>4. CASE /\ Readable /\ remote["src"].body = Desired(o, m)
             /\ Step([m EXCEPT !.canonical = remote["src"]], "updated")
    <2>1. PICK c \in Resources : c = remote["src"]
      BY <1>4 DEF CalendarInv, TypeOK, Readable, Slots
    <2>2. PICK n : n = [m EXCEPT !.canonical = c] OBVIOUS
    <2>3. /\ n \in Operations /\ n.canonical = c /\ n.stage = m.stage /\ n.kind = m.kind
          /\ n.native = m.native /\ n.members = m.members /\ n.anchor = m.anchor
          /\ n.src = m.src /\ n.after = m.after
      BY <1>1, <2>1, <2>2 DEF Operations
    <2>4. cmd' \in Commands /\ cmd'.op = o /\ cmd'.mem = n /\ cmd'.pc = "updated"
      BY <1>1, <1>4, <2>1, <2>2, <2>3, StepFacts DEF Stages
    <2>5. Sound(o, n)
      BY <1>1, <1>4, <2>1, <2>3 DEF CalendarInv, RemoteInv, Sound, Genuine, Desired, HasDestination,
                                    Readable, Slots
    <2>6. TypeOK' BY <1>2, <2>4 DEF CalendarInv, TypeOK, KeepRemote
    <2>7. CommandInv'
      BY <1>1, <1>2, <2>3, <2>4, <2>5 DEF CommandInv, Agrees, Sound, Genuine, KeepRemote
    <2>8. StageInv' BY <1>1, <2>3, <2>4 DEF StageInv, HasDestination
    <2>9. CompletedInv' BY <1>2, <2>4 DEF CalendarInv, CompletedInv, Movers, KeepRemote
    <2>. QED BY <1>2, <2>6, <2>7, <2>8, <2>9, QuietFrame DEF CalendarInv
  <1>. QED BY <1>3, <1>4 DEF ReconcileUpdate

\* The confirmed update is checkpointed.
LEMMA CheckpointUpdatedStep ==
    ASSUME CalendarInv, cmd # None, NEW o, NEW m, o = cmd.op, m = cmd.mem, CheckpointUpdated(o, m)
    PROVE  CalendarInv'
  <1>1. /\ o \in Ops /\ m \in Operations /\ cmd \in Commands /\ Sound(o, m) /\ Agrees(ops[o], m)
        /\ m.stage \notin {"Planned", "Completed"} /\ ~HasDestination(m)
    BY CommandFacts DEF CalendarInv, StageInv, CheckpointUpdated, At
  <1>2. KeepRemote /\ UNCHANGED <<rows, mirror, token, fresh, claim, failures>>
    BY DEF CheckpointUpdated, local
  <1>3. Save(o, m) /\ Step(m, "commit") BY DEF CheckpointUpdated
  <1>4. /\ ops' \in [Ops -> Operations \cup {None}] /\ ops'[o] = m /\ m # None
        /\ RemoteInv' /\ DisplayInv' /\ JournalInv' /\ ClaimInv' /\ WriteInv' /\ LossInv'
        /\ RowInv' /\ SingleInv'
        /\ \A p \in Movers' : ops'[p].stage = "Completed" => remote'["src"] = None
    BY <1>1, <1>2, <1>3, CheckpointFrame
  <1>5. cmd' \in Commands /\ cmd'.op = o /\ cmd'.mem = m /\ cmd'.pc = "commit"
    BY <1>1, <1>3, StepFacts DEF Stages
  <1>6. TypeOK' BY <1>2, <1>4, <1>5 DEF CalendarInv, TypeOK, KeepRemote
  <1>7. CommandInv'
    BY <1>1, <1>2, <1>4, <1>5 DEF CommandInv, Agrees, Sound, Genuine, KeepRemote
  <1>8. StageInv' BY <1>1, <1>5 DEF StageInv, HasDestination, Moves
  <1>9. CompletedInv' BY <1>4, <1>5 DEF CompletedInv
  <1>. QED BY <1>4, <1>6, <1>7, <1>8, <1>9 DEF CalendarInv

\* The removal of the source is checkpointed as pending, when the copy is there.
LEMMA PrepareRemovalStep ==
    ASSUME CalendarInv, cmd # None, NEW o, NEW m, o = cmd.op, m = cmd.mem, PrepareRemoval(o, m)
    PROVE  CalendarInv'
  <1>1. /\ o \in Ops /\ m \in Operations /\ cmd \in Commands /\ Sound(o, m) /\ Agrees(ops[o], m)
        /\ m.stage \notin {"Planned", "Completed"} /\ m.canonical # None
        /\ HasDestination(m) /\ ~m.native
    BY CommandFacts DEF CalendarInv, StageInv, PrepareRemoval, At
  <1>2. KeepRemote /\ UNCHANGED <<rows, mirror, token, fresh, claim, failures>>
    BY DEF PrepareRemoval, local
  <1>3. CASE Return /\ UNCHANGED ops BY <1>3, QuietReturn DEF PrepareRemoval
  <1>4. CASE ~(Return /\ UNCHANGED ops)
    <2>1. PICK n : n = [m EXCEPT !.stage = "SourceRemovalPending"] OBVIOUS
    <2>2. /\ n \in Operations /\ n.stage = "SourceRemovalPending" /\ n.kind = m.kind
          /\ n.native = m.native /\ n.members = m.members /\ n.anchor = m.anchor
          /\ n.src = m.src /\ n.after = m.after /\ n.canonical = m.canonical
      BY <1>1, <2>1 DEF Operations
    <2>3. PICK there \in {"commit", "source"} : there = IF m.after # None THEN "commit" ELSE "source"
      OBVIOUS
    <2>4. remote[o] = m.canonical /\ Save(o, n) /\ Step(n, there)
      BY <1>4, <2>1, <2>3 DEF PrepareRemoval
    <2>5. Sound(o, n) BY <1>1, <2>2 DEF Sound, Desired, HasDestination
    <2>6. /\ ops' \in [Ops -> Operations \cup {None}] /\ ops'[o] = n /\ n # None
          /\ RemoteInv' /\ DisplayInv' /\ JournalInv' /\ ClaimInv' /\ WriteInv' /\ LossInv'
          /\ RowInv' /\ SingleInv'
          /\ \A p \in Movers' : ops'[p].stage = "Completed" => remote'["src"] = None
      BY <1>1, <1>2, <2>2, <2>4, <2>5, CheckpointFrame
    <2>7. cmd' \in Commands /\ cmd'.op = o /\ cmd'.mem = n /\ cmd'.pc = there
      BY <1>1, <2>2, <2>4, StepFacts DEF Stages
    <2>8. TypeOK' BY <1>2, <2>6, <2>7 DEF CalendarInv, TypeOK, KeepRemote
    <2>9. CommandInv'
      BY <1>2, <2>2, <2>5, <2>6, <2>7 DEF CommandInv, Agrees, Sound, Genuine, KeepRemote
    <2>10. StageInv'
      <3>1. remote'[o] # None /\ Desired(o, n) \subseteq remote'[o].body
        BY <1>1, <1>2, <2>2, <2>4, <2>5 DEF Sound, KeepRemote
      <3>2. there = "commit" /\ Moves(n) => remote'["src"] = None
        BY <1>2, <2>2, <2>3, <2>5 DEF Sound, Moves, KeepRemote
      <3>. QED BY <1>1, <2>2, <2>3, <2>7, <3>1, <3>2 DEF StageInv, HasDestination, Desired
    <2>11. CompletedInv' BY <2>6, <2>7 DEF CompletedInv
    <2>. QED BY <2>6, <2>8, <2>9, <2>10, <2>11 DEF CalendarInv
  <1>. QED BY <1>3, <1>4

\* The removal is checkpointed.
LEMMA CheckpointRemovedStep ==
    ASSUME CalendarInv, cmd # None, NEW o, NEW m, o = cmd.op, m = cmd.mem, CheckpointRemoved(o, m)
    PROVE  CalendarInv'
  <1>1. /\ o \in Ops /\ m \in Operations /\ cmd \in Commands /\ Sound(o, m) /\ Agrees(ops[o], m)
        /\ m.stage \notin {"Planned", "Completed"} /\ m.after # None
    BY CommandFacts DEF CalendarInv, StageInv, CheckpointRemoved, At
  <1>2. KeepRemote /\ UNCHANGED <<rows, mirror, token, fresh, claim, failures>>
    BY DEF CheckpointRemoved, local
  <1>3. Save(o, m) /\ Step(m, "commit") BY DEF CheckpointRemoved
  <1>4. /\ ops' \in [Ops -> Operations \cup {None}] /\ ops'[o] = m /\ m # None
        /\ RemoteInv' /\ DisplayInv' /\ JournalInv' /\ ClaimInv' /\ WriteInv' /\ LossInv'
        /\ RowInv' /\ SingleInv'
        /\ \A p \in Movers' : ops'[p].stage = "Completed" => remote'["src"] = None
    BY <1>1, <1>2, <1>3, CheckpointFrame
  <1>5. cmd' \in Commands /\ cmd'.op = o /\ cmd'.mem = m /\ cmd'.pc = "commit"
    BY <1>1, <1>3, StepFacts DEF Stages
  <1>6. TypeOK' BY <1>2, <1>4, <1>5 DEF CalendarInv, TypeOK, KeepRemote
  <1>7. CommandInv'
    BY <1>1, <1>2, <1>4, <1>5 DEF CommandInv, Agrees, Sound, Genuine, KeepRemote
  <1>8. StageInv' BY <1>1, <1>2, <1>5 DEF StageInv, Sound, Moves, KeepRemote
  <1>9. CompletedInv' BY <1>4, <1>5 DEF CompletedInv
  <1>. QED BY <1>4, <1>6, <1>7, <1>8, <1>9 DEF CalendarInv

\* The last transaction: the operation is completed and gives its rows up, or it is
\* left for reconciliation.
LEMMA CommitStep ==
    ASSUME CalendarInv, cmd # None, NEW o, NEW m, o = cmd.op, m = cmd.mem, Commit(o, m)
    PROVE  CalendarInv'
  <1>1. /\ o \in Ops /\ m \in Operations /\ cmd \in Commands /\ Sound(o, m) /\ Agrees(ops[o], m)
        /\ m.stage \notin {"Planned", "Completed"} /\ (Moves(m) => remote["src"] = None)
    BY CommandFacts DEF CalendarInv, StageInv, Commit, At
  <1>2. KeepRemote /\ cmd' = None BY DEF Commit, Return
  <1>3. CASE /\ Save(o, [m EXCEPT !.stage = "Reconciling"]) /\ UNCHANGED <<local, claim>>
             /\ failures' \in Nat
    <2>1. PICK n : n = [m EXCEPT !.stage = "Reconciling"] OBVIOUS
    <2>2. /\ n \in Operations /\ n.stage = "Reconciling" /\ n.kind = m.kind
          /\ n.native = m.native /\ n.members = m.members /\ n.anchor = m.anchor
          /\ n.src = m.src /\ n.after = m.after /\ n.canonical = m.canonical
      BY <1>1, <2>1 DEF Operations
    <2>3. Save(o, n) BY <1>3, <2>1
    <2>4. Sound(o, n) BY <1>1, <2>2 DEF Sound, Desired, HasDestination
    <2>5. /\ ops' \in [Ops -> Operations \cup {None}]
          /\ RemoteInv' /\ DisplayInv' /\ JournalInv' /\ ClaimInv' /\ WriteInv' /\ LossInv'
          /\ RowInv' /\ SingleInv'
          /\ \A p \in Movers' : ops'[p].stage = "Completed" => remote'["src"] = None
      BY <1>1, <1>2, <1>3, <2>2, <2>3, <2>4, CheckpointFrame DEF local
    <2>6. TypeOK' BY <1>2, <1>3, <2>5 DEF CalendarInv, TypeOK, local, KeepRemote
    <2>7. CompletedInv' BY <1>2, <2>5 DEF CompletedInv
    <2>. QED BY <1>2, <2>5, <2>6, <2>7, QuietFrame DEF CalendarInv
  <1>4. CASE /\ IF HasDestination(m) /\ m.kind # "occ"
                THEN IF m.anchor \in rows THEN rows' = {} /\ mirror' = None ELSE UNCHANGED <<rows, mirror>>
                ELSE /\ mirror' = IF m.kind = "occ" THEN m.after ELSE m.canonical
                     /\ UNCHANGED rows
             /\ fresh' = {} /\ UNCHANGED <<token, failures>>
             /\ Save(o, [Rebased(o, m) EXCEPT !.stage = "Completed"])
             /\ claim' = [r \in Rows |-> IF claim[r] = o THEN None ELSE claim[r]]
    <2>1. PICK n : n = Rebased(o, m) OBVIOUS
    <2>2. /\ n \in Operations /\ Sound(o, n)
          /\ n.stage = m.stage /\ n.kind = m.kind /\ n.native = m.native
          /\ n.anchor = m.anchor /\ n.after = m.after
          /\ n.members = m.members \/ (n.members = rows /\ m.anchor \in rows)
      BY <1>1, <2>1, RebasedFacts
    <2>3. PICK d : d = [n EXCEPT !.stage = "Completed"] OBVIOUS
    <2>4. /\ d \in Operations /\ d.stage = "Completed" /\ d.kind = n.kind
          /\ d.native = n.native /\ d.members = n.members /\ d.anchor = n.anchor
          /\ d.src = n.src /\ d.after = n.after /\ d.canonical = n.canonical
      BY <2>2, <2>3 DEF Operations
    <2>5. Save(o, d) BY <1>4, <2>1, <2>3
    <2>6. Sound(o, d) BY <1>1, <2>2, <2>4 DEF Sound, Desired, HasDestination
    <2>7. /\ ops[o] # None /\ d.kind = ops[o].kind /\ d.native = ops[o].native
          /\ d.anchor = ops[o].anchor
          /\ d.members = ops[o].members \/ (d.members = rows /\ d.anchor \in rows)
      BY <1>1, <2>2, <2>4 DEF Agrees
    <2>8. /\ ops' \in [Ops -> Operations \cup {None}] /\ ops'[o] = d /\ d # None
          /\ JournalInv' /\ SingleInv' /\ WriteInv'
      BY <1>1, <1>2, <2>4, <2>5, <2>6, <2>7, SaveFrame
    <2>9. \A p \in Ops : p # o => ops'[p] = ops[p] BY <2>5 DEF CalendarInv, TypeOK, Save
    <2>10. TypeOK'
      BY <1>1, <1>2, <1>4, <2>8 DEF CalendarInv, TypeOK, Operations, KeepRemote
    <2>11. DisplayInv'
      BY <1>1, <1>2, <1>4 DEF CalendarInv, DisplayInv, Sound, Genuine, HasDestination, KeepRemote
    <2>12. ClaimInv'
      <3> SUFFICES ASSUME NEW p \in Ops, ops'[p] # None,
                          ops'[p].stage \notin {"Planned", "Completed"},
                          NEW q \in ops'[p].members
                   PROVE  claim'[q] = p
        BY DEF ClaimInv
      <3>1. p # o /\ ops'[p] = ops[p] BY <2>4, <2>8, <2>9
      <3>2. claim[q] = p /\ q \in Rows BY <3>1 DEF CalendarInv, TypeOK, ClaimInv, Operations
      <3>. QED BY <1>4, <3>1, <3>2
    <2>13. CompletedInv'
      BY <1>1, <1>2, <2>2, <2>4, <2>8, <2>9 DEF CalendarInv, CompletedInv, Movers, Moves, KeepRemote
    <2>14. RowInv'
      BY <1>1, <1>2, <1>4, <2>7, <2>8, <2>9
         DEF CalendarInv, RowInv, SameRow, HasDestination, Moves, KeepRemote
    <2>. QED BY <1>2, <2>8, <2>10, <2>11, <2>12, <2>13, <2>14, QuietFrame DEF CalendarInv
  <1>. QED
    <2>1. failures' = failures \/ failures' = failures + 1 => failures' \in Nat
      BY DEF CalendarInv, TypeOK
    <2>. QED BY <1>3, <1>4, <2>1 DEF Commit, Fail

-----------------------------------------------------------------------------
(* The steps that change the provider.                                      *)

\* The provider's clock advances, the source takes a new revision, goes away or
\* stays, and only an operation under way leaves a trace.
Advances ==
    /\ clock' \in Nat /\ clock <= clock' /\ made \subseteq made'
    /\ remote["src"] = None => remote'["src"] = None
    /\ remote'["src"] \in {None, remote["src"]} \/ remote'["src"].rev = clock + 1
    /\ \A p \in Ops : p \in made' \ made \/ writes'[p] # writes[p]
                         => ops[p] # None /\ ops[p].stage # "Planned"

\* Such a step invalidates nothing that is known, displayed or journalled.
LEMMA AdvanceFrame ==
    ASSUME CalendarInv, Advances, UNCHANGED <<rows, mirror, token, ops, claim>>,
           hidden' = "never" => hidden = "never"
    PROVE  /\ DisplayInv' /\ JournalInv' /\ ClaimInv' /\ RowInv'
           /\ \A p \in Movers' : ops'[p].stage = "Completed" =>
                 p \in Movers /\ ops[p].stage = "Completed" /\ remote'["src"] = None
           /\ Movers' = Movers
  <1>1. DisplayInv'
    BY DEF CalendarInv, TypeOK, Selections, Resources, DisplayInv, Genuine, Advances
  <1>2. JournalInv'
    <2> SUFFICES ASSUME NEW p \in Ops
                 PROVE  /\ ops[p] # None => Sound(p, ops[p])'
                        /\ ops[p] = None => p \notin made' /\ writes'[p] = 0
      BY DEF JournalInv
    <2>1. CASE ops[p] = None
      BY <2>1 DEF CalendarInv, JournalInv, Advances
    <2>2. CASE ops[p] # None
      <3>1. PICK m \in Operations : m = ops[p] BY <2>2 DEF CalendarInv, TypeOK
      <3>2. Sound(p, m) BY <2>2, <3>1 DEF CalendarInv, JournalInv
      <3>3. m.src \in Resources /\ m.canonical \in Resources \cup {None} /\ m.after \in Resources \cup {None}
        BY <3>1 DEF Operations
      <3>4. m.stage = "Planned" => p \notin made' /\ writes'[p] = 0
        BY <3>1, <3>2 DEF Advances, Sound
      <3>5. \A k \in Resources : Genuine(k) =>
               /\ k.body \subseteq made' /\ k.rev <= clock'
               /\ remote'["src"] # None /\ remote'["src"].rev = k.rev => k.body = remote'["src"].body
        BY DEF CalendarInv, TypeOK, Resources, Genuine, Advances
      <3>. QED BY <2>2, <3>1, <3>2, <3>3, <3>4, <3>5 DEF Sound, Genuine, Advances
    <2>. QED BY <2>1, <2>2
  <1>3. ClaimInv' BY DEF CalendarInv, ClaimInv
  <1>4. RowInv' BY DEF CalendarInv, RowInv, SameRow, Advances
  <1>5. Movers' = Movers BY DEF Movers
  <1>6. \A p \in Movers' : ops'[p].stage = "Completed" =>
           p \in Movers /\ ops[p].stage = "Completed" /\ remote'["src"] = None
    BY <1>5 DEF CalendarInv, CompletedInv, Movers, Advances
  <1>. QED BY <1>1, <1>2, <1>3, <1>4, <1>5, <1>6

\* Nor what a command knows, and nothing of what was genuine.
LEMMA SoundKept ==
    ASSUME CalendarInv, Advances, NEW o \in Ops, NEW m \in Operations, Sound(o, m),
           m.stage # "Planned" \/ m.stage = ops[o].stage
    PROVE  Sound(o, m)'
  <1>1. m.src \in Resources /\ m.canonical \in Resources \cup {None} /\ m.after \in Resources \cup {None}
    BY DEF Operations
  <1>2. \A k \in Resources : Genuine(k) =>
           /\ k.body \subseteq made' /\ k.rev <= clock'
           /\ remote'["src"] # None /\ remote'["src"].rev = k.rev => k.body = remote'["src"].body
    BY DEF CalendarInv, TypeOK, Resources, Genuine, Advances
  <1>. QED BY <1>1, <1>2 DEF Sound, Genuine, Advances

\* While the source was always readable, a move about to write is the only one
\* that has written: another under way would own the row, and a completed one
\* would have removed the source.
LEMMA OnlyWriter ==
    ASSUME CalendarInv, hidden = "never", cmd # None, NEW o, NEW m, o = cmd.op, m = cmd.mem,
           m.stage # "Planned", cmd.pc \in {"mark", "move", "create"}, Moves(m),
           NEW p \in Movers, writes[p] > 0
    PROVE  p = o
  <1>1. /\ o \in Ops /\ Agrees(ops[o], m) /\ ops[o] # None
        /\ ops[o].stage \notin {"Planned", "Completed"}
    BY CommandFacts DEF Agrees
  <1>2. p \in Ops /\ ops[p] # None /\ ops[p].stage # "Completed"
    BY DEF CalendarInv, CompletedInv, Movers
  <1>3. writes[p] # 0 BY <1>2 DEF CalendarInv, TypeOK
  <1>4. ops[p].stage # "Planned" BY <1>2, <1>3 DEF CalendarInv, JournalInv, Sound
  <1>5. PICK r \in Rows : SameRow(r) BY DEF CalendarInv, RowInv
  <1>6. claim[r] = o /\ claim[r] = p
    BY <1>1, <1>2, <1>4, <1>5 DEF CalendarInv, ClaimInv, SameRow
  <1>. QED BY <1>6

\* The conditional write found the source as planned, so it replaces what it knows.
LEMMA UnchangedIsKnown ==
    ASSUME CalendarInv, NEW o \in Ops, NEW m \in Operations, Sound(o, m), Unchanged(m)
    PROVE  /\ remote["src"] \in Resources /\ remote["src"] # None
           /\ remote["src"].body = m.src.body /\ remote["moved"] = None
  BY DEF CalendarInv, TypeOK, RemoteInv, Sound, Genuine, Unchanged, Slots

\* The slots of operations are neither the source nor the place of a native move.
LEMMA SlotFacts == /\ \A o \in Ops : o # "src" /\ o # "moved" /\ o \in Slots
                   /\ "src" \in Slots /\ "moved" \in Slots /\ "src" # "moved"
  BY ActionAssumption DEF Slots

\* What an operation intends consists of changes.
LEMMA DesiredType ==
    ASSUME NEW o \in Ops, NEW m \in Operations
    PROVE  /\ Desired(o, m) \in SUBSET (Ops \cup Edits) /\ m.src.body \in SUBSET (Ops \cup Edits)
           /\ m.src.body \subseteq Desired(o, m) /\ Desired(o, m) \subseteq m.src.body \cup {o}
           /\ Remaining(o, m) = m.src.body \cup {o}
  BY DEF Desired, Remaining, Operations, Resources

\* The event is moved natively, or the move is not supported, or refused.
LEMMA MoveNativeStep ==
    ASSUME CalendarInv, cmd # None, NEW o, NEW m, o = cmd.op, m = cmd.mem, MoveNative(o, m)
    PROVE  CalendarInv'
  <1>1. /\ o \in Ops /\ m \in Operations /\ cmd \in Commands /\ Sound(o, m) /\ Agrees(ops[o], m)
        /\ m.stage \notin {"Planned", "Completed"} /\ m.canonical = None /\ m.kind = "move"
        /\ writes[o] = 0 /\ cmd.pc = "move" /\ clock \in Nat
    BY CommandFacts DEF CalendarInv, TypeOK, StageInv, MoveNative, At
  <1>2. UNCHANGED <<rows, mirror, token, fresh, claim, failures>> BY DEF MoveNative, local
  <1>3. CASE Return /\ UNCHANGED ops /\ KeepRemote BY <1>3, QuietReturn DEF MoveNative
  <1>4. CASE /\ Save(o, [m EXCEPT !.native = FALSE]) /\ Step([m EXCEPT !.native = FALSE], "create")
             /\ KeepRemote
    <2>1. PICK n : n = [m EXCEPT !.native = FALSE] OBVIOUS
    <2>2. /\ n \in Operations /\ ~n.native /\ n.stage = m.stage /\ n.kind = m.kind
          /\ n.members = m.members /\ n.anchor = m.anchor
          /\ n.src = m.src /\ n.after = m.after /\ n.canonical = m.canonical
      BY <1>1, <2>1 DEF Operations
    <2>3. Save(o, n) /\ Step(n, "create") BY <1>4, <2>1
    <2>4. Sound(o, n) BY <1>1, <2>2 DEF Sound
    <2>5. /\ ops[o] # None /\ n.kind = ops[o].kind /\ n.members = ops[o].members
          /\ n.anchor = ops[o].anchor /\ n.stage # "Completed"
          /\ ops[o].stage \notin {"Planned", "Completed"}
      BY <1>1, <2>2 DEF Agrees
    <2>6. /\ ops' \in [Ops -> Operations \cup {None}] /\ ops'[o] = n /\ n # None
          /\ JournalInv' /\ ClaimInv' /\ RowInv' /\ SingleInv'
          /\ \A p \in Movers' : ops'[p].stage = "Completed" =>
                p \in Movers /\ ops[p].stage = "Completed" /\ remote'["src"] = None
      BY <1>1, <1>2, <1>4, <2>2, <2>3, <2>4, <2>5, SaveFrame
    <2>7. WriteInv'
      BY <1>1, <1>4, <2>3 DEF CalendarInv, TypeOK, WriteInv, Save, KeepRemote
    <2>8. /\ cmd' \in Commands /\ cmd'.op = o /\ cmd'.mem = n /\ cmd'.pc = "create"
      BY <1>1, <2>2, <2>3, StepFacts DEF Stages
    <2>9. TypeOK' BY <1>2, <1>4, <2>6, <2>8 DEF CalendarInv, TypeOK, KeepRemote
    <2>10. CommandInv'
      BY <1>1, <1>4, <2>2, <2>4, <2>6, <2>8 DEF CommandInv, Agrees, Sound, Genuine, KeepRemote
    <2>11. StageInv' BY <1>1, <2>2, <2>8 DEF StageInv, HasDestination
    <2>12. CompletedInv'
      BY <1>1, <2>2, <2>6, <2>8 DEF CalendarInv, CompletedInv, Moves
    <2>. QED BY <1>2, <1>4, <2>6, <2>7, <2>9, <2>10, <2>11, <2>12, QuietFrame DEF CalendarInv
  <1>5. CASE /\ Unchanged(m)
             /\ remote' = [remote EXCEPT !["src"] = None, !["moved"] = Set(m.src.body, clock + 1)]
             /\ clock' = clock + 1
             /\ writes' = [writes EXCEPT ![o] = @ + 1]
             /\ Step([m EXCEPT !.canonical = Set(m.src.body, clock + 1)], "verified")
             /\ UNCHANGED <<ops, hidden, made, gone>>
    <2>1. PICK c : c = Set(m.src.body, clock + 1) OBVIOUS
    <2>2. c \in Resources /\ c.body = m.src.body /\ c.rev = clock + 1 /\ c # None
      BY <1>1, <2>1, DesiredType, NoneAssumption DEF Set, Resources
    <2>3. PICK n : n = [m EXCEPT !.canonical = c] OBVIOUS
    <2>4. /\ n \in Operations /\ n.canonical = c /\ n.stage = m.stage /\ n.kind = m.kind
          /\ n.native = m.native /\ n.members = m.members /\ n.anchor = m.anchor
          /\ n.src = m.src /\ n.after = m.after
      BY <1>1, <2>2, <2>3 DEF Operations
    <2>5. cmd' \in Commands /\ cmd'.op = o /\ cmd'.mem = n /\ cmd'.pc = "verified"
      BY <1>1, <1>5, <2>1, <2>3, <2>4, StepFacts DEF Stages
    <2>6. /\ remote["src"] # None /\ remote["src"].body = m.src.body /\ remote["moved"] = None
          /\ remote["src"] \in Resources
      BY <1>1, <1>5, UnchangedIsKnown
    <2>7. /\ remote' \in [Slots -> Resources \cup {None}] /\ remote'["src"] = None /\ remote'["moved"] = c
          /\ \A s \in Slots \ {"src", "moved"} : remote'[s] = remote[s]
      BY <1>5, <2>1, <2>2, SlotFacts DEF CalendarInv, TypeOK
    <2>8. Advances
      BY <1>1, <1>5, <2>7 DEF CalendarInv, TypeOK, Advances, Agrees
    <2>9. TypeOK' BY <1>1, <1>2, <1>5, <2>5, <2>7 DEF CalendarInv, TypeOK
    <2>10. RemoteInv'
      <3>1. c.body \subseteq made BY <1>1, <2>2 DEF Sound, Genuine
      <3>. QED BY <1>1, <1>5, <2>2, <2>7, <3>1 DEF CalendarInv, TypeOK, RemoteInv, Resources
    <2>11. /\ DisplayInv' /\ JournalInv' /\ ClaimInv' /\ RowInv' /\ Movers' = Movers
           /\ \A p \in Movers' : ops'[p].stage = "Completed" => remote'["src"] = None
      BY <1>2, <1>5, <2>8, AdvanceFrame
    <2>12. CommandInv'
      <3>1. Sound(o, m)' BY <1>1, <2>8, SoundKept
      <3>2. Desired(o, n) = m.src.body BY <1>1, <2>4 DEF Desired
      <3>3. UNCHANGED ops BY <1>5
      <3>. QED BY <1>1, <2>2, <2>4, <2>5, <2>7, <3>1, <3>2, <3>3
               DEF CommandInv, Agrees, Sound, Genuine, HasDestination
    <2>13. StageInv' BY <1>1, <2>2, <2>4, <2>5 DEF StageInv, HasDestination
    <2>14. WriteInv'
      <3>1. ops[o].native
        BY <1>1 DEF CalendarInv, StageInv, Agrees, Sound
      <3>. QED BY <1>1, <1>5, <2>6, <2>7, <3>1, SlotFacts
               DEF CalendarInv, TypeOK, WriteInv, HasDestination, Agrees
    <2>15. LossInv' BY <1>5, <2>2, <2>6, <2>7, SlotFacts DEF CalendarInv, LossInv
    <2>16. CompletedInv' BY <2>5, <2>11 DEF CompletedInv
    <2>17. SingleInv'
      <3>1. hidden = "never" => \A p \in Movers : writes[p] > 0 => p = o
        BY <1>1, OnlyWriter DEF Moves
      <3>2. \A p \in Ops : p # o => writes'[p] = writes[p] BY <1>5 DEF CalendarInv, TypeOK
      <3>. QED BY <1>5, <2>11, <3>1, <3>2 DEF SingleInv, Movers
    <2>. QED BY <2>9, <2>10, <2>11, <2>12, <2>13, <2>14, <2>15, <2>16, <2>17 DEF CalendarInv
  <1>. QED BY <1>3, <1>4, <1>5 DEF MoveNative

\* The copy is made, or the one an earlier attempt made is found.
LEMMA CreateCopyStep ==
    ASSUME CalendarInv, cmd # None, NEW o, NEW m, o = cmd.op, m = cmd.mem, CreateCopy(o, m)
    PROVE  CalendarInv'
  <1>1. /\ o \in Ops /\ m \in Operations /\ cmd \in Commands /\ Sound(o, m) /\ Agrees(ops[o], m)
        /\ m.stage \notin {"Planned", "Completed"} /\ ~m.native /\ HasDestination(m)
        /\ cmd.pc = "create" /\ clock \in Nat
    BY CommandFacts DEF CalendarInv, TypeOK, StageInv, CreateCopy, At
  <1>2. UNCHANGED <<rows, mirror, token, fresh, ops, claim, failures>> BY DEF CreateCopy, local
  <1>3. CASE KeepRemote /\ Return BY <1>3, QuietReturn DEF CreateCopy
  <1>4. CASE /\ remote[o] # None /\ remote[o].body = Desired(o, m) /\ KeepRemote
             /\ Step([m EXCEPT !.canonical = remote[o]], "verified")
    <2>1. PICK c \in Resources : c = remote[o] BY <1>1, <1>4, SlotFacts DEF CalendarInv, TypeOK
    <2>2. PICK n : n = [m EXCEPT !.canonical = c] OBVIOUS
    <2>3. /\ n \in Operations /\ n.canonical = c /\ n.stage = m.stage /\ n.kind = m.kind
          /\ n.native = m.native /\ n.members = m.members /\ n.anchor = m.anchor
          /\ n.src = m.src /\ n.after = m.after
      BY <1>1, <2>1, <2>2 DEF Operations
    <2>4. cmd' \in Commands /\ cmd'.op = o /\ cmd'.mem = n /\ cmd'.pc = "verified"
      BY <1>1, <1>4, <2>1, <2>2, <2>3, StepFacts DEF Stages
    <2>5. Sound(o, n)
      BY <1>1, <1>4, <2>1, <2>3 DEF Sound, Desired, HasDestination
    <2>6. TypeOK' BY <1>2, <1>4, <2>4 DEF CalendarInv, TypeOK, KeepRemote
    <2>7. CommandInv'
      BY <1>1, <1>2, <1>4, <2>3, <2>4, <2>5 DEF CommandInv, Agrees, Sound, Genuine, KeepRemote
    <2>8. StageInv' BY <1>1, <1>4, <2>1, <2>3, <2>4 DEF StageInv, HasDestination
    <2>9. CompletedInv' BY <1>2, <1>4, <2>4 DEF CalendarInv, CompletedInv, Movers, KeepRemote
    <2>. QED BY <1>2, <1>4, <2>6, <2>7, <2>8, <2>9, QuietFrame DEF CalendarInv
  <1>5. CASE /\ remote[o] = None /\ Write(o, o, Desired(o, m))
             /\ Step([m EXCEPT !.canonical = Set(Desired(o, m), clock + 1)], "verified")
    <2>1. PICK c : c = Set(Desired(o, m), clock + 1) OBVIOUS
    <2>2. c \in Resources /\ c.body = Desired(o, m) /\ c.rev = clock + 1 /\ c # None
      BY <1>1, <2>1, DesiredType, NoneAssumption DEF Set, Resources
    <2>3. PICK n : n = [m EXCEPT !.canonical = c] OBVIOUS
    <2>4. /\ n \in Operations /\ n.canonical = c /\ n.stage = m.stage /\ n.kind = m.kind
          /\ n.native = m.native /\ n.members = m.members /\ n.anchor = m.anchor
          /\ n.src = m.src /\ n.after = m.after
      BY <1>1, <2>2, <2>3 DEF Operations
    <2>5. cmd' \in Commands /\ cmd'.op = o /\ cmd'.mem = n /\ cmd'.pc = "verified"
      BY <1>1, <1>5, <2>1, <2>3, <2>4, StepFacts DEF Stages
    <2>6. /\ clock' = clock + 1 /\ writes' = [writes EXCEPT ![o] = @ + 1]
          /\ made' = made \cup (c.body \cap {o}) /\ UNCHANGED <<hidden, gone>>
      BY <1>5, <2>2 DEF Write
    <2>7. /\ remote' \in [Slots -> Resources \cup {None}] /\ remote'[o] = c
          /\ \A s \in Slots \ {o} : remote'[s] = remote[s]
      BY <1>1, <1>5, <2>1, <2>2, SlotFacts DEF CalendarInv, TypeOK, Write
    <2>8. Advances
      BY <1>1, <2>6, <2>7, SlotFacts DEF CalendarInv, TypeOK, Advances, Agrees
    <2>9. TypeOK' BY <1>1, <1>2, <2>5, <2>6, <2>7 DEF CalendarInv, TypeOK
    <2>10. RemoteInv'
      <3>1. c.body \subseteq made'
        BY <1>1, <2>2, <2>6, DesiredType DEF Sound, Genuine
      <3>. QED BY <1>1, <2>2, <2>6, <2>7, <3>1, SlotFacts DEF CalendarInv, TypeOK, RemoteInv, Resources
    <2>11. /\ DisplayInv' /\ JournalInv' /\ ClaimInv' /\ RowInv' /\ Movers' = Movers
           /\ \A p \in Movers' : ops'[p].stage = "Completed" => remote'["src"] = None
      BY <1>2, <2>6, <2>8, AdvanceFrame
    <2>12. CommandInv'
      <3>1. Sound(o, m)' BY <1>1, <2>8, SoundKept
      <3>2. Desired(o, n) = c.body BY <2>2, <2>4 DEF Desired
      <3>. QED BY <1>1, <1>2, <2>2, <2>4, <2>5, <3>1, <3>2
               DEF CommandInv, Agrees, Sound, Genuine, HasDestination
    <2>13. StageInv' BY <1>1, <2>2, <2>4, <2>5 DEF StageInv, HasDestination
    <2>14. WriteInv'
      BY <1>1, <1>2, <1>5, <2>2, <2>6, <2>7, SlotFacts
         DEF CalendarInv, TypeOK, WriteInv, HasDestination, Agrees
    <2>15. LossInv' BY <1>1, <1>5, <2>2, <2>6, <2>7, SlotFacts DEF CalendarInv, LossInv
    <2>16. CompletedInv' BY <2>5, <2>11 DEF CompletedInv
    <2>17. SingleInv'
      <3>1. hidden = "never" /\ o \in Movers => \A p \in Movers : writes[p] > 0 => p = o
        BY <1>1, OnlyWriter DEF Moves, Movers, Agrees
      <3>2. \A p \in Ops : p # o => writes'[p] = writes[p] BY <2>6 DEF CalendarInv, TypeOK
      <3>. QED BY <2>6, <2>11, <3>1, <3>2 DEF CalendarInv, SingleInv, Movers
    <2>. QED BY <2>9, <2>10, <2>11, <2>12, <2>13, <2>14, <2>15, <2>16, <2>17 DEF CalendarInv
  <1>. QED BY <1>3, <1>4, <1>5 DEF CreateCopy

\* The command goes on to find out what became of the update.
LEMMA ToReconcile ==
    ASSUME CalendarInv, cmd # None, NEW o, NEW m, o = cmd.op, m = cmd.mem, cmd.pc = "update",
           KeepRemote, UNCHANGED <<local, ops, claim>>, failures' \in Nat, Step(m, "reconcile")
    PROVE  CalendarInv'
  <1>1. /\ o \in Ops /\ m \in Operations /\ cmd \in Commands /\ Sound(o, m) /\ Agrees(ops[o], m)
        /\ m.stage \notin {"Planned", "Completed"} /\ ~HasDestination(m)
    BY CommandFacts DEF CalendarInv, StageInv
  <1>2. cmd' \in Commands /\ cmd'.op = o /\ cmd'.mem = m /\ cmd'.pc = "reconcile"
    BY <1>1, StepFacts DEF Stages
  <1>3. TypeOK' BY <1>2 DEF CalendarInv, TypeOK, local, KeepRemote
  <1>4. CommandInv' BY <1>1, <1>2 DEF CommandInv, Agrees, Sound, Genuine, KeepRemote
  <1>5. StageInv' BY <1>1, <1>2 DEF StageInv
  <1>6. CompletedInv' BY <1>2 DEF CalendarInv, CompletedInv, Movers, KeepRemote
  <1>. QED BY <1>3, <1>4, <1>5, <1>6, QuietFrame DEF CalendarInv, local

\* The source is updated to what was planned, or not; the reply may be lost.
LEMMA UpdateSourceStep ==
    ASSUME CalendarInv, cmd # None, NEW o, NEW m, o = cmd.op, m = cmd.mem, UpdateSource(o, m)
    PROVE  CalendarInv'
  <1>1. /\ o \in Ops /\ m \in Operations /\ cmd \in Commands /\ Sound(o, m) /\ Agrees(ops[o], m)
        /\ m.stage \notin {"Planned", "Completed"} /\ ~HasDestination(m)
        /\ cmd.pc = "update" /\ clock \in Nat
    BY CommandFacts DEF CalendarInv, TypeOK, StageInv, UpdateSource, At
  <1>2. UNCHANGED <<rows, mirror, token, fresh, ops, claim>> /\ failures' \in Nat
    BY DEF CalendarInv, TypeOK, UpdateSource, Fail, local
  <1>3. CASE KeepRemote /\ Step(m, "reconcile")
    BY <1>1, <1>2, <1>3, ToReconcile DEF local
  <1>4. CASE /\ Unchanged(m) /\ Write(o, "src", Desired(o, m))
             /\ \/ Step([m EXCEPT !.canonical = Set(Desired(o, m), clock + 1)], "updated")
                \/ Step(m, "reconcile")
    <2>1. PICK c : c = Set(Desired(o, m), clock + 1) OBVIOUS
    <2>2. c \in Resources /\ c.body = Desired(o, m) /\ c.rev = clock + 1 /\ c # None
      BY <1>1, <2>1, DesiredType, NoneAssumption DEF Set, Resources
    <2>3. PICK e : e = [m EXCEPT !.canonical = c] OBVIOUS
    <2>4. /\ e \in Operations /\ e.canonical = c /\ e.stage = m.stage /\ e.kind = m.kind
          /\ e.native = m.native /\ e.members = m.members /\ e.anchor = m.anchor
          /\ e.src = m.src /\ e.after = m.after
      BY <1>1, <2>2, <2>3 DEF Operations
    <2>5. PICK n \in {m, e}, there \in {"updated", "reconcile"} : Step(n, there)
      BY <1>4, <2>1, <2>3
    <2>6. /\ n \in Operations /\ n.canonical \in {m.canonical, c} /\ n.stage = m.stage
          /\ n.kind = m.kind /\ n.native = m.native /\ n.members = m.members
          /\ n.anchor = m.anchor /\ n.src = m.src /\ n.after = m.after
      BY <1>1, <2>4, <2>5
    <2>7. cmd' \in Commands /\ cmd'.op = o /\ cmd'.mem = n /\ cmd'.pc = there
      BY <1>1, <2>5, <2>6, StepFacts DEF Stages
    <2>8. /\ clock' = clock + 1 /\ writes' = [writes EXCEPT ![o] = @ + 1]
          /\ made' = made \cup (c.body \cap {o}) /\ UNCHANGED <<hidden, gone>>
      BY <1>4, <2>2 DEF Write
    <2>9. /\ remote' \in [Slots -> Resources \cup {None}] /\ remote'["src"] = c
          /\ \A s \in Slots \ {"src"} : remote'[s] = remote[s]
      BY <1>4, <2>1, <2>2, SlotFacts DEF CalendarInv, TypeOK, Write
    <2>10. /\ remote["src"] # None /\ remote["src"].body = m.src.body /\ remote["moved"] = None
           /\ m.src.body \subseteq c.body /\ o \in c.body
      <3>1. o \in Desired(o, m) BY <1>1 DEF Desired, HasDestination
      <3>. QED BY <1>1, <1>4, <2>2, <3>1, UnchangedIsKnown, DesiredType
    <2>11. Advances
      BY <1>1, <2>2, <2>8, <2>9, <2>10 DEF CalendarInv, TypeOK, Advances, Agrees
    <2>12. TypeOK' BY <1>1, <1>2, <2>7, <2>8, <2>9 DEF CalendarInv, TypeOK
    <2>13. c.body \subseteq made'
      BY <1>1, <2>2, <2>8, DesiredType DEF Sound, Genuine
    <2>14. RemoteInv'
      BY <1>1, <2>2, <2>8, <2>9, <2>10, <2>13, SlotFacts DEF CalendarInv, TypeOK, RemoteInv, Resources
    <2>15. /\ DisplayInv' /\ JournalInv' /\ ClaimInv' /\ RowInv' /\ Movers' = Movers
           /\ \A p \in Movers' : ops'[p].stage = "Completed" => remote'["src"] = None
      BY <1>2, <2>8, <2>11, AdvanceFrame
    <2>16. CommandInv'
      <3>1. Sound(o, m)' BY <1>1, <2>11, SoundKept
      <3>2. Desired(o, n) = c.body BY <2>2, <2>6 DEF Desired
      <3>3. Desired(o, m) = c.body BY <2>2
      <3>. QED BY <1>1, <1>2, <2>2, <2>6, <2>7, <2>8, <2>9, <2>13, <3>1, <3>2, <3>3
               DEF CommandInv, Agrees, Sound, Genuine, HasDestination
    <2>17. StageInv' BY <1>1, <2>5, <2>6, <2>7 DEF StageInv, HasDestination
    <2>18. WriteInv'
      <3>1. gone \/ writes[o] = 0
        BY <1>1, <2>10 DEF CalendarInv, TypeOK, WriteInv, Sound, HasDestination, Agrees
      <3>. QED BY <1>1, <1>2, <2>2, <2>8, <2>9, <2>10, <3>1, SlotFacts
               DEF CalendarInv, TypeOK, WriteInv, HasDestination, Agrees
    <2>19. LossInv'
      BY <1>1, <2>2, <2>8, <2>9, <2>10, SlotFacts DEF CalendarInv, LossInv
    <2>20. CompletedInv' BY <2>5, <2>7, <2>15 DEF CompletedInv
    <2>21. SingleInv'
      <3>1. o \notin Movers BY <1>1 DEF Movers, Agrees, HasDestination
      <3>2. \A p \in Ops : p # o => writes'[p] = writes[p] BY <2>8 DEF CalendarInv, TypeOK
      <3>. QED BY <2>8, <2>15, <3>1, <3>2 DEF CalendarInv, SingleInv, Movers
    <2>. QED BY <2>12, <2>14, <2>15, <2>16, <2>17, <2>18, <2>19, <2>20, <2>21 DEF CalendarInv
  <1>. QED BY <1>3, <1>4 DEF UpdateSource

\* The occurrence is excluded from the series, or found excluded.
LEMMA ExcludeOccurrenceStep ==
    ASSUME CalendarInv, cmd # None, NEW o, NEW m, o = cmd.op, m = cmd.mem, ExcludeOccurrence(o, m)
    PROVE  CalendarInv'
  <1>1. /\ o \in Ops /\ m \in Operations /\ cmd \in Commands /\ Sound(o, m) /\ Agrees(ops[o], m)
        /\ m.stage \notin {"Planned", "Completed"} /\ m.kind = "occ" /\ ~m.native
        /\ m.canonical # None /\ clock \in Nat
    BY CommandFacts DEF CalendarInv, TypeOK, StageInv, ExcludeOccurrence, At
  <1>2. UNCHANGED <<rows, mirror, token, fresh, ops, claim, failures>>
    BY DEF ExcludeOccurrence, local
  <1>3. CASE KeepRemote /\ Return BY <1>3, QuietReturn DEF ExcludeOccurrence
  <1>4. CASE /\ Readable /\ remote["src"].body = Remaining(o, m)
             /\ Step([m EXCEPT !.after = remote["src"]], "removed") /\ KeepRemote
    <2>1. PICK c \in Resources : c = remote["src"] /\ c # None
      BY <1>4 DEF CalendarInv, TypeOK, Readable, Slots
    <2>2. PICK n : n = [m EXCEPT !.after = c] OBVIOUS
    <2>3. /\ n \in Operations /\ n.after = c /\ n.stage = m.stage /\ n.kind = m.kind
          /\ n.native = m.native /\ n.members = m.members /\ n.anchor = m.anchor
          /\ n.src = m.src /\ n.canonical = m.canonical
      BY <1>1, <2>1, <2>2 DEF Operations
    <2>4. cmd' \in Commands /\ cmd'.op = o /\ cmd'.mem = n /\ cmd'.pc = "removed"
      BY <1>1, <1>4, <2>1, <2>2, <2>3, StepFacts DEF Stages
    <2>5. Sound(o, n)
      BY <1>1, <2>1, <2>3 DEF CalendarInv, RemoteInv, Sound, Genuine, Desired, HasDestination, Slots
    <2>6. TypeOK' BY <1>2, <1>4, <2>4 DEF CalendarInv, TypeOK, KeepRemote
    <2>7. CommandInv'
      BY <1>1, <1>2, <1>4, <2>3, <2>4, <2>5 DEF CommandInv, Agrees, Sound, Genuine, KeepRemote
    <2>8. StageInv' BY <1>1, <2>1, <2>3, <2>4 DEF StageInv, HasDestination
    <2>9. CompletedInv' BY <1>2, <1>4, <2>4 DEF CalendarInv, CompletedInv, Movers, KeepRemote
    <2>. QED BY <1>2, <1>4, <2>6, <2>7, <2>8, <2>9, QuietFrame DEF CalendarInv
  <1>5. CASE /\ Unchanged(m)
             /\ remote' = [remote EXCEPT !["src"] = Set(Remaining(o, m), clock + 1)]
             /\ clock' = clock + 1 /\ made' = made \cup {o}
             /\ Step([m EXCEPT !.after = Set(Remaining(o, m), clock + 1)], "removed")
             /\ UNCHANGED <<hidden, writes, gone>>
    <2>1. PICK c : c = Set(Remaining(o, m), clock + 1) OBVIOUS
    <2>2. c \in Resources /\ c.body = m.src.body \cup {o} /\ c.rev = clock + 1 /\ c # None
      BY <1>1, <2>1, DesiredType, NoneAssumption DEF Set, Resources
    <2>3. PICK n : n = [m EXCEPT !.after = c] OBVIOUS
    <2>4. /\ n \in Operations /\ n.after = c /\ n.stage = m.stage /\ n.kind = m.kind
          /\ n.native = m.native /\ n.members = m.members /\ n.anchor = m.anchor
          /\ n.src = m.src /\ n.canonical = m.canonical
      BY <1>1, <2>2, <2>3 DEF Operations
    <2>5. cmd' \in Commands /\ cmd'.op = o /\ cmd'.mem = n /\ cmd'.pc = "removed"
      BY <1>1, <1>5, <2>1, <2>3, <2>4, StepFacts DEF Stages
    <2>6. /\ remote' \in [Slots -> Resources \cup {None}] /\ remote'["src"] = c
          /\ \A s \in Slots \ {"src"} : remote'[s] = remote[s]
      BY <1>5, <2>1, <2>2, SlotFacts DEF CalendarInv, TypeOK
    <2>7. remote["src"] # None /\ remote["src"].body = m.src.body /\ remote["moved"] = None
      BY <1>1, <1>5, UnchangedIsKnown
    <2>8. Advances
      BY <1>1, <1>5, <2>2, <2>6, <2>7 DEF CalendarInv, TypeOK, Advances, Agrees
    <2>9. TypeOK' BY <1>1, <1>2, <1>5, <2>5, <2>6 DEF CalendarInv, TypeOK
    <2>10. c.body \subseteq made' BY <1>1, <1>5, <2>2 DEF Sound, Genuine
    <2>11. RemoteInv'
      BY <1>1, <1>5, <2>2, <2>6, <2>7, <2>10, SlotFacts DEF CalendarInv, TypeOK, RemoteInv, Resources
    <2>12. /\ DisplayInv' /\ JournalInv' /\ ClaimInv' /\ RowInv' /\ Movers' = Movers
           /\ \A p \in Movers' : ops'[p].stage = "Completed" => remote'["src"] = None
      BY <1>2, <1>5, <2>8, AdvanceFrame
    <2>13. CommandInv'
      <3>1. Sound(o, m)' BY <1>1, <2>8, SoundKept
      <3>2. Desired(o, n) = Desired(o, m) BY <2>4 DEF Desired
      <3>3. clock' = clock + 1 BY <1>5
      <3>. QED BY <1>1, <1>2, <2>2, <2>4, <2>5, <2>6, <2>10, <3>1, <3>2, <3>3
               DEF CommandInv, Agrees, Sound, Genuine, HasDestination
    <2>14. StageInv' BY <1>1, <2>2, <2>4, <2>5 DEF StageInv, HasDestination
    <2>15. WriteInv'
      BY <1>1, <1>2, <1>5, <2>2, <2>6, <2>7, SlotFacts
         DEF CalendarInv, TypeOK, WriteInv, HasDestination
    <2>16. LossInv'
      BY <1>1, <1>5, <2>2, <2>6, <2>7, SlotFacts DEF CalendarInv, LossInv
    <2>17. CompletedInv' BY <2>5, <2>12 DEF CompletedInv
    <2>18. SingleInv' BY <1>5, <2>12 DEF CalendarInv, SingleInv
    <2>. QED BY <2>9, <2>11, <2>12, <2>13, <2>14, <2>15, <2>16, <2>17, <2>18 DEF CalendarInv
  <1>. QED BY <1>3, <1>4, <1>5 DEF ExcludeOccurrence

\* The source is deleted; what it held is in the verified copy.
LEMMA DeleteSourceStep ==
    ASSUME CalendarInv, cmd # None, NEW o, NEW m, o = cmd.op, m = cmd.mem, DeleteSource(o, m)
    PROVE  CalendarInv'
  <1>1. /\ o \in Ops /\ m \in Operations /\ cmd \in Commands /\ Sound(o, m) /\ Agrees(ops[o], m)
        /\ m.stage \notin {"Planned", "Completed"} /\ m.kind # "occ" /\ ~m.native
        /\ m.canonical # None /\ clock \in Nat /\ HasDestination(m)
        /\ gone \/ (remote[o] # None /\ Desired(o, m) \subseteq remote[o].body)
    BY CommandFacts DEF CalendarInv, TypeOK, StageInv, DeleteSource, At
  <1>2. UNCHANGED <<rows, mirror, token, fresh, ops, claim, failures>> BY DEF DeleteSource, local
  <1>3. CASE KeepRemote /\ Return BY <1>3, QuietReturn DEF DeleteSource
  <1>4. CASE /\ Unchanged(m) /\ remote' = [remote EXCEPT !["src"] = None]
             /\ Step([m EXCEPT !.after = m.src], "removed")
             /\ UNCHANGED <<clock, hidden, history>>
    <2>1. PICK n : n = [m EXCEPT !.after = m.src] OBVIOUS
    <2>2. /\ n \in Operations /\ n.after = m.src /\ n.stage = m.stage /\ n.kind = m.kind
          /\ n.native = m.native /\ n.members = m.members /\ n.anchor = m.anchor
          /\ n.src = m.src /\ n.canonical = m.canonical
      BY <1>1, <2>1 DEF Operations
    <2>3. n.after # None BY <1>1, <2>2, NoneAssumption DEF Operations
    <2>4. cmd' \in Commands /\ cmd'.op = o /\ cmd'.mem = n /\ cmd'.pc = "removed"
      BY <1>1, <1>4, <2>1, <2>2, StepFacts DEF Stages
    <2>5. /\ remote' \in [Slots -> Resources \cup {None}] /\ remote'["src"] = None
          /\ \A s \in Slots \ {"src"} : remote'[s] = remote[s]
      BY <1>4, SlotFacts DEF CalendarInv, TypeOK
    <2>6. /\ remote["src"] # None /\ remote["src"].body = m.src.body /\ remote["moved"] = None
          /\ m.src.body \subseteq Desired(o, m)
      BY <1>1, <1>4, UnchangedIsKnown, DesiredType
    <2>7. UNCHANGED <<writes, made, gone>> BY <1>4 DEF history
    <2>8. Advances BY <1>1, <1>4, <2>5, <2>7 DEF Advances
    <2>9. TypeOK' BY <1>2, <1>4, <2>4, <2>5, <2>7 DEF CalendarInv, TypeOK
    <2>10. RemoteInv' BY <1>4, <2>5, <2>7, SlotFacts DEF CalendarInv, RemoteInv
    <2>11. /\ DisplayInv' /\ JournalInv' /\ ClaimInv' /\ RowInv' /\ Movers' = Movers
           /\ \A p \in Movers' : ops'[p].stage = "Completed" => remote'["src"] = None
      BY <1>2, <1>4, <2>8, AdvanceFrame
    <2>12. CommandInv'
      <3>1. Sound(o, m)' BY <1>1, <2>8, SoundKept
      <3>2. Desired(o, n) = Desired(o, m) BY <2>2 DEF Desired
      <3>. QED BY <1>1, <1>2, <2>2, <2>4, <2>5, <3>1, <3>2
               DEF CommandInv, Agrees, Sound, Genuine, HasDestination
    <2>13. StageInv' BY <1>1, <2>2, <2>3, <2>4 DEF StageInv, HasDestination
    <2>14. WriteInv'
      BY <1>2, <2>5, <2>7, SlotFacts DEF CalendarInv, WriteInv
    <2>15. LossInv'
      BY <1>1, <2>5, <2>6, <2>7, SlotFacts DEF CalendarInv, LossInv
    <2>16. CompletedInv' BY <2>4, <2>11 DEF CompletedInv
    <2>17. SingleInv' BY <1>4, <2>7, <2>11 DEF CalendarInv, SingleInv
    <2>. QED BY <2>9, <2>10, <2>11, <2>12, <2>13, <2>14, <2>15, <2>16, <2>17 DEF CalendarInv
  <1>. QED BY <1>3, <1>4 DEF DeleteSource

\* What other clients do leaves a running command with what it knows.
LEMMA OthersFrame ==
    ASSUME CalendarInv, Advances, UNCHANGED <<local, ops, claim, cmd, failures, writes>>,
           hidden' = "never" => hidden = "never"
    PROVE  /\ DisplayInv' /\ JournalInv' /\ ClaimInv' /\ RowInv'
           /\ CommandInv' /\ CompletedInv' /\ SingleInv'
  <1>1. /\ DisplayInv' /\ JournalInv' /\ ClaimInv' /\ RowInv' /\ Movers' = Movers
        /\ \A p \in Movers' : ops'[p].stage = "Completed" =>
              p \in Movers /\ ops[p].stage = "Completed" /\ remote'["src"] = None
    BY AdvanceFrame DEF local
  <1>2. CommandInv'
    <2> SUFFICES ASSUME cmd # None
                 PROVE  Agrees(ops[cmd.op], cmd.mem) /\ Sound(cmd.op, cmd.mem)'
                        /\ cmd.mem.stage # "Completed"
      BY DEF CommandInv, Agrees
    <2>1. PICK o \in Ops, m \in Operations :
             o = cmd.op /\ m = cmd.mem /\ Sound(o, m) /\ m.stage = ops[o].stage
      BY CommandFacts DEF Agrees
    <2>2. Sound(o, m)' BY <2>1, SoundKept
    <2>3. Sound(cmd.op, cmd.mem)' BY <2>1, <2>2 DEF Sound, Genuine
    <2>. QED BY <2>3, CommandFacts
  <1>3. CompletedInv' BY <1>1 DEF CalendarInv, CompletedInv
  <1>4. SingleInv' BY <1>1 DEF CalendarInv, SingleInv
  <1>. QED BY <1>1, <1>2, <1>3, <1>4

\* Another client adds a change.
LEMMA ExternalEditStep ==
    ASSUME CalendarInv, NEW x \in Edits, NEW s \in Slots, ExternalEdit(x, s) PROVE CalendarInv'
  <1>1. /\ clock \in Nat /\ clock' = clock + 1 /\ made' = made \cup {x} /\ x \notin Ops
        /\ UNCHANGED <<hidden, local, ops, claim, cmd, failures, writes, gone>>
    BY ActionAssumption DEF CalendarInv, TypeOK, ExternalEdit
  <1>2. PICK c : c = Set(remote[s].body \cup {x}, clock + 1) OBVIOUS
  <1>3. /\ remote[s] # None /\ remote[s] \in Resources
        /\ c \in Resources /\ c # None /\ c.body = remote[s].body \cup {x} /\ c.rev = clock + 1
    BY <1>1, <1>2, NoneAssumption DEF CalendarInv, TypeOK, ExternalEdit, Set, Resources
  <1>4. /\ remote' \in [Slots -> Resources \cup {None}] /\ remote'[s] = c
        /\ \A t \in Slots \ {s} : remote'[t] = remote[t]
    BY <1>2, <1>3 DEF CalendarInv, TypeOK, ExternalEdit
  <1>5. Advances BY <1>1, <1>3, <1>4, SlotFacts DEF Advances
  <1>6. TypeOK' BY <1>1, <1>4 DEF CalendarInv, TypeOK, local
  <1>7. RemoteInv'
    BY <1>1, <1>3, <1>4, SlotFacts DEF CalendarInv, TypeOK, RemoteInv, Resources
  <1>8. StageInv'
    <2> SUFFICES ASSUME cmd # None PROVE StageInv' BY <1>1 DEF StageInv
    <2>1. cmd.op \in Slots BY CommandFacts, SlotFacts
    <2>. QED BY <1>1, <1>3, <1>4, <2>1, SlotFacts DEF CalendarInv, StageInv
  <1>9. WriteInv' BY <1>1, <1>3, <1>4, SlotFacts DEF CalendarInv, WriteInv
  <1>10. LossInv' BY <1>1, <1>3, <1>4 DEF CalendarInv, LossInv
  <1>. QED BY <1>1, <1>5, <1>6, <1>7, <1>8, <1>9, <1>10, OthersFrame DEF CalendarInv

\* Another client deletes the event, or a copy of it.
LEMMA ExternalDeleteStep ==
    ASSUME CalendarInv, NEW s \in Slots, ExternalDelete(s) PROVE CalendarInv'
  <1>1. /\ clock \in Nat /\ gone' = TRUE
        /\ UNCHANGED <<clock, hidden, local, ops, claim, cmd, failures, writes, made>>
    BY DEF CalendarInv, TypeOK, ExternalDelete
  <1>2. /\ remote' \in [Slots -> Resources \cup {None}] /\ remote'[s] = None
        /\ \A t \in Slots \ {s} : remote'[t] = remote[t]
    BY DEF CalendarInv, TypeOK, ExternalDelete
  <1>3. Advances BY <1>1, <1>2, SlotFacts DEF Advances
  <1>4. TypeOK' BY <1>1, <1>2 DEF CalendarInv, TypeOK, local
  <1>5. RemoteInv' BY <1>1, <1>2, SlotFacts DEF CalendarInv, RemoteInv
  <1>6. StageInv' BY <1>1, <1>2, SlotFacts DEF CalendarInv, StageInv
  <1>7. WriteInv' /\ LossInv' BY <1>1 DEF WriteInv, LossInv
  <1>. QED BY <1>1, <1>3, <1>4, <1>5, <1>6, <1>7, OthersFrame DEF CalendarInv

\* Another client rewrites the source with the same content.
LEMMA ExternalRewriteStep == ASSUME CalendarInv, ExternalRewrite PROVE CalendarInv'
  <1>1. /\ clock \in Nat /\ clock' = clock + 1 /\ hidden' \in {"now", "over"}
        /\ UNCHANGED <<local, ops, claim, cmd, failures, writes, made, gone>>
    BY DEF CalendarInv, TypeOK, ExternalRewrite, history
  <1>2. PICK c : c = [remote["src"] EXCEPT !.rev = clock + 1] OBVIOUS
  <1>3. remote["src"] # None /\ remote["src"] \in Resources
    BY SlotFacts DEF CalendarInv, TypeOK, ExternalRewrite
  <1>4. c \in Resources /\ c # None /\ c.body = remote["src"].body /\ c.rev = clock + 1
    BY <1>1, <1>2, <1>3, NoneAssumption DEF Resources
  <1>5. /\ remote' \in [Slots -> Resources \cup {None}] /\ remote'["src"] = c
        /\ \A t \in Slots \ {"src"} : remote'[t] = remote[t]
    BY <1>2, <1>4, SlotFacts DEF CalendarInv, TypeOK, ExternalRewrite
  <1>6. Advances BY <1>1, <1>3, <1>4, <1>5 DEF Advances
  <1>7. TypeOK' BY <1>1, <1>5 DEF CalendarInv, TypeOK, local
  <1>8. RemoteInv'
    BY <1>1, <1>3, <1>4, <1>5, SlotFacts DEF CalendarInv, TypeOK, RemoteInv, Resources
  <1>9. StageInv'
    <2> SUFFICES ASSUME cmd # None PROVE StageInv' BY <1>1 DEF StageInv
    <2>1. cmd.op \in Slots \ {"src"} BY CommandFacts, SlotFacts
    <2>. QED BY <1>1, <1>3, <1>5, <2>1 DEF CalendarInv, StageInv
  <1>10. WriteInv' BY <1>1, <1>3, <1>4, <1>5, SlotFacts DEF CalendarInv, WriteInv
  <1>11. LossInv' BY <1>1, <1>3, <1>4, <1>5, SlotFacts DEF CalendarInv, LossInv
  <1>. QED BY <1>1, <1>6, <1>7, <1>8, <1>9, <1>10, <1>11, OthersFrame DEF CalendarInv

-----------------------------------------------------------------------------
(* The invariant, and what follows from it.                                 *)

\* One event at the source, one row, nothing planned.
LEMMA CalendarInit == ASSUME Init PROVE CalendarInv
  <1>1. /\ Set({}, 0) \in Resources /\ Set({}, 0) # None
        /\ Set({}, 0).body = {} /\ Set({}, 0).rev = 0
    BY NoneAssumption DEF Set, Resources
  <1>2. PICK r \in Rows : rows = {r} BY DEF Init
  <1>3. TypeOK BY <1>1, <1>2 DEF Init, TypeOK
  <1>4. RemoteInv /\ DisplayInv
    BY <1>1, SlotFacts DEF Init, RemoteInv, DisplayInv, Genuine
  <1>5. JournalInv /\ CommandInv /\ StageInv /\ ClaimInv
    BY DEF Init, JournalInv, CommandInv, StageInv, ClaimInv
  <1>6. WriteInv BY DEF Init, WriteInv
  <1>7. LossInv BY <1>1, SlotFacts DEF Init, LossInv
  <1>8. CompletedInv /\ SingleInv BY DEF Init, CompletedInv, SingleInv, Movers
  <1>9. RowInv BY <1>2 DEF Init, RowInv, SameRow
  <1>. QED BY <1>3, <1>4, <1>5, <1>6, <1>7, <1>8, <1>9 DEF CalendarInv

\* Every step keeps the invariant.
THEOREM CalendarInductive == CalendarInv /\ [Next]_vars => CalendarInv'
  <1> SUFFICES ASSUME CalendarInv, [Next]_vars PROVE CalendarInv' OBVIOUS
  <1>1. ASSUME UNCHANGED vars PROVE CalendarInv'
    BY <1>1 DEF vars, CalendarInv, TypeOK, RemoteInv, DisplayInv, JournalInv, Sound, Genuine,
                CommandInv, StageInv, ClaimInv, WriteInv, LossInv, CompletedInv, RowInv, SameRow,
                SingleInv, Movers, Moves
  <1>2. ASSUME NEW r \in Rows, ReadEventSet(r) \/ ListOccurrences(r) PROVE CalendarInv'
    BY <1>2, ReadEventSetStep, ListOccurrencesStep
  <1>3. ASSUME NEW o \in Ops, NEW k \in Kinds, Plan(o, k) PROVE CalendarInv'
    BY <1>3, PlanStep
  <1>4. ASSUME NEW o \in Ops, NEW r \in Rows, PlanOccurrence(o, r) PROVE CalendarInv'
    BY <1>4, PlanOccurrenceStep
  <1>5. ASSUME NEW o \in Ops, Discard(o) \/ Execute(o) PROVE CalendarInv'
    BY <1>5, DiscardStep, ExecuteStep
  <1>6. ASSUME Sync PROVE CalendarInv' BY <1>6, SyncStep
  <1>7. ASSUME Abort PROVE CalendarInv' BY <1>7, AbortStep
  <1>8. ASSUME NEW s \in Slots, ExternalDelete(s) PROVE CalendarInv' BY <1>8, ExternalDeleteStep
  <1>9. ASSUME NEW s \in Slots, NEW x \in Edits, ExternalEdit(x, s) PROVE CalendarInv'
    BY <1>9, ExternalEditStep
  <1>10. ASSUME ExternalRewrite PROVE CalendarInv' BY <1>10, ExternalRewriteStep
  <1>11. ASSUME Command PROVE CalendarInv'
    <2>1. cmd # None /\ Running(cmd.op, cmd.mem) BY <1>11 DEF Command
    <2>2. PICK o, m : o = cmd.op /\ m = cmd.mem OBVIOUS
    <2>3. Running(o, m) BY <2>1, <2>2
    <2>. QED
      BY <2>1, <2>2, <2>3, RefreshEvictedStep, RecheckCanonicalStep, RefreshSourceStep, AdmitStep,
         ProbeNativeMoveStep, VerifySourceStep, ClaimSourceStep, MarkNativeMoveStep, MoveNativeStep,
         CreateCopyStep, CheckpointVerifiedStep, UpdateSourceStep, ReconcileUpdateStep,
         CheckpointUpdatedStep, PrepareRemovalStep, ExcludeOccurrenceStep, DeleteSourceStep,
         CheckpointRemovedStep, CommitStep
         DEF Running
  <1>. QED
    BY <1>1, <1>2, <1>3, <1>4, <1>5, <1>6, <1>7, <1>8, <1>9, <1>10, <1>11 DEF Next, User, Others

\* So it holds in every reachable state.
THEOREM CalendarInvariant == Spec => []CalendarInv
  <1>1. Init => CalendarInv BY CalendarInit
  <1>. QED BY <1>1, CalendarInductive, PTL DEF Spec

\* NothingLost: unless another client deletes it, the event exists, and every change
\* the provider accepted is in a copy that still exists (the conditional update,
\* exclusion and removal of commands/calendar_actions.rs).
THEOREM CalendarNothingLost == Spec => []NothingLost
  <1>1. CalendarInv => NothingLost BY DEF CalendarInv, LossInv, NothingLost
  <1>. QED BY <1>1, CalendarInvariant, PTL

\* WrittenOnce: however often an operation is resumed, it writes its content once.
THEOREM CalendarWrittenOnce == Spec => []WrittenOnce
  <1>1. CalendarInv => WrittenOnce BY DEF CalendarInv, WriteInv, WrittenOnce
  <1>. QED BY <1>1, CalendarInvariant, PTL

\* OneHome: a completed move has removed its source, and, as long as the source was
\* always readable, no second move copies what the first is moving.
THEOREM CalendarOneHome == Spec => []OneHome
  <1>1. ASSUME CalendarInv PROVE OneHome
    <2>1. \A o \in Movers : ops[o].stage = "Completed" => remote["src"] = None
      BY <1>1 DEF CalendarInv, CompletedInv
    <2>2. ASSUME hidden = "never" PROVE Cardinality({o \in Movers : writes[o] > 0}) <= 1
      <3> DEFINE W == {o \in Movers : writes[o] > 0}
      <3>1. \A o, p \in W : o = p BY <1>1, <2>2 DEF CalendarInv, SingleInv
      <3>2. CASE W = {} BY <3>2, FS_EmptySet
      <3>3. CASE W # {}
        <4>1. PICK o : o \in W BY <3>3
        <4>2. W = {o} BY <3>1, <4>1
        <4>. QED BY <4>2, FS_Singleton
      <3>. QED BY <3>2, <3>3
    <2>. QED BY <2>1, <2>2 DEF OneHome
  <1>. QED BY <1>1, CalendarInvariant, PTL

\* WritesAreClaimed: a command changes the provider only while its operation owns
\* every row it acts on (claim_operation).
THEOREM CalendarWritesAreClaimed == Spec => WritesAreClaimed
  <1> DEFINE Claims == cmd # None /\ cmd' # None /\ remote' # remote /\ cmd' # cmd
                          => \A r \in cmd.mem.members : claim[r] = cmd.op
  <1>1. ASSUME CalendarInv, [Next]_vars PROVE [Claims]_vars
    <2> SUFFICES ASSUME Next, cmd # None, remote' # remote, cmd' # cmd,
                        NEW r \in cmd.mem.members
                 PROVE  claim[r] = cmd.op
      BY <1>1 DEF vars
    <2>1. ~(User \/ Sync \/ Abort \/ Others)
      BY DEF User, ReadEventSet, ListOccurrences, Plan, PlanOccurrence, Discard, Execute, Sync, Abort,
             Others, ExternalDelete, ExternalEdit, ExternalRewrite, KeepRemote
    <2>2. cmd.pc \in {"move", "create", "update", "source"}
      BY <2>1 DEF Next, Command, Running, RefreshEvicted, RecheckCanonical, RefreshSource, Admit,
             ProbeNativeMove, VerifySource, ClaimSource, MarkNativeMove, MoveNative, CreateCopy,
             CheckpointVerified, UpdateSource, ReconcileUpdate, CheckpointUpdated, PrepareRemoval,
             ExcludeOccurrence, DeleteSource, CheckpointRemoved, Commit, KeepRemote, At
    <2>3. cmd.mem.stage \notin {"Planned", "Completed"}
      BY <1>1, <2>2, CommandFacts DEF CalendarInv, StageInv
    <2>. QED BY <1>1, <2>3, CommandFacts DEF CalendarInv, ClaimInv, Agrees
  <1>. QED BY <1>1, CalendarInvariant, PTL DEF Spec, WritesAreClaimed

=============================================================================
