---------------------------- MODULE ContactSync ----------------------------
(***************************************************************************)
(* One address book kept in step with its provider: the contact commands   *)
(* (src-tauri/src/commands/contacts.rs), the four contact backends         *)
(* (src-tauri/src/backend/contacts/) and the reconciler the managed ones   *)
(* share (src-tauri/src/contact/reconcile.rs).                             *)
(*                                                                         *)
(* Commands and syncs of an account run one at a time, under the account's *)
(* lifecycle lock, so `op` is the one that runs.  What makes the book hard *)
(* is on the other side: other clients change the same cards between a     *)
(* listing and its use, a request is applied and its answer lost, and the  *)
(* program stops between the server's write and the local one.             *)
(*                                                                         *)
(* Stamps number everything: the contents of a contact (its `val`, which   *)
(* is also the ETag of a card that holds it), the ids of cards, the UIDs   *)
(* and the positions of the change feed (`rev`).  0 stands for "none".     *)
(* A CardDAV id is a resource name: this client puts UID u under name u,   *)
(* another client chooses as it likes.                                     *)
(***************************************************************************)
EXTENDS Integers, FiniteSets, FiniteSetsExt, Functions

CONSTANTS Providers,   \* the providers the instance explores
          Events       \* bound: changes by other clients, commands, failures and
                       \* expired cursors

\* An event takes at most three stamps, and adds at most one row; a contact an
\* earlier version left without a card takes one stamp more.  Only a CardDAV
\* book with two cards of one UID adds a row at every sync: see Inserted.
Stamps == 1 .. 3 + 3 * Events
Rows == 1 .. 2 + Events

ASSUME ProvidersAssumption == Providers \subseteq {"google", "graph", "jmap", "carddav"}
ASSUME EventsAssumption == Events \in Nat

VARIABLES provider,  \* the provider of the book
          clock,     \* the last stamp given
          cards,     \* the server's cards by id
          rows,      \* the contacts table, one slot per row
          google,    \* the durable Google state: cursor, absences, recoveries
          op,        \* the command or sync holding the account's lock
          budget     \* the events left

vars == <<provider, clock, cards, rows, google, op, budget>>

----------------------------------------------------------------------------
(* The server *)

\* A card that does not exist, and an empty slot of the table.
NoCard == [state |-> "none", val |-> 0, uid |-> 0, rev |-> 0, prev |-> {}]
NoRow == [val |-> 0, id |-> 0, uid |-> 0, etag |-> 0]

\* A resource name stands for the contact that took it over, if one did.
Resolve(i) == IF cards[i].state = "moved"
              THEN CHOOSE j \in Stamps : i \in cards[j].prev
              ELSE i

\* A card this client has just created may not be readable yet ("hidden").
Readable(i) == i # 0 /\ cards[i].state = "live"
Exists(i) == i # 0 /\ cards[i].state \in {"live", "hidden"}
Live == {i \in Stamps : cards[i].state = "live"}

Written(i, v) == [cards EXCEPT ![i].val = v, ![i].rev = clock + 1]
Removed(i) == [cards EXCEPT ![i].state = "dead", ![i].rev = clock + 1]
Added(i, v, u, st) ==
    [cards EXCEPT ![i] = [state |-> st, val |-> v, uid |-> u, rev |-> clock + 1, prev |-> {}]]

\* A CardDAV card may have a name that is not its UID, or no UID in its vCard,
\* where the listing takes the name for it.
OtherCreates ==
    \E u \in {clock + 1} \cup (IF provider = "carddav" THEN {clock + 2} ELSE {}) :
        /\ cards' = Added(clock + 1, clock + 1, u, "live")
        /\ clock' = u

OtherEdits(i) ==
    /\ cards' = Written(i, clock + 1)
    /\ clock' = clock + 1

OtherDeletes(i) ==
    /\ cards' = Removed(i)
    /\ clock' = clock + 1

\* The contact gets a new id: Google keeps the old name as an alias, a JMAP
\* server only keeps the UID.
OtherRenames(i) ==
    /\ provider \in {"google", "jmap"}
    /\ LET alias == provider = "google"
           prev == IF alias THEN cards[i].prev \cup {i} ELSE {}
       IN cards' = [cards EXCEPT ![clock + 1] = [cards[i] EXCEPT !.rev = clock + 1, !.prev = prev],
                                 ![i] = [NoCard EXCEPT !.state = IF alias THEN "moved" ELSE "dead"]]
    /\ clock' = clock + 1

OtherChange ==
    /\ budget > 0
    /\ OtherCreates \/ \E i \in Live : OtherEdits(i) \/ OtherDeletes(i) \/ OtherRenames(i)
    /\ budget' = budget - 1
    /\ UNCHANGED <<provider, rows, google, op>>

\* The propagation allowance passes: what was written becomes readable, and
\* the absences noted before it are old enough to count.
Tick ==
    /\ \E i \in Stamps : cards[i].state = "hidden" \/ google.absent[i] = 1
    /\ LET late == {i \in Stamps : cards[i].state = "hidden"}
       IN /\ cards' = [i \in Stamps |->
                         IF i \in late THEN [cards[i] EXCEPT !.state = "live", !.rev = clock + 1]
                         ELSE cards[i]]
          /\ clock' = IF late = {} THEN clock ELSE clock + 1
    /\ google' = [google EXCEPT !.absent = [i \in Stamps |-> IF @[i] = 1 THEN 2 ELSE @[i]]]
    /\ UNCHANGED <<provider, rows, op, budget>>

----------------------------------------------------------------------------
(* The local table *)

Stored(rs) == {r \in Rows : rs[r] # NoRow}
Holders(rs, i) == {r \in Stored(rs) : rs[r].id = i}
Named(rs, u) == {r \in Stored(rs) : u # 0 /\ rs[r].uid = u}
Known == {rows[r].id : r \in Stored(rows)} \ {0}

\* New rows take free slots.  The bound: a book that grows at every sync stops
\* growing when they are used up.
Inserted(rs, new) ==
    LET slots == Injection(new, Rows \ Stored(rs))
        slot == CHOOSE f \in slots : TRUE
    IN [r \in Rows |-> IF slots # {} /\ \E n \in new : slot[n] = r
                       THEN CHOOSE n \in new : slot[n] = r
                       ELSE rs[r]]

\* repair_duplicate_managed_remote_ids: of the rows with one id the one with
\* a UID keeps it, then the oldest; the others become local-only.
Keeper(rs, i) ==
    LET h == Holders(rs, i)
        u == {r \in h : rs[r].uid # 0}
    IN Min(IF u = {} THEN h ELSE u)

Repaired(rs) ==
    [r \in Rows |-> IF rs[r].id # 0 /\ r # Keeper(rs, rs[r].id)
                    THEN [rs[r] EXCEPT !.id = 0] ELSE rs[r]]

Idle == [pc |-> "idle"]
Pending(n) == [google EXCEPT !.recoveries = IF provider = "google" THEN @ + n ELSE @]

----------------------------------------------------------------------------
(* Commands: the local transaction, the push, the returned metadata *)

Push(kind, r, i) == [pc |-> "push", kind |-> kind, row |-> r, id |-> i]

\* JMAP creates are left to the next sync.
PushOf(r, row) ==
    CASE row.id # 0 -> Push("update", r, row.id)
      [] row.id = 0 /\ provider = "jmap" -> Idle
      [] OTHER -> Push("create", r, 0)

Create ==
    /\ Stored(rows) # Rows
    /\ LET r == Min(Rows \ Stored(rows))
           row == [NoRow EXCEPT !.val = clock + 1, !.uid = clock + 1]
       IN rows' = [rows EXCEPT ![r] = row] /\ op' = PushOf(r, row)
    /\ clock' = clock + 1
    /\ google' = Pending(1)

\* The user saves new contents, or the same again.
Update(r) ==
    /\ \E v \in {rows[r].val, clock + 1} :
         /\ rows' = [rows EXCEPT ![r].val = v]
         /\ clock' = IF v > clock THEN v ELSE clock
    /\ op' = PushOf(r, rows[r])
    /\ google' = Pending(1)

\* The remote card is spared while another row of the book uses its id.
DeleteRemote(r) == rows[r].id # 0 /\ Holders(rows, rows[r].id) = {r}

Delete(r) ==
    /\ rows' = [rows EXCEPT ![r] = NoRow]
    /\ op' = IF DeleteRemote(r) THEN Push("delete", r, rows[r].id) ELSE Idle
    /\ google' = IF DeleteRemote(r) THEN Pending(1) ELSE google
    /\ UNCHANGED clock

Command ==
    /\ op = Idle /\ budget > 0
    /\ Create \/ \E r \in Stored(rows) : Update(r) \/ Delete(r)
    /\ budget' = budget - 1
    /\ UNCHANGED <<provider, cards>>

\* update_contact of each client.  Google reads the person first, writes only
\* what differs, and refuses when the row's ETag is not the current one.
\* CardDAV puts the card under its UID whatever is there, and whatever name
\* the row has stored.
GoogleAccepts(i, row) == Readable(i) /\ (cards[i].val = row.val \/ cards[i].val = row.etag)

Accepted ==
    LET row == rows[op.row]
        i == Resolve(op.id)
    IN CASE op.kind = "create" -> TRUE
         [] op.kind = "delete" -> Exists(i)
         [] op.kind = "update" /\ provider = "google" -> GoogleAccepts(i, row)
         [] op.kind = "update" /\ provider = "carddav" -> TRUE
         [] OTHER -> Readable(i)

\* The card the request leaves behind, and its id.
Target ==
    CASE op.kind = "create" /\ provider # "carddav" -> clock + 1
      [] op.kind \in {"create", "update"} /\ provider = "carddav" -> rows[op.row].uid
      [] OTHER -> Resolve(op.id)

\* A CardDAV server may refuse a second card of one UID.
UidTaken ==
    /\ provider = "carddav" /\ op.kind # "delete"
    /\ \E i \in Live : i # Target /\ cards[i].uid = rows[op.row].uid

Served ==
    /\ IF op.kind = "delete" THEN cards' = Removed(Target)
       ELSE IF Exists(Target)
            THEN cards' = IF cards[Target].val = rows[op.row].val THEN cards
                          ELSE Written(Target, rows[op.row].val)
            ELSE \E st \in {"live"} \cup (IF provider = "google" THEN {"hidden"} ELSE {}) :
                   cards' = Added(Target, rows[op.row].val, rows[op.row].uid, st)
    /\ clock' = IF cards' = cards THEN clock ELSE clock + 1

\* Google answers a missing contact's deletion as done; the others refuse it.
PushAnswered ==
    /\ op.pc = "push"
    /\ \/ /\ Accepted /\ Served
          /\ op' = [pc |-> "persist", kind |-> op.kind, row |-> op.row, id |-> Target]
       \/ /\ ~Accepted \/ UidTaken
          /\ op' = IF op.kind = "delete" /\ provider = "google"
                   THEN [pc |-> "persist", kind |-> "delete", row |-> op.row, id |-> op.id]
                   ELSE Idle
          /\ UNCHANGED <<cards, clock>>
    /\ UNCHANGED <<provider, rows, google, budget>>

\* persist_pushed_metadata and complete_local_mutation, in one transaction.
\* Graph and JMAP updates return nothing to store, a CardDAV update no id.  The
\* ETag of a CardDAV answer keeps its quotes or is empty: no listing, which
\* trims them, will show an equal one (0).
Returned(row) ==
    [row EXCEPT
        !.id = IF op.kind = "create" \/ provider = "google" THEN op.id ELSE @,
        !.etag = CASE provider = "google" -> row.val
                   [] provider = "carddav" -> 0
                   [] OTHER -> @]

Persist ==
    /\ op.pc = "persist"
    /\ rows' = IF op.kind = "delete" THEN rows
               ELSE [rows EXCEPT ![op.row] = Returned(@)]
    /\ google' = Pending(-1)
    /\ op' = Idle
    /\ UNCHANGED <<provider, clock, cards, budget>>

\* The compensating delete of a card whose id could not be stored.
Undo ==
    /\ op.pc = "undo"
    /\ IF Exists(Resolve(op.id))
       THEN cards' = Removed(Resolve(op.id)) /\ clock' = clock + 1
       ELSE UNCHANGED <<cards, clock>>
    /\ op' = Idle
    /\ UNCHANGED <<provider, rows, google, budget>>

----------------------------------------------------------------------------
(* Graph, JMAP and CardDAV: a listing, reconciled as a complete snapshot *)

Listing(ids) == [i \in ids |-> [val |-> cards[i].val, uid |-> cards[i].uid]]

\* A listing to reconcile; `torn` when it is not one state of the server.
Listed(seen, torn) == [pc |-> "apply", seen |-> seen, torn |-> torn]

\* JMAP compares the states of the query and of the objects and CardDAV asks
\* once.  Graph pages by position; two pages stand for any number.
SnapshotList ==
    /\ op = Idle
    /\ \/ provider \in {"jmap", "carddav"} /\ op' = Listed(Listing(Live), FALSE)
       \/ /\ provider = "graph"
          /\ \E first \in SUBSET Live :
               op' = IF first = Live THEN Listed(Listing(first), FALSE)
                     ELSE [pc |-> "page", seen |-> Listing(first), at |-> clock]
    /\ UNCHANGED <<provider, clock, cards, rows, google, budget>>

\* CardDAV takes a body it cannot parse for an empty book, and leaves out the
\* cards that come without data.
ListShort ==
    /\ op = Idle /\ provider = "carddav" /\ budget > 0
    /\ \E some \in SUBSET Live : some # Live /\ op' = Listed(Listing(some), TRUE)
    /\ budget' = budget - 1
    /\ UNCHANGED <<provider, clock, cards, rows, google>>

\* The second page begins as many contacts on as the first had.  A contact
\* changes its place only when it is changed, so the contacts skipped are those
\* of the first page, save for the changes since.
Since(i) == cards[i].rev > op.at

Skipped ==
    LET first == DOMAIN op.seen
    IN {skip \in SUBSET Live :
          /\ Cardinality(skip) = Min({Cardinality(Live), Cardinality(first)})
          /\ \A i \in skip \ first, j \in (first \cap Live) \ skip : Since(i) \/ Since(j)}

\* A contact on both pages makes the snapshot invalid (CompleteRemoteIdSnapshot).
GraphPage ==
    /\ op.pc = "page"
    /\ \E skip \in Skipped :
         LET rest == Listing(Live \ skip)
             both == DOMAIN op.seen \cap DOMAIN rest
             all == [i \in DOMAIN op.seen \cup DOMAIN rest |->
                       IF i \in DOMAIN rest THEN rest[i] ELSE op.seen[i]]
         IN op' = IF both = {} THEN Listed(all, \E i \in Stamps : Since(i)) ELSE Idle
    /\ UNCHANGED <<provider, clock, cards, rows, google, budget>>

\* The row of a listed card: by id, by id and then UID, or by UID alone.
Match(rs, i, c) ==
    CASE provider = "graph" -> Holders(rs, i)
      [] provider = "jmap" -> IF Holders(rs, i) # {} THEN Holders(rs, i) ELSE Named(rs, c.uid)
      [] OTHER -> Named(rs, c.uid)

\* Graph and JMAP leave the ETag column alone; CardDAV compares it, and an
\* equal one leaves the whole row alone.
Patched(row, i, c) ==
    CASE provider = "graph" -> [row EXCEPT !.val = c.val, !.id = i]
      [] provider = "jmap" -> [row EXCEPT !.val = c.val, !.id = i, !.uid = c.uid]
      [] OTHER -> IF row.etag = c.val THEN row
                  ELSE [row EXCEPT !.val = c.val, !.id = i, !.etag = c.val]

NewRow(i, c) ==
    [NoRow EXCEPT !.val = c.val, !.id = i,
                  !.uid = IF provider = "graph" THEN 0 ELSE c.uid,
                  !.etag = IF provider = "carddav" THEN c.val ELSE 0]

\* CardDAV looks its cards up in a map with one row of each UID, which the
\* first card of that UID uses up.  The others use every row and every card.
Picks(S, uid) ==
    IF provider # "carddav" THEN {S}
    ELSE {T \in SUBSET S : /\ \A x \in S : \E y \in T : uid[y] = uid[x]
                           /\ \A x, y \in T : uid[x] = uid[y] => x = y}

RowPicks(rs) == Picks(Stored(rs), [r \in Rows |-> rs[r].uid])
CardPicks(seen) == Picks(DOMAIN seen, [i \in DOMAIN seen |-> seen[i].uid])

\* `mine` are the rows and `first` the cards that can meet; a card that meets
\* no row is inserted.
Upserted(rs, seen, mine, first) ==
    LET rowOf(r) == {i \in first : r \in mine \cap Match(rs, i, seen[i])}
        new == {i \in DOMAIN seen : i \notin first \/ Match(rs, i, seen[i]) = {}}
        patched == [r \in Rows |-> IF rowOf(r) = {} THEN rs[r]
                                   ELSE LET i == CHOOSE i \in rowOf(r) : TRUE
                                        IN Patched(rs[r], i, seen[i])]
    IN Inserted(patched, {NewRow(i, seen[i]) : i \in new})

\* Rows of cards that are not listed go, local-only rows stay.
Orphans(rs, seen, mine) ==
    {r \in mine : rs[r].id # 0 /\ \A i \in DOMAIN seen : r \notin Match(rs, i, seen[i])}

Without(rs, gone) == [r \in Rows |-> IF r \in gone THEN NoRow ELSE rs[r]]
Reconciled(rs, seen, mine, first) ==
    Without(Upserted(rs, seen, mine, first), Orphans(rs, seen, mine))

Unpushed(rs) == {r \in Stored(rs) : rs[r].id = 0}

\* JMAP fails closed when an id and a UID point at different rows, when a UID
\* is not unique before or after, or when a card to create exists already.
Ambiguous(before, after, seen) ==
    /\ provider = "jmap"
    /\ \/ \E i, j \in DOMAIN seen : i # j /\ seen[i].uid = seen[j].uid
       \/ \E i \in DOMAIN seen : Cardinality(Holders(before, i) \cup Named(before, seen[i].uid)) > 1
       \/ \E r \in Rows : Cardinality(Named(before, before[r].uid)) > 1
       \/ \E r \in Rows : Cardinality(Named(after, after[r].uid)) > 1
       \/ \E r \in Unpushed(after), i \in DOMAIN seen : after[r].uid = seen[i].uid

SnapshotApply ==
    /\ op.pc = "apply"
    /\ \E before \in {IF provider = "graph" THEN Repaired(rows) ELSE rows} :
       \E mine \in RowPicks(before), first \in CardPicks(op.seen) :
       \E after \in {Reconciled(before, op.seen, mine, first)} :
         IF Ambiguous(before, after, op.seen)
         THEN op' = Idle /\ UNCHANGED rows
         ELSE /\ rows' = after
              /\ op' = IF provider = "jmap" /\ Unpushed(after) # {}
                       THEN [pc |-> "deferred", todo |-> Unpushed(after)] ELSE Idle
    /\ UNCHANGED <<provider, clock, cards, google, budget>>

\* CardDAV commits row by row, removals last: a crash keeps what was done.
CardDavCut ==
    /\ op.pc = "apply" /\ provider = "carddav" /\ budget > 0
    /\ \E part \in SUBSET DOMAIN op.seen, mine \in RowPicks(rows) :
       \E some \in {[i \in part |-> op.seen[i]]} :
       \E first \in CardPicks(some), gone \in SUBSET Orphans(rows, op.seen, mine) :
         /\ part # DOMAIN op.seen => gone = {}
         /\ rows' = Without(Upserted(rows, some, mine, first), gone)
    /\ op' = Idle
    /\ budget' = budget - 1
    /\ UNCHANGED <<provider, clock, cards, google>>

\* The deferred JMAP creates, oldest first: the UID is stored before the card
\* is created, the returned id after.
WithUid(r) == [rows EXCEPT ![r].uid = IF @ = 0 THEN clock + 1 ELSE @]

\* Mutant: the card gets a UID the row does not have yet.
DeferredCreateUnsavedUid ==
    /\ op.pc = "deferred"
    /\ LET r == Min(op.todo)
       IN /\ cards' = Added(clock + 1, rows[r].val, clock + 1, "live")
          /\ op' = [pc |-> "attach", row |-> r, id |-> clock + 1, todo |-> op.todo \ {r}]
    /\ clock' = clock + 1
    /\ UNCHANGED <<provider, rows, google, budget>>

DeferredCreate ==
    /\ op.pc = "deferred"
    /\ LET r == Min(op.todo)
       IN /\ rows' = WithUid(r)
          /\ cards' = Added(clock + 1, rows[r].val, rows'[r].uid, "live")
          /\ op' = [pc |-> "attach", row |-> r, id |-> clock + 1, todo |-> op.todo \ {r}]
    /\ clock' = clock + 1
    /\ UNCHANGED <<provider, google, budget>>

Attach ==
    /\ op.pc = "attach"
    /\ rows' = [rows EXCEPT ![op.row].id = op.id]
    /\ op' = IF op.todo = {} THEN Idle ELSE [pc |-> "deferred", todo |-> op.todo]
    /\ UNCHANGED <<provider, clock, cards, google, budget>>

----------------------------------------------------------------------------
(* Google: changes since the cursor, details looked up, a delta applied *)

\* Mutant: outstanding recoveries do not force a full listing.
CursorKept == google.token

\* An outstanding recovery, a missing or an expired cursor (410) lists
\* everything.
Cursor == IF google.recoveries > 0 THEN 0 ELSE google.token

GoogleList ==
    /\ op = Idle /\ provider = "google"
    /\ \E from \in {0, Cursor} :
         /\ budget' = IF from = Cursor THEN budget ELSE budget - 1
         /\ budget' >= 0
         /\ LET full == from = 0
                dead == {i \in Stamps : cards[i].state = "dead" /\ cards[i].rev > from}
            IN op' = [pc |-> "lookup", full |-> full, goal |-> clock,
                      listed |-> [i \in {i \in Live : cards[i].rev > from} |-> cards[i].prev],
                      deleted |-> IF full THEN {} ELSE dead \cup UNION {cards[i].prev : i \in dead}]
    /\ UNCHANGED <<provider, clock, cards, rows, google>>

\* google_lookup_resource_names and get_contacts_batch: the details of what
\* is listed and, on a full listing or for a noted absence, of what is known.
LookupNames ==
    (DOMAIN op.listed
       \cup (IF op.full THEN Known ELSE {i \in Known : google.absent[i] # 0})) \ op.deleted

Missing == [id |-> 0, val |-> 0]
Found == [n \in LookupNames |->
            LET i == Resolve(n)
            IN IF Readable(i) THEN [id |-> i, val |-> cards[i].val] ELSE Missing]

\* The contacts found, by id: contents and every other name the answers tie
\* to the contact (its aggregate in prepare_google_delta).
Aggregates(found) ==
    [i \in {found[n].id : n \in DOMAIN found} \ {0} |->
        LET names == {n \in DOMAIN found : found[n].id = i}
        IN [val |-> cards[i].val,
            aliases |-> (names \cup UNION {op.listed[n] : n \in names \cap DOMAIN op.listed}) \ {i}]]

AliasesOf(agg) == UNION {agg[i].aliases : i \in DOMAIN agg}

\* The row of a contact: by its name or by an alias.
RowsOf(rs, agg, i) == {r \in Stored(rs) : rs[r].id \in {i} \cup agg[i].aliases}

\* A listed contact without details, a contact both deleted and alive, or
\* names that cross: the pass fails and nothing is stored.
Unusable(rs, agg, absent) ==
    \/ DOMAIN op.listed \cap absent # {}
    \/ (DOMAIN agg \cup AliasesOf(agg)) \cap op.deleted # {}
    \/ DOMAIN agg \cap AliasesOf(agg) # {}
    \/ \E i, j \in DOMAIN agg : i # j /\ agg[i].aliases \cap agg[j].aliases # {}
    \/ \E i \in DOMAIN agg : Cardinality(RowsOf(rs, agg, i)) > 1

\* Mutant: a second look is enough, however soon.
ConfirmedTooSoon(absent) == {n \in absent : google.absent[n] # 0}

\* An absence deletes only when it was noted before, long enough ago.
Confirmed(absent) == {n \in absent : google.absent[n] = 2}

\* The noted absences: those just seen, and those of known contacts the pass
\* says nothing of.
Absences(settled, absent) ==
    [i \in Stamps |->
        IF i \in absent \ Confirmed(absent) THEN Max({1, google.absent[i]})
        ELSE IF i \in Known \ (settled \cup absent) THEN google.absent[i] ELSE 0]

GoogleRows(rs, agg, deleted) ==
    LET detail(r) == {i \in DOMAIN agg : r \in RowsOf(rs, agg, i)}
        patched == [r \in Rows |->
                      IF rs[r].id \in deleted THEN NoRow
                      ELSE IF detail(r) = {} THEN rs[r]
                      ELSE LET i == CHOOSE i \in detail(r) : TRUE
                           IN [rs[r] EXCEPT !.val = agg[i].val, !.id = i, !.etag = agg[i].val]]
        new == {i \in DOMAIN agg : RowsOf(rs, agg, i) = {}}
    IN Inserted(patched, {[val |-> agg[i].val, id |-> i, uid |-> 0, etag |-> agg[i].val] : i \in new})

\* The details arrive, the delta is prepared, and the repair, the delta, the
\* absences and the cursor commit together.
GoogleMerge ==
    /\ op.pc = "lookup"
    /\ \E found \in {Found} : \E agg \in {Aggregates(found)} : \E rs \in {Repaired(rows)} :
         LET missing == {n \in DOMAIN found : found[n] = Missing}
             absent == missing \ AliasesOf(agg)
             settled == DOMAIN found \cup AliasesOf(agg) \cup op.deleted
         IN IF Unusable(rs, agg, missing)
            THEN UNCHANGED <<rows, google>>
            ELSE /\ rows' = GoogleRows(rs, agg, op.deleted \cup Confirmed(absent))
                 /\ google' = [token |-> op.goal, absent |-> Absences(settled, absent),
                               recoveries |-> 0]
    /\ op' = Idle
    /\ UNCHANGED <<provider, clock, cards, budget>>

----------------------------------------------------------------------------
(* Failures *)

\* A request is refused or never sent, the local write fails, the program
\* stops.  A create whose id could not be stored is compensated, unless it is
\* the program that stopped.  What was committed on the way stays: the UID of
\* a deferred create, Graph's repair.
Fail ==
    /\ op # Idle /\ budget > 0
    /\ op' \in {Idle} \cup
         (IF op.pc = "attach" \/ (op.pc = "persist" /\ op.kind = "create")
          THEN {[pc |-> "undo", id |-> op.id]} ELSE {})
    /\ \/ rows' = IF op.pc = "deferred" THEN WithUid(Min(op.todo)) ELSE rows
       \/ op.pc = "apply" /\ provider = "graph" /\ rows' = Repaired(rows)
    /\ clock' = IF op.pc = "deferred" /\ rows' # rows THEN clock + 1 ELSE clock
    /\ budget' = budget - 1
    /\ UNCHANGED <<provider, cards, google>>

\* The server does what it was asked and the answer never arrives.
AnswerLost ==
    /\ budget > 0
    /\ \/ /\ op.pc = "push" /\ Accepted /\ Served /\ UNCHANGED rows
       \/ /\ op.pc = "deferred"
          /\ rows' = WithUid(Min(op.todo))
          /\ cards' = Added(clock + 1, rows[Min(op.todo)].val, rows'[Min(op.todo)].uid, "live")
          /\ clock' = clock + 1
    /\ op' = Idle
    /\ budget' = budget - 1
    /\ UNCHANGED <<provider, google>>

----------------------------------------------------------------------------

\* Rows an earlier version left: duplicate ids at Google and Graph (the
\* younger has the UID), a JMAP contact that was never given a UID.  A CardDAV
\* row has the UID of its card.
Legacy(p, uid) ==
    LET row(i, u) == [val |-> IF i = 0 THEN 2 ELSE 1, id |-> i, uid |-> u, etag |-> i]
    IN CASE p \in {"google", "graph"} -> <<row(1, 0), row(1, 1)>>
         [] p = "jmap" -> <<row(0, 0)>>
         [] OTHER -> <<row(1, uid)>>

Init ==
    /\ provider \in Providers
    /\ clock = 2
    /\ \E uid \in {1} \cup (IF provider = "carddav" THEN {2} ELSE {}) :
         cards = [i \in Stamps |->
                    IF i = 1 THEN [state |-> "live", val |-> 1, uid |-> uid, rev |-> 1, prev |-> {}]
                    ELSE NoCard]
    /\ \E old \in {<<>>, Legacy(provider, cards[1].uid)} :
         rows = [r \in Rows |-> IF r \in DOMAIN old THEN old[r] ELSE NoRow]
    /\ google = [token |-> 0, absent |-> [i \in Stamps |-> 0], recoveries |-> 0]
    /\ op = Idle
    /\ budget \in 0 .. Events

Continue ==
    \/ PushAnswered \/ Persist \/ Undo
    \/ GraphPage \/ SnapshotApply \/ DeferredCreate \/ Attach
    \/ GoogleMerge

Sync == SnapshotList \/ GoogleList

Next == OtherChange \/ Tick \/ Command \/ Continue \/ Sync \/ ListShort \/ CardDavCut \/ Fail \/ AnswerLost

Spec == Init /\ [][Next]_vars

\* A command or sync that holds the lock goes on, the lock goes to every sync
\* that asks for it, and time passes.
Fairness == WF_vars(Sync \/ Continue) /\ WF_vars(Tick)
FairSpec == Spec /\ Fairness

----------------------------------------------------------------------------
(* Properties *)

\* The cards that are the contact of a row.
ContactOf(row) ==
    {i \in Stamps : /\ Exists(i)
                    /\ \/ row.id # 0 /\ Resolve(row.id) = i
                       \/ provider \in {"jmap", "carddav"} /\ cards[i].uid = row.uid}

\* There have been two cards of one UID, one of them made by an update that
\* missed the other.
Doubled(u) == u # 0 /\ \E i, j \in Stamps : i # j /\ cards[i].uid = u /\ cards[j].uid = u

\* A sync takes a row away only when its contact is gone from the server: not
\* because the contact was renamed, was not yet readable, was listed before
\* it changed, or because an earlier pass stopped half-way (reconcile.rs keeps
\* the row, and with it the notes and addresses only it has).  The code does
\* not keep this for a listing that is not one state of the server.
LivingContactsKept ==
    [][\A r \in Stored(rows) :
         (rows[r].id # 0 /\ op.pc \in {"apply", "lookup"} /\ rows'[r] = NoRow)
           => \/ ContactOf(rows[r]) = {}
              \/ op.pc = "apply" /\ op.torn]_vars

\* Where cards carry our UID an interrupted create is never done twice,
\* whatever was lost (jmap.rs, carddav.rs): with JMAP no UID and no contents
\* (each write has a stamp of its own) on two cards, nor in two rows; with
\* CardDAV no UID in two rows before there were two cards of it.
NoTwin ==
    /\ provider = "jmap" =>
         /\ \A i, j \in Live : i # j => cards[i].uid # cards[j].uid /\ cards[i].val # cards[j].val
         /\ \A r, s \in Stored(rows) : r # s => /\ rows[r].val # rows[s].val
                                                /\ rows[r].uid # rows[s].uid \/ rows[r].uid = 0
    /\ provider = "carddav" =>
         \A r, s \in Stored(rows) : r # s /\ rows[r].uid = rows[s].uid => Doubled(rows[r].uid)

\* The book shows the server's contacts: each by exactly one row that has its
\* id and contents, and no row for a card that is gone.  CardDAV leaves a row
\* alone whose ETag is current, also one whose edit was never pushed.
Mirrored ==
    /\ \A i \in Live :
         /\ Cardinality(Holders(rows, i)) = 1
         /\ \A r \in Holders(rows, i) :
              rows[r].val = cards[i].val \/ (provider = "carddav" /\ rows[r].etag = cards[i].val)
    /\ \A r \in Stored(rows) :
         /\ rows[r].id # 0 => Readable(rows[r].id)
         /\ provider = "jmap" => rows[r].id # 0

\* One contact under an old and a new name in two rows: an earlier version
\* left them with one id, and the contact was renamed and one of them updated
\* before a sync had detached the other.  The delta then fails closed at every
\* sync (match_delta_rows).
Crossed ==
    \E r, s \in Stored(rows) :
      /\ rows[r].id # rows[s].id /\ rows[r].id # 0 /\ rows[s].id # 0
      /\ Resolve(rows[r].id) = Resolve(rows[s].id)

\* Once the other clients, the user and the failures are quiet the syncs make
\* the book the server's: a failed or half-done push is undone or adopted, by
\* the recovery count at Google and by the full listing elsewhere.  Crossed
\* names and a CardDAV book that had two cards of one UID are the exceptions.
ContactsMirrored ==
    <>[](Mirrored \/ Crossed \/ (provider = "carddav" /\ \E u \in Stamps : Doubled(u)))

============================================================================
