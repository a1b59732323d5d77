----------------------------- MODULE FolderSync -----------------------------
(***************************************************************************)
(* The local mirror of one mail folder, kept by sync passes against a      *)
(* server that other clients change while a pass runs, and cut short       *)
(* anywhere. IMAP: UIDs above a watermark, with UIDVALIDITY and a preflight *)
(* on UIDNEXT and EXISTS. JMAP: Email/changes from a stored state, or a    *)
(* paged listing. Graph: delta pages with a resume link.                   *)
(*                                                                         *)
(* Source: mail/sync.rs, mail/imap.rs, mail/jmap_sync.rs, mail/jmap/mail.rs, *)
(* backend/mail/graph.rs, filters/service.rs, db/folders.rs and            *)
(* db/messages.rs. The mail-sync guard (module MailSync) and the folder's  *)
(* lock leave one pass at a time. A step is a request with the transaction *)
(* that stores its answer, or a transaction of its own.                    *)
(*                                                                         *)
(* A key is a UID, or the provider's id of a message. Messages arrive in   *)
(* the order of their keys.                                                *)
(***************************************************************************)
EXTENDS Naturals, FiniteSets, FiniteSetsExt

CONSTANTS
    Protocols,    \* which of "imap", "jmap", "graph"
    MaxKey,       \* bound on keys
    PageSize,     \* messages in one request
    MaxPages,     \* Graph: pages in one pass (25 in the code)
    MaxEpoch,     \* bound on UIDVALIDITY
    MaxChanges,   \* bound on changes by other clients
    MaxFailures,  \* bound on failed requests and passes cut short
    UserOps,      \* what the user does to a message: "delete", "read"
    Filed,        \* the messages a filter rule moves away
    None

ASSUME FolderAssumption ==
    /\ Protocols \subseteq {"imap", "jmap", "graph"} /\ UserOps \subseteq {"delete", "read"}
    /\ MaxKey \in Nat \ {0} /\ PageSize \in Nat \ {0} /\ MaxPages \in Nat \ {0}
    /\ MaxEpoch \in Nat \ {0} /\ MaxChanges \in Nat /\ MaxFailures \in Nat

Keys == 1..MaxKey
Row(m, s) == [msg |-> m, seen |-> s]

\* What a row, a message, a Graph link and a change of the user's are.
Shown == [msg : Keys, seen : BOOLEAN]
Messages == [msg : Keys, seen : BOOLEAN, here : BOOLEAN]
Links == [todo : SUBSET Keys, goal : Nat]
Changes == [key : Keys, op : {"delete", "read"}]

ASSUME NoneAssumption ==
    None \notin Nat /\ None \notin Shown /\ None \notin Messages /\ None \notin Links /\ None \notin Changes

VARIABLES
    protocol,
    server,     \* the folder: box, UIDNEXT, UIDVALIDITY
    clock,      \* JMAP, Graph: the server's state
    stamp,      \* the state in which each key was last changed
    rows,       \* table messages: what is shown for each key
    prune,      \* rows with graph_prune_pending
    owed,       \* rows with graph_filters_pending
    cursor,     \* table folders: the stored checkpoint
    pass,       \* the sync pass, in memory
    pend,       \* the user's change, on its way to the server (module FlagQueue)
    counts,     \* changes, failures and user operations so far
    filtered,   \* history: keys whose filter pass completed
    torn        \* history: a pass lost track of a message (see Tears)

remotes == <<server, clock, stamp>>
mirror == <<rows, prune, owed, cursor>>
vars == <<protocol, server, clock, stamp, rows, prune, owed, cursor, pass, pend, counts,
          filtered, torn>>

Here(k) == server.box[k] # None /\ server.box[k].here
Listed == {k \in Keys : Here(k)}
View(k) == IF Here(k) THEN Row(server.box[k].msg, server.box[k].seen) ELSE None
Stored == {k \in Keys : rows[k] # None}
Size(r) == Cardinality({k \in Keys : r[k] # None})

Idle == [pc |-> "idle", last |-> 0, next |-> 0, epoch |-> 0, uids |-> {}, todo |-> {},
         have |-> {}, failed |-> {}, fresh |-> {}, got |-> [k \in Keys |-> None], out |-> {},
         state |-> 0, full |-> FALSE, pages |-> 0]
At(pc) == pass.pc = pc
Go(pc) == pass' = [pass EXCEPT !.pc = pc]
KeepHistory == UNCHANGED <<pend, counts, filtered, torn>>
KeepRemote == UNCHANGED <<protocol, server, clock, stamp>>
KeepMarks == UNCHANGED <<prune, owed>>

-----------------------------------------------------------------------------
(* The server and its other clients.                                        *)

\* Key k now holds m; JMAP and Graph number the change.
Put(k, m) ==
    /\ server' = [server EXCEPT !.box[k] = m, !.next = IF k >= @ THEN k + 1 ELSE @]
    /\ clock' = IF protocol = "imap" THEN clock ELSE clock + 1
    /\ stamp' = IF protocol = "imap" THEN stamp ELSE [stamp EXCEPT ![k] = clock + 1]

\* Torn, in the ways a pass loses track of a message for good. JMAP: a listing by
\* position skips a message when one before it leaves between two pages; a message
\* that leaves and returns between two pages of changes is in both lists, of which
\* the removals are applied last; and a pass cut short before its removals has saved
\* the new state. IMAP: a folder's first pass, cut short, leaves rows without
\* UIDVALIDITY, which a new epoch finds in place.
Tears(k, leaves) ==
    protocol = "jmap" /\ \/ leaves /\ At("query") /\ pass.pages > 0
                         \/ ~leaves /\ At("changes") /\ k \in pass.out

\* has_local_uid_state; it does not look for rows.
HasUidState == cursor.last > 0 \/ cursor.next > 0 \/ cursor.total > 0

Change ==
    /\ counts.changes < MaxChanges /\ counts' = [counts EXCEPT !.changes = @ + 1]
    /\ UNCHANGED <<protocol, rows, prune, owed, cursor, pass, pend, filtered>>

Arrive ==
    /\ Change /\ server.next <= MaxKey
    /\ Put(server.next, [msg |-> server.next, seen |-> FALSE, here |-> TRUE])
    /\ UNCHANGED torn

\* A message that is moved away keeps its id only with JMAP.
Away(k) == IF protocol = "jmap" THEN [server.box[k] EXCEPT !.here = FALSE] ELSE None

\* Expunged, or moved to another folder.
Leave(k, moved) ==
    /\ Change /\ Here(k) /\ Put(k, IF moved THEN Away(k) ELSE None)
    /\ torn' = (torn \/ Tears(k, TRUE))

\* Moved back; elsewhere this is an arrival.
Return(k) ==
    /\ Change /\ protocol = "jmap" /\ server.box[k] # None /\ ~Here(k)
    /\ Put(k, [server.box[k] EXCEPT !.here = TRUE])
    /\ torn' = (torn \/ Tears(k, FALSE))

Toggle(k) ==
    /\ Change /\ Here(k)
    /\ Put(k, [server.box[k] EXCEPT !.seen = ~@]) /\ UNCHANGED torn

\* A new UIDVALIDITY: the messages are numbered again. Not while a session has the
\* folder selected.
Renumber ==
    LET n == Cardinality(Listed)
        nth(i) == CHOOSE k \in Listed : Cardinality({j \in Listed : j <= k}) = i IN
    /\ Change /\ protocol = "imap" /\ At("idle") /\ server.epoch < MaxEpoch
    /\ server' = [box |-> [k \in Keys |-> IF k <= n THEN server.box[nth(k)] ELSE None],
                  next |-> n + 1, epoch |-> server.epoch + 1]
    /\ torn' = (torn \/ (Stored # {} /\ cursor.epoch = 0 /\ ~HasUidState))
    /\ UNCHANGED <<clock, stamp>>

-----------------------------------------------------------------------------
(* The user. The row changes at once, with the folder's counts; the change  *)
(* reaches the server later, by key.                                        *)

UserChange(k, op) ==
    /\ op \in UserOps /\ pend = None /\ counts.ops = 0 /\ k \in Stored
    /\ op = "read" => ~rows[k].seen
    /\ rows' = [rows EXCEPT ![k] = IF op = "read" THEN [@ EXCEPT !.seen = TRUE] ELSE None]
    /\ prune' = IF op = "read" THEN prune ELSE prune \ {k}
    /\ owed' = IF op = "read" THEN owed ELSE owed \ {k}
    /\ cursor' = [cursor EXCEPT !.total = Size(rows')]
    /\ pend' = [key |-> k, op |-> op] /\ counts' = [counts EXCEPT !.ops = 1]
    /\ KeepRemote /\ UNCHANGED <<pass, filtered, torn>>

Perform ==
    /\ pend # None /\ pend' = None
    /\ IF ~Here(pend.key) THEN UNCHANGED <<remotes, torn>>
       ELSE IF pend.op = "read"
            THEN Put(pend.key, [server.box[pend.key] EXCEPT !.seen = TRUE]) /\ UNCHANGED torn
       ELSE Put(pend.key, Away(pend.key))
            /\ torn' = (torn \/ Tears(pend.key, TRUE))
    /\ UNCHANGED <<protocol, mirror, pass, counts, filtered>>

-----------------------------------------------------------------------------
(* IMAP: sync_folder_envelopes.                                             *)

\* Mutant: the preflight without the test that the backlog is done.
FolderLooksUnchangedMarkOnly ==
    /\ cursor.last > 0 /\ cursor.next > 0
    /\ server.next = cursor.next /\ Cardinality(Listed) = cursor.total

FolderLooksUnchanged ==
    /\ cursor.last > 0 /\ cursor.next > 0
    /\ server.next = cursor.next /\ Cardinality(Listed) = cursor.total
    /\ cursor.last + 1 >= server.next

\* Local UIDs of an unknown, another or an impossible epoch are worthless.
StaleEpoch ==
    \/ cursor.epoch = 0 /\ HasUidState
    \/ cursor.epoch > 0 /\ cursor.epoch # server.epoch
    \/ cursor.last >= server.next

ImapSelect ==
    /\ protocol = "imap" /\ At("idle")
    /\ IF StaleEpoch
       THEN /\ rows' = [k \in Keys |-> None]
            /\ cursor' = [cursor EXCEPT !.last = 0, !.epoch = server.epoch, !.next = server.next,
                                        !.total = 0]
       ELSE UNCHANGED <<rows, cursor>>
    /\ pass' = IF ~StaleEpoch /\ FolderLooksUnchanged THEN pass
               ELSE [Idle EXCEPT !.pc = IF cursor'.last > 0 THEN "reconcile" ELSE "uids",
                                 !.last = cursor'.last, !.next = server.next,
                                 !.epoch = server.epoch]
    /\ KeepRemote /\ KeepMarks /\ KeepHistory

ImapReconcile ==
    /\ At("reconcile") /\ Go("flags")
    /\ rows' = [k \in Keys |-> IF Here(k) THEN rows[k] ELSE None]
    /\ KeepRemote /\ KeepMarks /\ KeepHistory /\ UNCHANGED cursor

\* sync_flags_by_uid; a failure to fetch or to store the flags is only logged.
ImapFlags ==
    /\ At("flags") /\ Go("uids")
    /\ \/ /\ rows' = [k \in Keys |-> IF rows[k] # None /\ Here(k)
                                     THEN [rows[k] EXCEPT !.seen = server.box[k].seen] ELSE rows[k]]
          /\ UNCHANGED counts
       \/ /\ counts.failures < MaxFailures /\ counts' = [counts EXCEPT !.failures = @ + 1]
          /\ UNCHANGED rows
    /\ KeepRemote /\ KeepMarks /\ UNCHANGED <<cursor, pend, filtered, torn>>

\* The counts and the UID state of a pass that ran to its end.
Counted(c) == [c EXCEPT !.total = Size(rows), !.epoch = pass.epoch, !.next = pass.next]
Advanced(c, u) == [c EXCEPT !.last = IF u > @ THEN u ELSE @]

ImapUids ==
    LET new == {k \in Listed : k > pass.last} IN
    /\ At("uids")
    /\ IF new = {}
       THEN cursor' = Advanced(Counted(cursor), pass.next - 1) /\ pass' = Idle
       ELSE /\ pass' = [pass EXCEPT !.pc = "fetch", !.uids = new, !.todo = new, !.have = Stored]
            /\ UNCHANGED cursor
    /\ KeepRemote /\ KeepMarks /\ KeepHistory /\ UNCHANGED rows

\* fetch_envelopes_batch, newest first: what has been expunged meanwhile, or cannot
\* be read, has failed.
ImapFetch ==
    LET chunk == {k \in pass.todo : Cardinality({j \in pass.todo : j >= k}) <= PageSize} IN
    /\ At("fetch")
    /\ \E bad \in SUBSET chunk :
          LET stored == (chunk \ bad) \ pass.have
              unread == bad \ {k \in chunk : ~Here(k)} IN
          /\ {k \in chunk : ~Here(k)} \subseteq bad
          /\ counts.failures + Cardinality(unread) <= MaxFailures
          /\ counts' = [counts EXCEPT !.failures = @ + Cardinality(unread)]
          /\ rows' = [k \in Keys |-> IF k \in stored THEN View(k) ELSE rows[k]]
          /\ pass' = [pass EXCEPT !.todo = @ \ chunk, !.failed = @ \cup bad,
                                  !.fresh = @ \cup stored,
                                  !.pc = IF pass.todo = chunk THEN "watermark" ELSE "fetch"]
    /\ KeepRemote /\ KeepMarks /\ UNCHANGED <<cursor, pend, filtered, torn>>

\* Mutant: the mark passes what could not be read.
SafeWatermarkAll(uids, failed, next) == Max(uids \cup {next - 1})

SafeWatermark(uids, failed, next) ==
    IF failed = {} THEN Max(uids \cup {next - 1})
    ELSE Max({0} \cup {u \in uids : u < Min(failed)})

ImapWatermark ==
    /\ At("watermark") /\ Go("filter")
    /\ cursor' = Advanced(cursor, SafeWatermark(pass.uids, pass.failed, pass.next))
    /\ KeepRemote /\ KeepMarks /\ KeepHistory /\ UNCHANGED rows

ImapFinish ==
    /\ At("finish") /\ pass' = Idle /\ cursor' = Counted(cursor)
    /\ KeepRemote /\ KeepMarks /\ KeepHistory /\ UNCHANGED rows

-----------------------------------------------------------------------------
(* JMAP: sync_jmap_folder.                                                  *)

JmapBegin ==
    /\ protocol = "jmap" /\ At("idle")
    /\ pass' = IF cursor.state = None THEN [Idle EXCEPT !.pc = "query", !.full = TRUE]
               ELSE [Idle EXCEPT !.pc = "changes", !.state = cursor.state]
    /\ KeepRemote /\ KeepHistory /\ UNCHANGED mirror

\* fetch_email_changes: the next page of changes to the account. What is in this
\* folder is kept, what is not (any more) is to be removed.
JmapChanges ==
    /\ At("changes")
    /\ \E upto \in pass.state..clock :
          LET page == {k \in Keys : stamp[k] > pass.state /\ stamp[k] <= upto} IN
          /\ Cardinality(page) <= PageSize /\ (upto = pass.state => upto = clock)
          /\ pass' = [pass EXCEPT
                !.got = [k \in Keys |-> IF k \in page /\ Here(k) THEN View(k) ELSE @[k]],
                !.out = @ \cup {k \in page : ~Here(k)},
                !.state = upto, !.pc = IF upto = clock THEN "apply" ELSE "changes"]
    /\ KeepRemote /\ KeepHistory /\ UNCHANGED mirror

\* cannotCalculateChanges, too many pages, or a server that makes no progress.
JmapFallback ==
    /\ At("changes") /\ counts.failures < MaxFailures
    /\ counts' = [counts EXCEPT !.failures = @ + 1]
    /\ pass' = [Idle EXCEPT !.pc = "query", !.full = TRUE]
    /\ KeepRemote /\ UNCHANGED <<mirror, pend, filtered, torn>>

\* fetch_emails_full: the next page by position, newest first. The state is that of
\* the first page.
JmapQuery ==
    LET page == {k \in Listed : LET rank == Cardinality({j \in Listed : j >= k}) IN
                    rank > pass.pages * PageSize /\ rank <= (pass.pages + 1) * PageSize} IN
    /\ At("query")
    /\ pass' = [pass EXCEPT !.got = [k \in Keys |-> IF k \in page THEN View(k) ELSE @[k]],
                            !.state = IF pass.pages = 0 THEN clock ELSE @, !.pages = @ + 1,
                            !.pc = IF Cardinality(page) < PageSize THEN "apply" ELSE "query"]
    /\ KeepRemote /\ KeepHistory /\ UNCHANGED mirror

\* The rows that came, and the state. Nothing at all is an early return.
JmapApply ==
    LET came == {k \in Keys : pass.got[k] # None} IN
    /\ At("apply")
    /\ rows' = [k \in Keys |-> IF k \in came THEN pass.got[k] ELSE rows[k]]
    /\ cursor' = [cursor EXCEPT !.state = pass.state]
    /\ pass' = IF ~pass.full /\ came = {} /\ pass.out = {} THEN Idle
               ELSE [pass EXCEPT !.pc = "tombstones", !.fresh = came \ Stored]
    /\ KeepRemote /\ KeepMarks /\ KeepHistory

\* The rows that went. An error here is ignored.
JmapTombstones ==
    LET went == IF pass.full THEN {k \in Keys : pass.got[k] = None} ELSE pass.out IN
    /\ At("tombstones") /\ Go("filter")
    /\ rows' = [k \in Keys |-> IF k \in went THEN None ELSE rows[k]]
    /\ KeepRemote /\ KeepMarks /\ KeepHistory /\ UNCHANGED cursor

-----------------------------------------------------------------------------
(* Graph: sync_graph_folder_delta.                                          *)

\* Mutant: the rows of an interrupted filter pass are not looked for.
GraphBeginForgetful ==
    /\ protocol = "graph" /\ At("idle")
    /\ prune' = IF cursor.link = None THEN Stored ELSE prune
    /\ pass' = [Idle EXCEPT !.pc = "page", !.have = Stored, !.fresh = {}]
    /\ KeepRemote /\ KeepHistory /\ UNCHANGED <<rows, owed, cursor>>

\* Without a link everything is listed, and what is not listed by the end is gone.
GraphBegin ==
    /\ protocol = "graph" /\ At("idle")
    /\ prune' = IF cursor.link = None THEN Stored ELSE prune
    /\ pass' = [Idle EXCEPT !.pc = "page", !.have = Stored, !.fresh = owed]
    /\ KeepRemote /\ KeepHistory /\ UNCHANGED <<rows, owed, cursor>>

\* What the link the request carries has still to report.
Round ==
    IF cursor.link = None THEN [todo |-> Listed, goal |-> clock]
    ELSE IF cursor.link.todo = {} THEN [todo |-> {k \in Keys : stamp[k] > cursor.link.goal},
                                        goal |-> clock]
    ELSE cursor.link

\* One page, in one transaction with its link. A message that left may be reported
\* as it was, too, before its removal (echo).
GraphPage ==
    /\ At("page")
    /\ \E page \in SUBSET Round.todo : \E echo \in SUBSET {k \in page : ~Here(k)} :
          LET went == {k \in page : ~Here(k)}
              came == (page \ went) \cup echo
              inserted == came \ pass.have
              rest == Round.todo \ page
              seenAs(k) == IF Here(k) THEN View(k) ELSE Row(k, FALSE) IN
          /\ Cardinality(page) = IF Cardinality(Round.todo) < PageSize
                                 THEN Cardinality(Round.todo) ELSE PageSize
          /\ rows' = [k \in Keys |-> IF k \in went THEN None
                                     ELSE IF k \in inserted \/ (k \in came /\ rows[k] # None)
                                     THEN seenAs(k) ELSE rows[k]]
          /\ prune' = prune \ page
          /\ owed' = (owed \cup inserted) \ went
          /\ cursor' = [cursor EXCEPT !.link = [todo |-> rest, goal |-> Round.goal]]
          /\ pass' = [pass EXCEPT !.have = (@ \cup inserted) \ went,
                                  !.fresh = (@ \cup inserted) \ went, !.pages = @ + 1,
                                  !.pc = IF rest = {} THEN "prune"
                                         ELSE IF pass.pages + 1 < MaxPages THEN "page" ELSE "filter"]
    /\ KeepRemote /\ KeepHistory

\* HTTP 410: the link is dropped.
GraphExpired ==
    /\ At("page") /\ cursor.link # None /\ counts.failures < MaxFailures
    /\ counts' = [counts EXCEPT !.failures = @ + 1]
    /\ cursor' = [cursor EXCEPT !.link = None] /\ pass' = Idle
    /\ KeepRemote /\ KeepMarks /\ UNCHANGED <<rows, pend, filtered, torn>>

GraphPrune ==
    /\ At("prune") /\ Go("filter")
    /\ rows' = [k \in Keys |-> IF k \in prune THEN None ELSE rows[k]]
    /\ prune' = {} /\ owed' = owed \ prune
    /\ KeepRemote /\ KeepHistory /\ UNCHANGED cursor

-----------------------------------------------------------------------------
(* Filters, and the ends of a pass.                                         *)

\* The rules run on the new rows; those they move leave the server's folder and the
\* mirror. Messages whose action fails keep their rows, and on Graph their mark.
Filter ==
    /\ At("filter")
    /\ \E bad \in SUBSET (pass.fresh \cap Stored) :
          LET moved == {k \in (pass.fresh \cap Stored) \ bad : rows[k].msg \in Filed}
              left == moved \cap Listed
              done == pass.fresh \ bad IN
          /\ counts.failures + Cardinality(bad) <= MaxFailures
          /\ counts' = [counts EXCEPT !.failures = @ + Cardinality(bad)]
          /\ server' = [server EXCEPT !.box = [k \in Keys |->
                            IF k \in left THEN Away(k) ELSE @[k]]]
          /\ IF protocol = "imap" \/ left = {} THEN UNCHANGED <<clock, stamp>>
             ELSE /\ clock' = clock + 1
                  /\ stamp' = [k \in Keys |-> IF k \in left THEN clock + 1 ELSE stamp[k]]
          /\ rows' = [k \in Keys |-> IF k \in moved THEN None ELSE rows[k]]
          /\ prune' = prune \ moved /\ owed' = owed \ done
          /\ filtered' = filtered \cup done
          /\ pass' = IF protocol = "imap" THEN [pass EXCEPT !.pc = "finish"] ELSE Idle
    /\ UNCHANGED <<protocol, cursor, pend, torn>>

\* A request fails, the connection is out of step, or the application stops.
Abort ==
    /\ ~At("idle") /\ counts.failures < MaxFailures
    /\ counts' = [counts EXCEPT !.failures = @ + 1]
    /\ pass' = Idle /\ torn' = (torn \/ At("tombstones"))
    /\ UNCHANGED <<protocol, remotes, mirror, pend, filtered>>

-----------------------------------------------------------------------------
\* A new account; or, for IMAP, a mirror that an earlier version of the application
\* left without UIDVALIDITY.
Init ==
    /\ protocol \in Protocols
    /\ \E n \in 0..(MaxKey - 1) :
          /\ server = [box |-> [k \in Keys |-> IF k <= n
                                   THEN [msg |-> k, seen |-> FALSE, here |-> TRUE] ELSE None],
                       next |-> n + 1, epoch |-> 1]
          /\ \E old \in {{}} \cup (IF protocol = "imap" THEN {{m} : m \in 1..n} ELSE {}) :
                /\ rows = [k \in Keys |-> IF k = 1 /\ old # {}
                                          THEN Row(CHOOSE m \in old : TRUE, FALSE) ELSE None]
                /\ LET c == Cardinality(old) IN
                   cursor = [last |-> c, epoch |-> 0, next |-> 2 * c, total |-> c,
                             state |-> None, link |-> None]
    /\ clock = 0 /\ stamp = [k \in Keys |-> 0] /\ prune = {} /\ owed = {}
    /\ pass = Idle /\ pend = None /\ counts = [changes |-> 0, failures |-> 0, ops |-> 0]
    /\ filtered = {} /\ torn = FALSE

Others ==
    \/ Arrive \/ Renumber
    \/ \E k \in Keys : Return(k) \/ Toggle(k) \/ \E moved \in BOOLEAN : Leave(k, moved)

Pass ==
    \/ ImapSelect \/ ImapReconcile \/ ImapFlags \/ ImapUids \/ ImapFetch \/ ImapWatermark
    \/ ImapFinish
    \/ JmapBegin \/ JmapChanges \/ JmapQuery \/ JmapApply \/ JmapTombstones
    \/ GraphBegin \/ GraphPage \/ GraphPrune
    \/ Filter

Next ==
    \/ Others \/ Pass \/ Perform \/ JmapFallback \/ GraphExpired \/ Abort
    \/ \E k \in Keys, op \in UserOps : UserChange(k, op)

Spec == Init /\ [][Next]_vars

\* Passes are started again and again, by the timer, IDLE and push, and run on; the
\* worker carries out what the user did.
FairSpec == Spec /\ WF_vars(Pass) /\ WF_vars(Perform)

-----------------------------------------------------------------------------
Unsettled(k) == pend # None /\ pend.key = k

\* The checkpoint never runs ahead of the mirror. IMAP: in the stored epoch, every
\* message up to last_seen_uid has a row, and a row is of the message its UID means.
\* JMAP: what last changed up to the stored state is mirrored. Graph: so is what the
\* link has nothing to report about, but for rows that are marked to be pruned.
CheckpointSound ==
    CASE protocol = "imap" ->
            cursor.epoch = server.epoch /\ ~torn =>
                \A k \in Listed : /\ k <= cursor.last => k \in Stored \/ Unsettled(k)
                                  /\ k \in Stored => rows[k].msg = server.box[k].msg
      [] protocol = "jmap" ->
            cursor.state # None /\ ~At("tombstones") /\ ~torn =>
                \A k \in Keys : stamp[k] <= cursor.state => rows[k] = View(k) \/ Unsettled(k)
      [] protocol = "graph" ->
            cursor.link # None =>
                \A k \in Keys \ cursor.link.todo : stamp[k] <= cursor.link.goal =>
                    rows[k] = View(k) \/ Unsettled(k) \/ (~Here(k) /\ k \in prune)

Same(r, v) == IF protocol = "imap" THEN (r = None <=> v = None) ELSE r = v

\* A pass that was cut short after its watermark leaves a count of messages that is not
\* that of the rows, which the preflight may find equal to the folder's.
Miscounted == protocol = "imap" /\ cursor.total # Size(rows)

\* Once the other clients are done, the mirror comes to show what the folder holds,
\* whatever was interrupted before; unless a pass was torn, and with IMAP but for the
\* flags (FlagsMirrored) and for a count that stays wrong.
MirrorConverges == <>[](torn \/ Miscounted \/ \A k \in Keys : Same(rows[k], View(k)))

\* Graph: every message that is mirrored gets its filter pass, across crashes, capped
\* passes and failed actions.
NewMailFiltered == <>[](protocol = "graph" => Stored \subseteq filtered)

\* "the folder is provably unchanged and all three phases can be skipped": the flags
\* of an IMAP folder reach the mirror, too.
FlagsMirrored ==
    <>[](\A k \in Listed \cap Stored : rows[k].seen = server.box[k].seen)

=============================================================================
