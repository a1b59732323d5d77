--------------------------- MODULE FlagMutations ---------------------------
(***************************************************************************)
(* Flag mutations of an IMAP account (ops/flags.rs): what a mutation does  *)
(* on the server, what a newer mutation or delete leaves of an older one   *)
(* that is still queued, and how the worker coalesces a batch              *)
(* (ops/coalesce.rs).                                                      *)
(*                                                                         *)
(* Lists of message references and of flags are sets here: every use of    *)
(* them is a membership test, a filter or an idempotent STORE.             *)
(***************************************************************************)
EXTENDS Integers, Sequences, SequencesExt

CONSTANTS
    Refs,       \* message references; the folder is part of an IMAP reference
    FolderOf,   \* the folder of each
    Flags       \* normalised flag names; "seen" is one of them

ASSUME FlagsAssumption == "seen" \in Flags /\ FolderOf \in [Refs -> STRING]

Folders == {FolderOf[r] : r \in Refs}

\* FlagTarget::Messages(refs), and AllMessagesInFolders with refs excluded.
Messages(refs, flags, add) ==
    [bulk |-> FALSE, refs |-> refs, folders |-> {}, flags |-> flags, add |-> add]
AllMessagesInFolders(folders, excluded, flags, add) ==
    [bulk |-> TRUE, refs |-> excluded, folders |-> folders, flags |-> flags, add |-> add]

RefsIn(folders) == {r \in Refs : FolderOf[r] \in folders}

-----------------------------------------------------------------------------
(* What the IMAP executor does with a mutation. A server state gives, for  *)
(* each flag, the messages that carry it.                                  *)

Store(s, refs, flags, add) ==
    [f \in Flags |-> IF f \notin flags THEN s[f]
                     ELSE IF add THEN s[f] \cup refs ELSE s[f] \ refs]

\* A bulk read marks whole folders and then takes the mark off the exclusions.
set_flags(s, m) ==
    IF m.bulk THEN Store(Store(s, RefsIn(m.folders), {"seen"}, TRUE), m.refs, {"seen"}, FALSE)
    ELSE Store(s, m.refs, m.flags, m.add)

\* A mutation that fails has reached some of its messages; a bulk read may have
\* marked exclusions it has not yet unmarked.
set_flags_partly(s, m) ==
    IF m.bulk
    THEN {[s EXCEPT !["seen"] = (@ \ undone) \cup done] :
             done \in SUBSET RefsIn(m.folders), undone \in SUBSET m.refs}
    ELSE {Store(s, reached, m.flags, m.add) : reached \in SUBSET m.refs}

RunMutations(s, mutations) == FoldLeft(set_flags, s, mutations)

\* What outbox_to_mail_op accepts back from a stored row.
flag_mutation_from_json_accepts(m) ==
    m.bulk => m.add /\ m.flags = {"seen"} /\ m.refs \subseteq RefsIn(m.folders)

-----------------------------------------------------------------------------
(* What is left of an older queued mutation.                               *)

remove_deleted_refs(m, deleted) ==
    LET kept == IF m.bulk THEN m ELSE [m EXCEPT !.refs = @ \ deleted]
    IN  IF (IF kept.bulk THEN kept.folders ELSE kept.refs) = {} THEN <<>> ELSE <<kept>>

OnFlags(m, flags) == IF flags = {} THEN <<>> ELSE <<[m EXCEPT !.flags = flags]>>

split_message_target(older, covered, remaining) ==
    LET refs_left == older.refs \ covered
    IN  IF covered = {} THEN <<older>>
        ELSE (IF refs_left = {} THEN <<>> ELSE <<[older EXCEPT !.refs = refs_left]>>)
             \o OnFlags([older EXCEPT !.refs = covered], remaining)

\* The older mutation is a bulk read, the newer one names messages: the same
\* direction lifts exclusions, the opposite one adds them.
SubtractFromBulk(older, newer, overlapping, remaining) ==
    LET exclusions == IF older.add = newer.add
                      THEN older.refs \ newer.refs
                      ELSE older.refs \cup (newer.refs \cap RefsIn(older.folders))
    IN  IF exclusions = older.refs THEN <<older>>
        ELSE OnFlags(older, remaining) \o OnFlags([older EXCEPT !.refs = exclusions], overlapping)

\* Mutant: exclusions outside the folders left are not filtered out.
SubtractBulkKeepsExclusions(older, newer, overlapping, remaining) ==
    LET folders_left == older.folders \ newer.folders
    IN  IF folders_left = older.folders THEN <<older>>
        ELSE OnFlags(older, remaining)
             \o (IF folders_left = {} THEN <<>>
                 ELSE OnFlags([older EXCEPT !.folders = folders_left], overlapping))

\* Both are bulk: only the folders the newer one does not cover are left.
SubtractBulk(older, newer, overlapping, remaining) ==
    LET folders_left == older.folders \ newer.folders
    IN  IF folders_left = older.folders THEN <<older>>
        ELSE OnFlags(older, remaining)
             \o (IF folders_left = {} THEN <<>>
                 ELSE OnFlags([older EXCEPT !.folders = folders_left,
                                            !.refs = @ \cap RefsIn(folders_left)], overlapping))

subtract_flag_mutation(older, newer) ==
    LET overlapping == older.flags \cap newer.flags
        remaining == older.flags \ newer.flags
        covered == IF newer.bulk THEN (older.refs \cap RefsIn(newer.folders)) \ newer.refs
                   ELSE newer.refs
    IN  CASE overlapping = {} -> <<older>>
          [] overlapping # {} /\ ~older.bulk -> split_message_target(older, covered, remaining)
          [] overlapping # {} /\ older.bulk /\ ~newer.bulk ->
                SubtractFromBulk(older, newer, overlapping, remaining)
          [] overlapping # {} /\ older.bulk /\ newer.bulk ->
                SubtractBulk(older, newer, overlapping, remaining)
=============================================================================
