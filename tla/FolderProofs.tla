---------------------------- MODULE FolderProofs ----------------------------
(***************************************************************************)
(* The checkpoint of a mirrored mail folder never runs ahead of the rows,  *)
(* for every size of the mailbox and of a page, any number of changes by   *)
(* other clients and of failures, and all three protocols.                 *)
(***************************************************************************)
EXTENDS FolderSync, FiniteSetTheorems, WellFoundedInduction, TLAPS

Steps == {"idle", "reconcile", "flags", "uids", "fetch", "watermark", "finish", "changes", "query",
          "apply", "tombstones", "page", "prune", "filter"}
Passes == [pc : Steps, last : Nat, next : Nat, epoch : Nat, uids : SUBSET Keys, todo : SUBSET Keys,
           have : SUBSET Keys, failed : SUBSET Keys, fresh : SUBSET Keys,
           got : [Keys -> Shown \cup {None}], out : SUBSET Keys, state : Nat, full : BOOLEAN,
           pages : Nat]

TypeInv ==
    /\ protocol \in {"imap", "jmap", "graph"}
    /\ server \in [box : [Keys -> Messages \cup {None}], next : Nat \ {0}, epoch : Nat \ {0}]
    /\ clock \in Nat /\ stamp \in [Keys -> Nat]
    /\ rows \in [Keys -> Shown \cup {None}] /\ prune \in SUBSET Keys /\ owed \in SUBSET Keys
    /\ cursor \in [last : Nat, epoch : Nat, next : Nat, total : Nat,
                   state : Nat \cup {None}, link : Links \cup {None}]
    /\ pass \in Passes
    /\ pend \in Changes \cup {None}
    /\ torn \in BOOLEAN

\* Which step is of which protocol; a key is used, and a change numbered, in order.
FlowInv ==
    /\ pass.pc \in {"reconcile", "flags", "uids", "fetch", "watermark", "finish"} => protocol = "imap"
    /\ pass.pc \in {"changes", "query", "apply", "tombstones"} => protocol = "jmap"
    /\ pass.pc \in {"page", "prune"} => protocol = "graph"
    /\ \A k \in Keys : /\ server.box[k] # None => k < server.next
                       /\ stamp[k] <= clock
                       /\ stamp[k] > 0 /\ protocol # "imap" => k < server.next

\* The user's deletion is on its way to the server.
Leaving(k) == pend # None /\ pend.key = k /\ pend.op = "delete"

\* The rows are of the server's epoch: while a pass runs, in the stored epoch, and
\* before the first pass has left anything.
Trusted == ~At("idle") \/ cursor.epoch = server.epoch \/ (cursor.epoch = 0 /\ ~HasUidState)

\* What rows and mark then mean: a row is of the message its UID means, and the
\* messages up to the mark have one.
Current ==
    /\ \A k \in Stored : k < server.next /\ (Here(k) => rows[k].msg = server.box[k].msg)
    /\ cursor.last < server.next
    /\ \A k \in Listed : k <= cursor.last => k \in Stored \/ Leaving(k)

ImapPass ==
    /\ cursor.epoch <= server.epoch
    /\ ~At("idle") => pass.epoch = server.epoch /\ pass.next <= server.next /\ pass.next > 0
    /\ pass.pc \in {"reconcile", "flags", "uids", "fetch", "watermark"} => cursor.last = pass.last
    /\ pass.pc \in {"reconcile", "flags", "uids"} => pass.failed = {}

\* A message above the mark is in the pass's list, to be fetched, failed or stored,
\* or it arrived since, above everything in the list.
Backlog ==
    /\ \A u \in pass.uids : u < server.next
    /\ \A k \in Listed : k > pass.last /\ k \notin pass.uids
            => k >= pass.next /\ \A u \in pass.uids : u < k
    /\ \A k \in Listed \cap pass.uids :
          k \in pass.todo \/ k \in pass.failed \/ k \in Stored \/ Leaving(k)
    /\ \A k \in pass.have : k < server.next /\ (Here(k) => k \in Stored \/ Leaving(k))
    /\ pass.todo \subseteq pass.uids /\ pass.failed \subseteq pass.uids /\ pass.uids # {}
    /\ At("watermark") => pass.todo = {}

ImapInv ==
    protocol = "imap" =>
        /\ ImapPass
        /\ ~torn /\ Trusted => Current
        /\ ~torn /\ pass.pc \in {"fetch", "watermark"} => Backlog

\* A row shows the message, or the user's change to it is on its way.
Mirrored(k) == rows[k] = View(k) \/ (Unsettled(k) /\ Here(k))
Went == IF pass.full THEN {k \in Keys : pass.got[k] = None} ELSE pass.out
Rank(k) == Cardinality({j \in Listed : j >= k})

JmapPass ==
    /\ cursor.state # None => cursor.state <= clock
    /\ pass.state <= clock
    /\ pass.pc = "changes" => ~pass.full
    /\ pass.pc = "query" => pass.full

\* What changed up to the stored state is shown.
JmapShown ==
    cursor.state # None /\ ~At("tombstones") =>
        \A k \in Keys : stamp[k] <= cursor.state => Mirrored(k)

\* The pages of changes hold what changed between the two states, as it is.
JmapDelta ==
    /\ At("changes") => \A k \in pass.out : ~Here(k) /\ k < server.next
    /\ pass.pc \in {"changes", "apply"} /\ ~pass.full =>
          /\ cursor.state # None /\ cursor.state <= pass.state
          /\ \A k \in Keys :
                /\ pass.got[k] # None => stamp[k] > cursor.state
                /\ stamp[k] <= pass.state =>
                      /\ k \in pass.out => ~Here(k)
                      /\ stamp[k] > cursor.state =>
                            IF Here(k) THEN pass.got[k] = View(k) ELSE k \in pass.out

\* The pages of a listing hold what has not changed since the first, up to a rank.
JmapListing ==
    /\ pass.pc = "query" /\ pass.pages = 0 => \A k \in Keys : pass.got[k] = None
    /\ pass.pc = "apply" /\ pass.full => pass.pages > 0
    /\ pass.pc \in {"query", "apply"} /\ pass.full /\ pass.pages > 0 =>
          \A k \in Keys : stamp[k] <= pass.state =>
             /\ pass.got[k] # None => pass.got[k] = View(k)
             /\ Here(k) /\ (At("apply") \/ Rank(k) <= pass.pages * PageSize) => pass.got[k] # None

\* Before the removals, what is to be removed is gone and the rest is shown.
JmapRemovals ==
    At("tombstones") =>
        /\ cursor.state = pass.state
        /\ \A k \in Keys : stamp[k] <= pass.state => IF k \in Went THEN ~Here(k) ELSE Mirrored(k)

JmapInv ==
    protocol = "jmap" =>
        JmapPass /\ (~torn => JmapShown /\ JmapDelta /\ JmapListing /\ JmapRemovals)

\* A page is stored under rows that only the user removes, and the first under rows
\* that are all to be pruned.
GraphPass ==
    /\ \A k \in Stored : k < server.next
    /\ At("page") =>
        /\ \A k \in pass.have : k < server.next /\ (rows[k] = None /\ Here(k) => Leaving(k))
        /\ cursor.link = None => Stored \subseteq prune

\* What the link does not report any more is shown, or gone and to be pruned.
GraphLink ==
    cursor.link # None =>
        /\ cursor.link.goal <= clock
        /\ \A k \in cursor.link.todo : k < server.next
        /\ \A k \in Keys \ cursor.link.todo : stamp[k] <= cursor.link.goal =>
              /\ Mirrored(k) \/ (~Here(k) /\ k \in prune)
              /\ k \in prune => ~Here(k)

GraphInv == protocol = "graph" => GraphPass /\ GraphLink

FolderInv == TypeInv /\ FlowInv /\ ImapInv /\ JmapInv /\ GraphInv

-----------------------------------------------------------------------------
(* Least and greatest elements, and counting.                               *)

\* A nonempty set of naturals has a least element, and Min is one.
LEMMA MinFacts ==
    ASSUME NEW S \in SUBSET Nat, S # {}
    PROVE  Min(S) \in S /\ \A y \in S : Min(S) <= y
  <1>1. \E x \in S : \A y \in S : ~(<<y, x>> \in OpToRel(<, Nat))
    BY NatLessThanWellFounded, WFMin
  <1>2. PICK x \in S : \A y \in S : ~(<<y, x>> \in OpToRel(<, Nat)) BY <1>1
  <1>3. \A y \in S : y < x => <<y, x>> \in OpToRel(<, Nat) BY DEF OpToRel
  <1>4. \A y \in S : ~(y < x) BY <1>2, <1>3, Zenon
  <1>5. \A y \in S : x <= y BY <1>4
  <1>. QED BY <1>5 DEF Min

\* A bounded nonempty set of naturals has a greatest element, and Max is one.
LEMMA MaxFacts ==
    ASSUME NEW S \in SUBSET Nat, S # {}, NEW n \in Nat, \A y \in S : y <= n
    PROVE  Max(S) \in S /\ \A y \in S : y <= Max(S)
  <1> DEFINE B == {b \in Nat : \A y \in S : y <= b}
             b == Min(B)
  <1>1. b \in B /\ \A c \in B : b <= c BY MinFacts
  <1>2. b \in S
    <2>1. CASE b = 0
      <3>1. PICK y \in S : y \in Nat OBVIOUS
      <3>2. y <= b /\ b \in Nat BY <1>1, <3>1
      <3>. QED BY <2>1, <3>1, <3>2
    <2>2. CASE b # 0 /\ b \notin S
      <3>1. b - 1 \in Nat /\ \A y \in S : y <= b - 1 BY <1>1, <2>2
      <3>. QED BY <1>1, <3>1
    <2>. QED BY <2>1, <2>2
  <1>3. \E x \in S : \A y \in S : x >= y BY <1>1, <1>2
  <1>. QED BY <1>3 DEF Max

\* The keys are finitely many, and so is every set of them.
LEMMA KeysFinite ==
    /\ Keys \subseteq Nat \ {0} /\ IsFiniteSet(Keys)
    /\ \A S \in SUBSET Keys : IsFiniteSet(S) /\ Cardinality(S) \in Nat
  <1>1. Keys \subseteq Nat \ {0} /\ MaxKey \in Int BY FolderAssumption DEF Keys
  <1>2. IsFiniteSet(Keys) BY <1>1, FS_Interval DEF Keys
  <1>. QED BY <1>1, <1>2, FS_Subset, FS_CardinalityType

\* Numbering a set of keys from below meets every number.
LEMMA CountUp ==
    ASSUME NEW S \in SUBSET Keys, NEW i \in 1..Cardinality(S)
    PROVE  \E k \in S : Cardinality({j \in S : j <= k}) = i
  <1> DEFINE f == [k \in S |-> Cardinality({j \in S : j <= k})]
             n == Cardinality(S)
  <1>1. IsFiniteSet(S) /\ n \in Nat /\ S \subseteq Nat BY KeysFinite
  <1>2. \A k \in S : IsFiniteSet({j \in S : j <= k}) /\ f[k] \in 1..n
    <2> SUFFICES ASSUME NEW k \in S PROVE IsFiniteSet({j \in S : j <= k}) /\ f[k] \in 1..n OBVIOUS
    <2> DEFINE T == {j \in S : j <= k}
    <2>1. T \in SUBSET S /\ k \in T BY <1>1
    <2>2. IsFiniteSet(T) /\ Cardinality(T) <= n BY <1>1, <2>1, FS_Subset
    <2>3. Cardinality(T) \in Nat /\ Cardinality(T) # 0
      BY <2>1, <2>2, FS_CardinalityType, FS_EmptySet
    <2>. QED BY <1>1, <2>2, <2>3
  <1>3. \A j, k \in S : j < k => f[j] # f[k]
    <2> SUFFICES ASSUME NEW j \in S, NEW k \in S, j < k PROVE f[j] # f[k] OBVIOUS
    <2> DEFINE T == {x \in S : x <= k}
               U == {x \in S : x <= j}
    <2>1. \A x \in S : x <= j => x <= k BY <1>1
    <2>2. U \in SUBSET T /\ k \in T /\ k \notin U
      <3>1. U \in SUBSET T BY <2>1
      <3>2. k <= k /\ ~(k <= j) BY <1>1
      <3>. QED BY <3>1, <3>2
    <2>3. IsFiniteSet(T) BY <1>2
    <2>4. Cardinality(T) # Cardinality(U) BY <2>2, <2>3, FS_Subset
    <2>. QED BY <2>4
  <1>4. f \in Injection(S, 1..n)
    <2>1. f \in [S -> 1..n] BY <1>2
    <2>2. \A j, k \in S : f[j] = f[k] => j = k
      <3> SUFFICES ASSUME NEW j \in S, NEW k \in S, j # k PROVE f[j] # f[k] OBVIOUS
      <3>1. j < k \/ k < j BY <1>1
      <3> HIDE DEF f
      <3>. QED BY <1>3, <3>1
    <2> HIDE DEF f
    <2>. QED BY <2>1, <2>2 DEF Injection, IsInjective
  <1>5. IsFiniteSet(1..n) /\ Cardinality(1..n) = n BY <1>1, FS_Interval
  <1>6. f \in Surjection(S, 1..n) BY <1>4, <1>5, FS_Injection
  <1>7. \E k \in S : f[k] = i
    <2> HIDE DEF f
    <2>. QED BY <1>6 DEF Surjection
  <1>. QED BY <1>7

\* Numbering it from above does, too.
LEMMA CountDown ==
    ASSUME NEW S \in SUBSET Keys, NEW i \in 1..Cardinality(S)
    PROVE  \E k \in S : Cardinality({j \in S : j >= k}) = i
  <1> DEFINE n == Cardinality(S)
  <1>1. n \in Nat /\ S \subseteq Nat BY KeysFinite
  <1>2. n + 1 - i \in 1..n BY <1>1
  <1>3. PICK k \in S : Cardinality({j \in S : j <= k}) = n + 1 - i BY <1>2, CountUp
  <1> DEFINE T == {j \in S : j <= k}
             U == {j \in S : j >= k}
  <1>4. T \cup U = S /\ T \cap U = {k}
    <2>1. \A j \in S : (j <= k \/ j >= k) /\ (j <= k /\ j >= k <=> j = k) BY <1>1
    <2>2. T \cup U = S BY <2>1
    <2>3. T \cap U = {k} BY <2>1
    <2>. QED BY <2>2, <2>3
  <1>5. IsFiniteSet(T) /\ IsFiniteSet(U) /\ Cardinality(U) \in Nat BY KeysFinite
  <1>6. Cardinality({k}) = 1 BY FS_Singleton
  <1>7. n = Cardinality(T) + Cardinality(U) - Cardinality({k})
    <2>1. Cardinality(T \cup U) = Cardinality(T) + Cardinality(U) - Cardinality(T \cap U)
      BY <1>5, FS_Union
    <2>. QED BY <1>4, <2>1
  <1>8. n = (n + 1 - i) + Cardinality(U) - 1 BY <1>3, <1>6, <1>7
  <1>9. Cardinality(U) = i BY <1>1, <1>5, <1>8
  <1>. QED BY <1>9

\* A message's position in a listing, newest first, counts from one and does not
\* fall when messages are added.
LEMMA RankFacts ==
    ASSUME NEW S \in SUBSET Keys, NEW T \in SUBSET S, NEW k \in T
    PROVE  /\ Cardinality({j \in T : j >= k}) \in Nat \ {0}
           /\ Cardinality({j \in S : j >= k}) \in Nat \ {0}
           /\ Cardinality({j \in T : j >= k}) <= Cardinality({j \in S : j >= k})
  <1> DEFINE A == {j \in T : j >= k}
             B == {j \in S : j >= k}
  <1>1. A \in SUBSET B /\ B \in SUBSET Keys /\ k \in A /\ k \in B
    <2>1. k >= k BY KeysFinite
    <2>. QED BY <2>1
  <1>2. IsFiniteSet(A) /\ IsFiniteSet(B) BY <1>1, KeysFinite
  <1>3. Cardinality(A) \in Nat /\ Cardinality(B) \in Nat /\ Cardinality(A) <= Cardinality(B)
    BY <1>1, <1>2, FS_CardinalityType, FS_Subset
  <1>4. Cardinality(A) # 0 /\ Cardinality(B) # 0 BY <1>1, <1>2, FS_EmptySet
  <1>. QED BY <1>3, <1>4

\* A page that is not full is the last: no message is listed behind it.
LEMMA LastPage ==
    ASSUME NEW S \in SUBSET Keys, NEW a \in Nat, NEW p \in Nat \ {0},
           Cardinality({k \in S : /\ Cardinality({j \in S : j >= k}) > a
                                  /\ Cardinality({j \in S : j >= k}) <= a + p}) < p
    PROVE  \A k \in S : Cardinality({j \in S : j >= k}) <= a + p
  <1> DEFINE r(k) == Cardinality({j \in S : j >= k})
             page == {k \in S : r(k) > a /\ r(k) <= a + p}
             f == [k \in page |-> r(k)]
             places == (a + 1)..(a + p)
  <1>1. SUFFICES ASSUME NEW m \in S, r(m) > a + p PROVE FALSE
    <2>1. \A k \in S : r(k) \in Nat BY KeysFinite
    <2>2. \A k \in S : r(k) <= a + p \/ r(k) > a + p BY <2>1
    <2>. QED BY <2>2, Zenon
  <1>2. a + p <= Cardinality(S)
    <2> DEFINE U == {j \in S : j >= m}
    <2>1. Cardinality(U) <= Cardinality(S) BY KeysFinite, FS_Subset
    <2>. QED BY <1>1, <2>1, KeysFinite
  <1>3. \A i \in places : \E k \in page : f[k] = i
    <2> SUFFICES ASSUME NEW i \in places PROVE \E k \in page : f[k] = i OBVIOUS
    <2>1. i \in 1..Cardinality(S) /\ i > a /\ i <= a + p BY <1>2, KeysFinite
    <2>2. PICK k \in S : r(k) = i BY <2>1, CountDown
    <2>. QED BY <2>1, <2>2
  <1>4. f \in [page -> places]
    <2>1. \A k \in page : r(k) \in Nat /\ r(k) > a /\ r(k) <= a + p BY RankFacts
    <2>2. \A k \in page : r(k) \in places BY <2>1
    <2>. QED BY <2>2
  <1>5. f \in Surjection(page, places)
    <2> HIDE DEF f, page, places
    <2>. QED BY <1>3, <1>4 DEF Surjection
  <1>6. IsFiniteSet(page) BY KeysFinite
  <1>7. Cardinality(places) <= Cardinality(page) BY <1>5, <1>6, FS_Surjection
  <1>8. Cardinality(places) = p BY FS_Interval
  <1>. QED BY <1>6, <1>7, <1>8, FS_CardinalityType

-----------------------------------------------------------------------------
(* Types of what the actions use.                                           *)

\* What is shown of a message: a row if it is in the folder, nothing otherwise.
LEMMA ViewFacts ==
    ASSUME TypeInv, NEW k \in Keys
    PROVE  /\ View(k) \in Shown \cup {None}
           /\ Here(k) \in BOOLEAN
           /\ View(k) = None <=> ~Here(k)
           /\ Here(k) => /\ server.box[k] \in Messages
                         /\ View(k).msg = server.box[k].msg
  <1>1. server.box[k] \in Messages \cup {None} BY DEF TypeInv
  <1>2. CASE server.box[k] = None BY <1>2 DEF View, Here
  <1>3. CASE server.box[k] \in Messages
    <2>1. server.box[k] # None BY <1>3, NoneAssumption
    <2>2. Here(k) = server.box[k].here /\ server.box[k].here \in BOOLEAN
      BY <1>3, <2>1 DEF Here, Messages
    <2>3. Row(server.box[k].msg, server.box[k].seen) \in Shown BY <1>3 DEF Row, Shown, Messages
    <2>4. Row(server.box[k].msg, server.box[k].seen).msg = server.box[k].msg BY DEF Row
    <2>. QED BY <1>3, <2>2, <2>3, <2>4, NoneAssumption DEF View
  <1>. QED BY <1>1, <1>2, <1>3

\* Between passes.
LEMMA IdleFacts ==
    /\ Idle \in Passes /\ Idle.pc = "idle" /\ Idle.last = 0 /\ Idle.next = 0 /\ Idle.epoch = 0
    /\ Idle.state = 0 /\ Idle.out = {} /\ Idle.failed = {} /\ Idle.full = FALSE /\ Idle.pages = 0
    /\ \A k \in Keys : Idle.got[k] = None
  BY DEF Idle, Passes, Steps

\* A step to another place in the code leaves what the pass knows.
LEMMA GoFacts ==
    ASSUME pass \in Passes, NEW s \in Steps, Go(s)
    PROVE  /\ pass' \in Passes /\ pass'.pc = s
           /\ pass'.last = pass.last /\ pass'.next = pass.next /\ pass'.epoch = pass.epoch
           /\ pass'.uids = pass.uids /\ pass'.todo = pass.todo /\ pass'.have = pass.have
           /\ pass'.failed = pass.failed /\ pass'.got = pass.got /\ pass'.out = pass.out
           /\ pass'.state = pass.state /\ pass'.full = pass.full /\ pass'.pages = pass.pages
  BY DEF Go, Passes

\* The counts of a folder are numbers.
LEMMA SizeType == ASSUME NEW r PROVE Size(r) \in Nat
  BY KeysFinite DEF Size

-----------------------------------------------------------------------------
(* Initial states.                                                          *)

\* A new account, and a mirror of an earlier version, satisfy the invariant.
LEMMA FolderInit == Init => FolderInv
  <1> SUFFICES ASSUME Init PROVE FolderInv OBVIOUS
  <1>1. PICK n \in 0..(MaxKey - 1) :
          /\ server = [box |-> [k \in Keys |-> IF k <= n
                                   THEN [msg |-> k, seen |-> FALSE, here |-> TRUE] ELSE None],
                       next |-> n + 1, epoch |-> 1]
          /\ \E old \in {{}} \cup (IF protocol = "imap" THEN {{m} : m \in 1..n} ELSE {}) :
                /\ rows = [k \in Keys |-> IF k = 1 /\ old # {}
                                          THEN Row(CHOOSE m \in old : TRUE, FALSE) ELSE None]
                /\ cursor = [last |-> Cardinality(old), epoch |-> 0, next |-> 2 * Cardinality(old),
                             total |-> Cardinality(old), state |-> None, link |-> None]
    BY DEF Init
  <1>2. n \in Nat /\ n < MaxKey /\ MaxKey \in Nat /\ Keys = 1..MaxKey BY FolderAssumption DEF Keys
  <1>3. PICK old \in {{}} \cup (IF protocol = "imap" THEN {{m} : m \in 1..n} ELSE {}) :
                /\ rows = [k \in Keys |-> IF k = 1 /\ old # {}
                                          THEN Row(CHOOSE m \in old : TRUE, FALSE) ELSE None]
                /\ cursor = [last |-> Cardinality(old), epoch |-> 0, next |-> 2 * Cardinality(old),
                             total |-> Cardinality(old), state |-> None, link |-> None]
    BY <1>1
  <1>4. \/ old = {} /\ Cardinality(old) = 0 /\ rows = [k \in Keys |-> None]
        \/ protocol = "imap" /\ Cardinality(old) = 1 /\ rows \in [Keys -> Shown \cup {None}]
    <2>1. CASE old = {} BY <1>3, <2>1, FS_EmptySet
    <2>2. CASE old # {}
      <3>1. PICK m \in 1..n : old = {m} /\ protocol = "imap" BY <1>3, <2>2
      <3>2. Row(CHOOSE x \in old : TRUE, FALSE) \in Shown BY <1>2, <3>1 DEF Row, Shown
      <3>3. Cardinality(old) = 1 BY <3>1, FS_Singleton
      <3>. QED BY <1>3, <3>1, <3>2, <3>3
    <2>. QED BY <2>1, <2>2
  <1>5. TypeInv
    <2>1. server \in [box : [Keys -> Messages \cup {None}], next : Nat \ {0}, epoch : Nat \ {0}]
      BY <1>1, <1>2 DEF Messages
    <2>2. rows \in [Keys -> Shown \cup {None}] BY <1>4
    <2>3. cursor \in [last : Nat, epoch : Nat, next : Nat, total : Nat,
                      state : Nat \cup {None}, link : Links \cup {None}]
      <3>1. Cardinality(old) \in Nat /\ 2 * Cardinality(old) \in Nat BY <1>4
      <3>. QED BY <1>3, <3>1
    <2>. QED BY <2>1, <2>2, <2>3, IdleFacts, FolderAssumption DEF Init, TypeInv
  <1>6. FlowInv BY <1>1, <1>2, IdleFacts DEF Init, FlowInv
  <1>7. ImapInv
    <2>1. At("idle") /\ cursor.epoch = 0 /\ server.epoch = 1 /\ server.next = n + 1
      BY <1>1, <1>3, IdleFacts DEF Init, At
    <2>2. ~torn /\ Trusted => cursor.last = 0 /\ Stored = {}
      <3>1. cursor.last = Cardinality(old) BY <1>3
      <3>2. Trusted => ~(cursor.last > 0) BY <2>1 DEF Trusted, HasUidState
      <3>3. Trusted => cursor.last = 0 /\ rows = [k \in Keys |-> None] BY <1>4, <3>1, <3>2
      <3>. QED BY <3>3 DEF Stored
    <2>3. \A k \in Keys : ~(k <= 0) BY KeysFinite
    <2>. QED BY <1>2, <2>1, <2>2, <2>3 DEF ImapInv, ImapPass, Current, At, Listed
  <1>8. JmapInv
    BY <1>3, IdleFacts DEF Init, JmapInv, JmapPass, JmapShown, JmapDelta, JmapListing, JmapRemovals, At
  <1>9. GraphInv
    <2>1. protocol = "graph" => Stored = {} BY <1>4 DEF Stored
    <2>. QED BY <1>3, <2>1, IdleFacts DEF Init, GraphInv, GraphPass, GraphLink, At
  <1>. QED BY <1>5, <1>6, <1>7, <1>8, <1>9 DEF FolderInv

-----------------------------------------------------------------------------
(* IMAP.                                                                    *)

\* The rows of a stale epoch go before a pass begins; otherwise they are of this one.
LEMMA ImapSelectStep == ASSUME FolderInv, ImapSelect PROVE FolderInv'
  <1>1. protocol = "imap" /\ At("idle") /\ TypeInv BY DEF FolderInv, ImapSelect
  <1>2. /\ rows' \in [Keys -> Shown \cup {None}]
        /\ cursor' \in [last : Nat, epoch : Nat, next : Nat, total : Nat,
                        state : Nat \cup {None}, link : Links \cup {None}]
        /\ IF StaleEpoch THEN Stored' = {} /\ cursor'.last = 0 /\ cursor'.epoch = server.epoch
           ELSE rows' = rows /\ cursor' = cursor
    <2>1. CASE StaleEpoch
      <3>1. server.next \in Nat /\ server.epoch \in Nat BY <1>1 DEF TypeInv
      <3>2. rows' = [k \in Keys |-> None]
            /\ cursor' = [cursor EXCEPT !.last = 0, !.epoch = server.epoch, !.next = server.next, !.total = 0]
        BY <2>1 DEF ImapSelect
      <3>3. Stored' = {} BY <3>2 DEF Stored
      <3>. QED BY <1>1, <2>1, <3>1, <3>2, <3>3 DEF TypeInv
    <2>2. CASE ~StaleEpoch BY <1>1, <2>2 DEF ImapSelect, TypeInv
    <2>. QED BY <2>1, <2>2
  <1>3. \/ pass' = pass /\ ~StaleEpoch
        \/ /\ pass' \in Passes /\ pass'.pc \in {"reconcile", "uids"} /\ pass'.last = cursor'.last
           /\ pass'.next = server.next /\ pass'.epoch = server.epoch /\ pass'.state = 0
           /\ pass'.out = {} /\ pass'.failed = {}
    <2>1. cursor'.last \in Nat /\ server.next \in Nat /\ server.epoch \in Nat BY <1>1, <1>2 DEF TypeInv
    <2>. QED BY <2>1, IdleFacts DEF ImapSelect, Passes, Steps
  <1>4. protocol' = protocol /\ server' = server /\ clock' = clock /\ stamp' = stamp /\ pend' = pend
        /\ torn' = torn /\ prune' = prune /\ owed' = owed
    BY DEF ImapSelect, KeepRemote, KeepMarks, KeepHistory
  <1>5. TypeInv' BY <1>1, <1>2, <1>3, <1>4 DEF TypeInv
  <1>6. FlowInv' BY <1>1, <1>3, <1>4 DEF FolderInv, FlowInv
  <1>7. Listed' = Listed /\ \A k \in Keys : Here(k)' = Here(k) /\ Leaving(k)' = Leaving(k)
    BY <1>4 DEF Listed, Here, Leaving
  <1>8. ImapPass' /\ ~(pass'.pc \in {"fetch", "watermark"})
    <2>1. server.next \in Nat \ {0} /\ server.epoch \in Nat BY <1>1 DEF TypeInv
    <2>. QED BY <1>1, <1>2, <1>3, <1>4, <2>1 DEF FolderInv, ImapInv, ImapPass, At
  <1>9. ~torn' => Current'
    <2>1. CASE StaleEpoch
      <3>1. cursor'.last = 0 /\ Stored' = {} /\ server.next \in Nat \ {0} BY <1>1, <1>2, <2>1 DEF TypeInv
      <3>2. \A k \in Keys : ~(k <= 0) BY KeysFinite
      <3>. QED BY <1>4, <3>1, <3>2 DEF Current, Listed
    <2>2. CASE ~StaleEpoch
      <3>1. Trusted /\ rows' = rows /\ cursor' = cursor
        BY <1>1, <1>2, <2>2 DEF StaleEpoch, Trusted, TypeInv
      <3>2. Stored' = Stored BY <3>1 DEF Stored
      <3>. QED BY <1>1, <1>4, <1>7, <3>1, <3>2 DEF FolderInv, ImapInv, Current, Stored, Listed
    <2>. QED BY <2>1, <2>2
  <1>. QED BY <1>1, <1>4, <1>5, <1>6, <1>8, <1>9 DEF FolderInv, ImapInv, JmapInv, GraphInv

\* Rows of UIDs that are gone go, and the others keep their message.
LEMMA ImapReconcileStep == ASSUME FolderInv, ImapReconcile PROVE FolderInv'
  <1>1. protocol = "imap" /\ TypeInv /\ pass.pc = "reconcile" /\ pass \in Passes
    BY DEF FolderInv, FlowInv, ImapReconcile, At, TypeInv
  <1>2. protocol' = protocol /\ server' = server /\ clock' = clock /\ stamp' = stamp /\ pend' = pend
        /\ torn' = torn /\ prune' = prune /\ owed' = owed /\ cursor' = cursor
    BY DEF ImapReconcile, KeepRemote, KeepMarks, KeepHistory
  <1>3. pass' \in Passes /\ pass'.pc = "flags" /\ pass'.last = pass.last /\ pass'.next = pass.next
        /\ pass'.epoch = pass.epoch /\ pass'.failed = pass.failed
    BY <1>1, GoFacts DEF ImapReconcile, Steps
  <1>4. rows' = [k \in Keys |-> IF Here(k) THEN rows[k] ELSE None] BY DEF ImapReconcile
  <1>5. TypeInv' BY <1>1, <1>2, <1>3, <1>4 DEF TypeInv
  <1>6. FlowInv' BY <1>1, <1>2, <1>3 DEF FolderInv, FlowInv
  <1>7. Listed' = Listed /\ \A k \in Keys : Here(k)' = Here(k) /\ Leaving(k)' = Leaving(k)
    BY <1>2 DEF Listed, Here, Leaving
  <1>8. Stored' \subseteq Stored /\ (Stored \cap Listed) \subseteq Stored'
        /\ \A k \in Stored' : rows'[k] = rows[k]
    BY <1>4 DEF Stored, Listed
  <1>9. ImapPass' BY <1>1, <1>2, <1>3 DEF FolderInv, ImapInv, ImapPass, At
  <1>10. ~torn' => Current'
    BY <1>1, <1>2, <1>7, <1>8 DEF FolderInv, ImapInv, Current, At, Trusted, Listed, Stored
  <1>. QED BY <1>1, <1>2, <1>3, <1>5, <1>6, <1>9, <1>10 DEF FolderInv, ImapInv, JmapInv, GraphInv

\* The flags change no row's message.
LEMMA ImapFlagsStep == ASSUME FolderInv, ImapFlags PROVE FolderInv'
  <1>1. protocol = "imap" /\ TypeInv /\ pass.pc = "flags" /\ pass \in Passes
    BY DEF FolderInv, FlowInv, ImapFlags, At, TypeInv
  <1>2. protocol' = protocol /\ server' = server /\ clock' = clock /\ stamp' = stamp /\ pend' = pend
        /\ torn' = torn /\ prune' = prune /\ owed' = owed /\ cursor' = cursor
    BY DEF ImapFlags, KeepRemote, KeepMarks
  <1>3. pass' \in Passes /\ pass'.pc = "uids" /\ pass'.last = pass.last /\ pass'.next = pass.next
        /\ pass'.epoch = pass.epoch /\ pass'.failed = pass.failed
    BY <1>1, GoFacts DEF ImapFlags, Steps
  <1>4. /\ rows' \in [Keys -> Shown \cup {None}] /\ Stored' = Stored
        /\ \A k \in Stored : rows'[k].msg = rows[k].msg
    <2>1. CASE rows' = rows BY <1>1, <2>1 DEF TypeInv, Stored
    <2>2. CASE rows' = [k \in Keys |-> IF rows[k] # None /\ Here(k)
                                       THEN [rows[k] EXCEPT !.seen = server.box[k].seen] ELSE rows[k]]
      <3>1. \A k \in Keys : rows[k] # None /\ Here(k) =>
               LET r == [rows[k] EXCEPT !.seen = server.box[k].seen] IN
               r \in Shown /\ r # None /\ r.msg = rows[k].msg
        <4> SUFFICES ASSUME NEW k \in Keys, rows[k] # None, Here(k)
                     PROVE  LET r == [rows[k] EXCEPT !.seen = server.box[k].seen] IN
                            r \in Shown /\ r # None /\ r.msg = rows[k].msg
          OBVIOUS
        <4>1. rows[k] \in Shown /\ server.box[k].seen \in BOOLEAN
          BY <1>1, ViewFacts DEF TypeInv, Messages
        <4>. QED BY <4>1, NoneAssumption DEF Shown
      <3>. QED BY <1>1, <2>2, <3>1 DEF TypeInv, Stored
    <2>. QED BY <2>1, <2>2 DEF ImapFlags
  <1>5. TypeInv' BY <1>1, <1>2, <1>3, <1>4 DEF TypeInv
  <1>6. FlowInv' BY <1>1, <1>2, <1>3 DEF FolderInv, FlowInv
  <1>7. Listed' = Listed /\ \A k \in Keys : Here(k)' = Here(k) /\ Leaving(k)' = Leaving(k)
    BY <1>2 DEF Listed, Here, Leaving
  <1>8. ImapPass' BY <1>1, <1>2, <1>3 DEF FolderInv, ImapInv, ImapPass, At
  <1>9. ~torn' => Current'
    BY <1>1, <1>2, <1>4, <1>7 DEF FolderInv, ImapInv, Current, At, Trusted, Listed, Stored
  <1>. QED BY <1>1, <1>2, <1>3, <1>5, <1>6, <1>8, <1>9 DEF FolderInv, ImapInv, JmapInv, GraphInv

\* Counting the rows at the end of a pass.
LEMMA CountedFacts ==
    ASSUME TypeInv
    PROVE  LET c == Counted(cursor) IN
           /\ c \in [last : Nat, epoch : Nat, next : Nat, total : Nat,
                     state : Nat \cup {None}, link : Links \cup {None}]
           /\ c.last = cursor.last /\ c.epoch = pass.epoch
  BY SizeType DEF Counted, TypeInv, Passes

\* The mark only moves up.
LEMMA AdvancedFacts ==
    ASSUME NEW c \in [last : Nat, epoch : Nat, next : Nat, total : Nat,
                      state : Nat \cup {None}, link : Links \cup {None}],
           NEW u \in Nat
    PROVE  LET d == Advanced(c, u) IN
           /\ d \in [last : Nat, epoch : Nat, next : Nat, total : Nat,
                     state : Nat \cup {None}, link : Links \cup {None}]
           /\ d.last = (IF u > c.last THEN u ELSE c.last) /\ d.epoch = c.epoch
  BY DEF Advanced

\* With no message above the mark the pass ends; otherwise all of them are listed.
LEMMA ImapUidsStep == ASSUME FolderInv, ImapUids PROVE FolderInv'
  <1> DEFINE new == {k \in Listed : k > pass.last}
  <1>1. protocol = "imap" /\ TypeInv /\ pass.pc = "uids" /\ pass \in Passes /\ new \in SUBSET Keys
    BY DEF FolderInv, FlowInv, ImapUids, At, TypeInv, Listed
  <1>2. protocol' = protocol /\ server' = server /\ clock' = clock /\ stamp' = stamp /\ pend' = pend
        /\ torn' = torn /\ prune' = prune /\ owed' = owed /\ rows' = rows
    BY DEF ImapUids, KeepRemote, KeepMarks, KeepHistory
  <1>3. /\ pass.epoch = server.epoch /\ pass.next <= server.next /\ pass.next > 0
        /\ cursor.last = pass.last /\ (~torn => Current)
        /\ server.next \in Nat /\ pass.next \in Nat /\ server.epoch \in Nat /\ cursor.last \in Nat
    BY <1>1 DEF FolderInv, ImapInv, ImapPass, At, Trusted, TypeInv, Passes
  <1>4. Listed' = Listed /\ Stored' = Stored
        /\ \A k \in Keys : Here(k)' = Here(k) /\ Leaving(k)' = Leaving(k)
    BY <1>2 DEF Listed, Here, Leaving, Stored
  <1>5. CASE new = {}
    <2>1. pass' = Idle /\ cursor' = Advanced(Counted(cursor), pass.next - 1) BY <1>5 DEF ImapUids
    <2>2. pass.next - 1 \in Nat BY <1>3
    <2>3. /\ cursor' \in [last : Nat, epoch : Nat, next : Nat, total : Nat,
                          state : Nat \cup {None}, link : Links \cup {None}]
          /\ cursor'.last \in {cursor.last, pass.next - 1} /\ cursor'.epoch = server.epoch
      BY <1>1, <1>3, <2>1, <2>2, CountedFacts, AdvancedFacts
    <2>4. TypeInv' BY <1>1, <1>2, <2>1, <2>3, IdleFacts DEF TypeInv
    <2>5. FlowInv' BY <1>1, <1>2, <2>1, IdleFacts DEF FolderInv, FlowInv
    <2>6. ImapPass' BY <1>2, <1>3, <2>1, <2>3, IdleFacts DEF ImapPass, At
    <2>7. ~torn' => Current'
      <3>1. \A k \in Listed : k <= cursor.last BY <1>3, <1>5, KeysFinite DEF Listed
      <3>. QED BY <1>2, <1>3, <1>4, <2>3, <3>1 DEF Current, Stored, Listed
    <2>. QED BY <1>1, <1>2, <2>1, <2>4, <2>5, <2>6, <2>7, IdleFacts
         DEF FolderInv, ImapInv, JmapInv, GraphInv
  <1>6. CASE new # {}
    <2>1. cursor' = cursor
          /\ pass' = [pass EXCEPT !.pc = "fetch", !.uids = new, !.todo = new, !.have = Stored]
      BY <1>6 DEF ImapUids
    <2>2. pass' \in Passes /\ pass'.pc = "fetch" /\ pass'.last = pass.last /\ pass'.next = pass.next
          /\ pass'.epoch = pass.epoch /\ pass'.uids = new /\ pass'.todo = new /\ pass'.have = Stored
          /\ pass'.failed = pass.failed
      BY <1>1, <2>1 DEF Passes, Steps, Stored
    <2>3. TypeInv' BY <1>1, <1>2, <2>1, <2>2 DEF TypeInv
    <2>4. FlowInv' BY <1>1, <1>2, <2>2 DEF FolderInv, FlowInv
    <2>5. ImapPass' BY <1>1, <1>2, <1>3, <2>1, <2>2 DEF FolderInv, ImapInv, ImapPass, At
    <2>6. ~torn' => Current'
      BY <1>2, <1>3, <1>4, <2>1 DEF Current, Stored, Listed
    <2>7. ~torn' => Backlog'
      <3>1. pass.failed = {} BY <1>1 DEF FolderInv, ImapInv, ImapPass
      <3>2. \A k \in Listed : k < server.next BY <1>1 DEF FolderInv, FlowInv, Listed, Here
      <3>3. ~torn => \A k \in Stored : k < server.next BY <1>3 DEF Current
      <3>. QED BY <1>2, <1>4, <1>6, <2>2, <3>1, <3>2, <3>3 DEF Backlog, At, Stored
    <2>. QED BY <1>1, <1>2, <2>3, <2>4, <2>5, <2>6, <2>7 DEF FolderInv, ImapInv, JmapInv, GraphInv
  <1>. QED BY <1>5, <1>6 DEF ImapUids

\* What is fetched gets a row, unless the user deletes it, or is noted as failed.
LEMMA ImapFetchStep == ASSUME FolderInv, ImapFetch PROVE FolderInv'
  <1> DEFINE chunk == {k \in pass.todo : Cardinality({j \in pass.todo : j >= k}) <= PageSize}
  <1>1. protocol = "imap" /\ TypeInv /\ pass.pc = "fetch" /\ pass \in Passes /\ chunk \in SUBSET Keys
        /\ chunk \subseteq pass.todo
    BY DEF FolderInv, FlowInv, ImapFetch, At, TypeInv, Passes
  <1>2. protocol' = protocol /\ server' = server /\ clock' = clock /\ stamp' = stamp /\ pend' = pend
        /\ torn' = torn /\ prune' = prune /\ owed' = owed /\ cursor' = cursor
    BY DEF ImapFetch, KeepRemote, KeepMarks
  <1>3. PICK bad \in SUBSET chunk :
          LET stored == (chunk \ bad) \ pass.have IN
          /\ {k \in chunk : ~Here(k)} \subseteq bad
          /\ rows' = [k \in Keys |-> IF k \in stored THEN View(k) ELSE rows[k]]
          /\ pass' = [pass EXCEPT !.todo = @ \ chunk, !.failed = @ \cup bad,
                                  !.fresh = @ \cup stored,
                                  !.pc = IF pass.todo = chunk THEN "watermark" ELSE "fetch"]
    BY DEF ImapFetch
  <1> DEFINE stored == (chunk \ bad) \ pass.have
  <1> HIDE DEF chunk
  <1>4. pass' \in Passes /\ pass'.last = pass.last /\ pass'.next = pass.next /\ pass'.epoch = pass.epoch
        /\ pass'.uids = pass.uids /\ pass'.todo = pass.todo \ chunk /\ pass'.have = pass.have
        /\ pass'.failed = pass.failed \cup bad
        /\ pass'.pc = IF pass.todo = chunk THEN "watermark" ELSE "fetch"
    BY <1>1, <1>3 DEF Passes, Steps
  <1>5. \A k \in Keys : k \in stored => Here(k) /\ View(k) \in Shown /\ View(k) # None
                                       /\ View(k).msg = server.box[k].msg
    BY <1>1, <1>3, ViewFacts
  <1>6. TypeInv' BY <1>1, <1>2, <1>3, <1>4, <1>5 DEF TypeInv
  <1>7. FlowInv' BY <1>1, <1>2, <1>4 DEF FolderInv, FlowInv
  <1>8. Listed' = Listed /\ \A k \in Keys : Here(k)' = Here(k) /\ Leaving(k)' = Leaving(k)
    BY <1>2 DEF Listed, Here, Leaving
  <1>9. Stored' = Stored \cup stored
        /\ \A k \in Keys : rows'[k] = IF k \in stored THEN View(k) ELSE rows[k]
    BY <1>1, <1>3, <1>5 DEF Stored
  <1>10. ImapPass' BY <1>1, <1>2, <1>4 DEF FolderInv, ImapInv, ImapPass, At
  <1>11. \A k \in Keys : Here(k) => k < server.next BY <1>1 DEF FolderInv, FlowInv, Here
  <1>12. ~torn => Current /\ Backlog BY <1>1 DEF FolderInv, ImapInv, Trusted, At
  <1>13. ~torn' => Current'
    BY <1>1, <1>2, <1>5, <1>8, <1>9, <1>11, <1>12 DEF Current, Stored, Listed
  <1>14. ~torn' => Backlog'
    <2> SUFFICES ASSUME ~torn PROVE Backlog' BY <1>2
    <2>1. \A k \in Listed \cap pass.uids :
             k \in pass'.todo \/ k \in pass'.failed \/ k \in Stored' \/ Leaving(k)
      <3> SUFFICES ASSUME NEW k \in Listed \cap pass.uids, k \in chunk, k \notin bad, k \in pass.have
                   PROVE  k \in Stored \/ Leaving(k)
        BY <1>4, <1>9, <1>12 DEF Backlog
      <3>. QED BY <1>12 DEF Backlog, Listed
    <2>2. \A k \in pass.have : k < server.next /\ (Here(k) => k \in Stored' \/ Leaving(k))
      BY <1>9, <1>12 DEF Backlog
    <2>3. pass'.todo \subseteq pass.uids /\ pass'.failed \subseteq pass.uids /\ pass.uids # {}
      BY <1>1, <1>4, <1>12 DEF Backlog
    <2>4. pass'.pc = "watermark" => pass'.todo = {} BY <1>4
    <2>. QED BY <1>1, <1>2, <1>4, <1>8, <1>12, <2>1, <2>2, <2>3, <2>4 DEF Backlog, At, Listed, Passes
  <1>. QED BY <1>1, <1>2, <1>6, <1>7, <1>10, <1>13, <1>14 DEF FolderInv, ImapInv, JmapInv, GraphInv

\* The mark stops below what failed, and never passes what is not in the list.
LEMMA ImapWatermarkStep == ASSUME FolderInv, ImapWatermark PROVE FolderInv'
  <1> DEFINE w == SafeWatermark(pass.uids, pass.failed, pass.next)
  <1>1. protocol = "imap" /\ TypeInv /\ pass.pc = "watermark" /\ pass \in Passes
    BY DEF FolderInv, FlowInv, ImapWatermark, At, TypeInv
  <1>2. protocol' = protocol /\ server' = server /\ clock' = clock /\ stamp' = stamp /\ pend' = pend
        /\ torn' = torn /\ prune' = prune /\ owed' = owed /\ rows' = rows
    BY DEF ImapWatermark, KeepRemote, KeepMarks, KeepHistory
  <1>3. pass' \in Passes /\ pass'.pc = "filter" /\ pass'.next = pass.next /\ pass'.epoch = pass.epoch
    BY <1>1, GoFacts DEF ImapWatermark, Steps
  <1>4. pass.next \in Nat /\ pass.next > 0 /\ pass.next <= server.next /\ server.next \in Nat
        /\ pass.uids \in SUBSET Keys /\ pass.failed \in SUBSET Keys /\ cursor.last = pass.last
        /\ cursor.last \in Nat /\ MaxKey \in Nat /\ Keys \subseteq Nat \ {0} /\ \A k \in Keys : k <= MaxKey
    BY <1>1, FolderAssumption DEF FolderInv, ImapInv, ImapPass, At, TypeInv, Passes, Keys
  <1>5. /\ w \in Nat
        /\ w \in pass.uids \/ w = pass.next - 1 \/ w = 0
        /\ \A k \in Keys : k <= w => IF k \in pass.uids THEN k \notin pass.failed
                                     ELSE k < pass.next \/ \E u \in pass.uids : k <= u
    <2>1. CASE pass.failed = {}
      <3> DEFINE S == pass.uids \cup {pass.next - 1}
                 n == MaxKey + pass.next
      <3>1. n \in Nat /\ pass.next - 1 \in Nat /\ pass.next - 1 <= n /\ \A k \in Keys : k <= n BY <1>4
      <3>2. S \in SUBSET Nat /\ S # {} BY <1>4, <3>1
      <3>3. \A y \in S : y <= n BY <1>4, <3>1
      <3> HIDE DEF n
      <3>4. Max(S) \in S BY <3>1, <3>2, <3>3, MaxFacts
      <3>5. w = Max(S) BY <2>1 DEF SafeWatermark
      <3> HIDE DEF w
      <3>6. w \in Nat /\ (w \in pass.uids \/ w = pass.next - 1) BY <3>2, <3>4, <3>5
      <3>7. \A k \in Keys : k <= w => k < pass.next \/ \E u \in pass.uids : k <= u
        <4> SUFFICES ASSUME NEW k \in Keys, k <= w, w \notin pass.uids PROVE k < pass.next OBVIOUS
        <4>1. k \in Nat /\ w = pass.next - 1 BY <3>6, KeysFinite
        <4>. QED BY <1>4, <4>1
      <3>. QED BY <2>1, <3>6, <3>7
    <2>2. CASE pass.failed # {}
      <3> DEFINE m == Min(pass.failed)
                 S == {0} \cup {u \in pass.uids : u < m}
      <3>1. m \in pass.failed /\ \A y \in pass.failed : m <= y BY <1>4, <2>2, MinFacts
      <3>2. S \in SUBSET Nat /\ S # {}
        <4> HIDE DEF m
        <4>1. \A u \in pass.uids : u \in Nat BY <1>4
        <4>. QED BY <4>1
      <3>3. \A y \in S : y <= MaxKey
        <4>1. 0 <= MaxKey BY <1>4
        <4>. QED BY <1>4, <4>1
      <3>4. Max(S) \in S BY <1>4, <3>2, <3>3, MaxFacts
      <3>5. w = Max(S) BY <2>2 DEF SafeWatermark
      <3> HIDE DEF w, m
      <3>6. w \in Nat /\ (w = 0 \/ (w \in pass.uids /\ w < m)) BY <3>2, <3>4, <3>5
      <3>7. m \in Nat /\ \A k \in Keys : k \in Nat /\ k > 0
        <4>1. \A k \in Keys : k \in Nat /\ k # 0 BY KeysFinite
        <4>2. m \in Keys BY <1>4, <3>1
        <4>. QED BY <4>1, <4>2
      <3>8. \A k \in Keys : k <= w => k < m /\ w \in pass.uids BY <3>6, <3>7, <1>4
      <3>9. \A k \in Keys : k <= w => k \notin pass.failed BY <3>1, <3>7, <3>8
      <3>. QED BY <3>6, <3>8, <3>9
    <2>. QED BY <2>1, <2>2
  <1> HIDE DEF w
  <1>6. /\ cursor' \in [last : Nat, epoch : Nat, next : Nat, total : Nat,
                        state : Nat \cup {None}, link : Links \cup {None}]
        /\ cursor'.last = (IF w > cursor.last THEN w ELSE cursor.last) /\ cursor'.epoch = cursor.epoch
    <2>1. cursor' = Advanced(cursor, w) BY DEF ImapWatermark, w
    <2>. QED BY <1>1, <1>5, <2>1, AdvancedFacts DEF TypeInv
  <1>7. TypeInv' BY <1>1, <1>2, <1>3, <1>6 DEF TypeInv
  <1>8. FlowInv' BY <1>1, <1>2, <1>3 DEF FolderInv, FlowInv
  <1>9. ImapPass' BY <1>1, <1>2, <1>3, <1>6 DEF FolderInv, ImapInv, ImapPass, At
  <1>10. Listed' = Listed /\ Stored' = Stored
         /\ \A k \in Keys : Here(k)' = Here(k) /\ Leaving(k)' = Leaving(k)
    BY <1>2 DEF Listed, Here, Leaving, Stored
  <1>11. ~torn => Current /\ Backlog BY <1>1 DEF FolderInv, ImapInv, Trusted, At
  <1>12. ~torn' => Current'
    <2> SUFFICES ASSUME ~torn PROVE Current' BY <1>2
    <2>1. cursor'.last < server.next
      BY <1>4, <1>5, <1>6, <1>11 DEF Current, Backlog
    <2>2. \A k \in Listed : k <= cursor'.last => k \in Stored \/ Leaving(k)
      <3> SUFFICES ASSUME NEW k \in Listed, k <= cursor'.last, ~(k <= cursor.last)
                   PROVE  k \in Stored \/ Leaving(k)
        BY <1>11 DEF Current
      <3>1. k \in Keys /\ k \in Nat /\ k <= w /\ k > pass.last BY <1>4, <1>5, <1>6 DEF Listed
      <3>2. CASE k \in pass.uids
        <4>1. k \notin pass.failed /\ k \notin pass.todo BY <1>1, <1>5, <1>11, <3>1, <3>2 DEF Backlog, At
        <4>. QED BY <1>11, <3>2, <4>1 DEF Backlog
      <3>3. CASE k \notin pass.uids
        <4>1. k >= pass.next /\ \A u \in pass.uids : u < k BY <1>11, <3>1, <3>3 DEF Backlog
        <4>. QED BY <1>4, <1>5, <3>1, <3>3, <4>1
      <3>. QED BY <3>2, <3>3
    <2>. QED BY <1>2, <1>10, <1>11, <2>1, <2>2 DEF Current, Stored, Listed
  <1>. QED BY <1>1, <1>2, <1>3, <1>7, <1>8, <1>9, <1>12 DEF FolderInv, ImapInv, JmapInv, GraphInv

\* The end of a pass stores the epoch that its rows are of.
LEMMA ImapFinishStep == ASSUME FolderInv, ImapFinish PROVE FolderInv'
  <1>1. protocol = "imap" /\ TypeInv /\ pass.pc = "finish" /\ pass.epoch = server.epoch
    BY DEF FolderInv, FlowInv, ImapInv, ImapPass, ImapFinish, At
  <1>2. protocol' = protocol /\ server' = server /\ clock' = clock /\ stamp' = stamp /\ pend' = pend
        /\ torn' = torn /\ prune' = prune /\ owed' = owed /\ rows' = rows /\ pass' = Idle
    BY DEF ImapFinish, KeepRemote, KeepMarks, KeepHistory
  <1>3. /\ cursor' \in [last : Nat, epoch : Nat, next : Nat, total : Nat,
                        state : Nat \cup {None}, link : Links \cup {None}]
        /\ cursor'.last = cursor.last /\ cursor'.epoch = server.epoch /\ server.epoch \in Nat
    BY <1>1, CountedFacts DEF ImapFinish, TypeInv
  <1>4. TypeInv' BY <1>1, <1>2, <1>3, IdleFacts DEF TypeInv
  <1>5. FlowInv' BY <1>1, <1>2, IdleFacts DEF FolderInv, FlowInv
  <1>6. ImapPass' BY <1>2, <1>3, IdleFacts DEF ImapPass, At
  <1>7. ~torn' => Current'
    <2>1. ~torn => Current BY <1>1 DEF FolderInv, ImapInv, Trusted, At
    <2>. QED BY <1>2, <1>3, <2>1 DEF Current, Stored, Listed, Here, Leaving
  <1>. QED BY <1>1, <1>2, <1>4, <1>5, <1>6, <1>7, IdleFacts DEF FolderInv, ImapInv, JmapInv, GraphInv

-----------------------------------------------------------------------------
(* JMAP.                                                                    *)

\* A step that leaves the server alone leaves what it shows.
LEMMA SameServer ==
    ASSUME UNCHANGED server
    PROVE  /\ Listed' = Listed
           /\ \A k \in Keys : Here(k)' = Here(k) /\ View(k)' = View(k) /\ Rank(k)' = Rank(k)
  BY DEF Listed, Here, View, Rank

\* A step that leaves the mirror and the user's change alone, too, leaves what is mirrored.
LEMMA SameMirror ==
    ASSUME UNCHANGED <<server, rows, pend>>
    PROVE  \A k \in Keys : Mirrored(k)' = Mirrored(k)
  BY DEF Mirrored, View, Here, Unsettled

\* A pass begins with nothing, from the stored state or with a listing.
LEMMA JmapBeginStep ==
    ASSUME FolderInv, protocol = "jmap", KeepRemote, UNCHANGED <<mirror, pend, torn>>,
           \/ pass' = [Idle EXCEPT !.pc = "query", !.full = TRUE]
           \/ cursor.state # None /\ pass' = [Idle EXCEPT !.pc = "changes", !.state = cursor.state],
           pass.pc # "tombstones"
    PROVE  FolderInv'
  <1>1. protocol' = protocol /\ server' = server /\ clock' = clock /\ stamp' = stamp /\ pend' = pend
        /\ torn' = torn /\ prune' = prune /\ owed' = owed /\ rows' = rows /\ cursor' = cursor
        /\ TypeInv
    BY DEF KeepRemote, mirror, FolderInv
  <1>2. /\ pass' \in Passes /\ pass'.out = {} /\ pass'.pages = 0 /\ \A k \in Keys : pass'.got[k] = None
        /\ \/ pass'.pc = "query" /\ pass'.full /\ pass'.state = 0
           \/ pass'.pc = "changes" /\ ~pass'.full /\ pass'.state = cursor.state /\ cursor.state # None
    <2>1. CASE pass' = [Idle EXCEPT !.pc = "query", !.full = TRUE] BY <2>1, IdleFacts DEF Passes, Steps
    <2>2. CASE /\ cursor.state # None
               /\ pass' = [Idle EXCEPT !.pc = "changes", !.state = cursor.state]
      <3>1. cursor.state \in Nat BY <1>1, <2>2 DEF TypeInv
      <3>. QED BY <2>2, <3>1, IdleFacts DEF Passes, Steps
    <2>. QED BY <2>1, <2>2
  <1>3. TypeInv' BY <1>1, <1>2 DEF TypeInv
  <1>4. FlowInv' BY <1>1, <1>2 DEF FolderInv, FlowInv
  <1>5. \A k \in Keys : Mirrored(k)' = Mirrored(k) BY <1>1, SameMirror
  <1>6. JmapPass' BY <1>1, <1>2 DEF FolderInv, JmapInv, JmapPass, TypeInv
  <1>7. ~torn' => JmapShown' /\ JmapDelta' /\ JmapListing' /\ JmapRemovals'
    <2> SUFFICES ASSUME ~torn PROVE JmapShown' /\ JmapDelta' /\ JmapListing' /\ JmapRemovals' BY <1>1
    <2>1. JmapShown' BY <1>1, <1>5 DEF FolderInv, JmapInv, JmapShown, At
    <2>2. cursor.state # None => /\ cursor.state <= cursor.state
                                 /\ \A k \in Keys : ~(stamp[k] <= cursor.state /\ stamp[k] > cursor.state)
      BY <1>1 DEF TypeInv
    <2>3. JmapDelta' BY <1>1, <1>2, <2>2 DEF JmapDelta, At
    <2>4. JmapListing' BY <1>1, <1>2 DEF JmapListing, At
    <2>5. JmapRemovals' BY <1>2 DEF JmapRemovals, At
    <2>. QED BY <2>1, <2>3, <2>4, <2>5
  <1>. QED BY <1>1, <1>3, <1>4, <1>6, <1>7 DEF FolderInv, ImapInv, JmapInv, GraphInv

\* A page of changes holds what its messages are now.
LEMMA JmapChangesStep == ASSUME FolderInv, JmapChanges PROVE FolderInv'
  <1>1. protocol = "jmap" /\ TypeInv /\ pass.pc = "changes" /\ pass \in Passes
    BY DEF FolderInv, FlowInv, JmapChanges, At, TypeInv
  <1>2. protocol' = protocol /\ server' = server /\ clock' = clock /\ stamp' = stamp /\ pend' = pend
        /\ torn' = torn /\ prune' = prune /\ owed' = owed /\ rows' = rows /\ cursor' = cursor
    BY DEF JmapChanges, KeepRemote, KeepHistory, mirror
  <1>3. PICK upto \in pass.state..clock :
          LET page == {k \in Keys : stamp[k] > pass.state /\ stamp[k] <= upto} IN
          pass' = [pass EXCEPT
                !.got = [k \in Keys |-> IF k \in page /\ Here(k) THEN View(k) ELSE @[k]],
                !.out = @ \cup {k \in page : ~Here(k)},
                !.state = upto, !.pc = IF upto = clock THEN "apply" ELSE "changes"]
    BY DEF JmapChanges
  <1> DEFINE page == {k \in Keys : stamp[k] > pass.state /\ stamp[k] <= upto}
  <1>4. pass.state \in Nat /\ clock \in Nat /\ upto \in Nat /\ pass.state <= upto /\ upto <= clock
        /\ \A k \in Keys : stamp[k] \in Nat
    BY <1>1, <1>3 DEF TypeInv, Passes
  <1>5. /\ pass'.got = [k \in Keys |-> IF k \in page /\ Here(k) THEN View(k) ELSE pass.got[k]]
        /\ pass'.out = pass.out \cup {k \in page : ~Here(k)} /\ pass'.state = upto
        /\ pass'.full = pass.full /\ pass'.pc \in {"changes", "apply"}
    BY <1>1, <1>3 DEF Passes
  <1>6. pass' \in Passes
    <2>1. pass'.got \in [Keys -> Shown \cup {None}]
      <3>1. \A k \in Keys : View(k) \in Shown \cup {None} /\ pass.got[k] \in Shown \cup {None}
        BY <1>1, ViewFacts DEF Passes
      <3>. QED BY <1>5, <3>1
    <2>2. pass'.out \in SUBSET Keys BY <1>1, <1>5 DEF Passes
    <2>3. pass' = [pass EXCEPT !.got = pass'.got, !.out = pass'.out, !.state = upto,
                               !.pc = pass'.pc]
      BY <1>1, <1>3 DEF Passes
    <2>. QED BY <1>1, <1>4, <1>5, <2>1, <2>2, <2>3 DEF Passes, Steps
  <1>7. TypeInv' BY <1>1, <1>2, <1>6 DEF TypeInv
  <1>8. FlowInv' BY <1>1, <1>2, <1>5 DEF FolderInv, FlowInv
  <1>9. ~pass.full /\ JmapPass BY <1>1 DEF FolderInv, JmapInv, JmapPass
  <1>10. JmapPass' BY <1>2, <1>4, <1>5, <1>9 DEF JmapPass
  <1>11. ~torn' => JmapShown' /\ JmapDelta' /\ JmapListing' /\ JmapRemovals'
    <2> SUFFICES ASSUME ~torn PROVE JmapShown' /\ JmapDelta' /\ JmapListing' /\ JmapRemovals' BY <1>2
    <2>1. JmapShown /\ JmapDelta BY <1>1 DEF FolderInv, JmapInv
    <2>2. \A k \in Keys : Mirrored(k)' = Mirrored(k) /\ Here(k)' = Here(k) /\ View(k)' = View(k)
      BY <1>2, SameMirror, SameServer
    <2>3. JmapShown' BY <1>1, <1>2, <1>5, <2>1, <2>2 DEF JmapShown, At
    <2>4. cursor.state # None /\ cursor.state \in Nat /\ cursor.state <= pass.state
          /\ \A k \in pass.out : ~Here(k) /\ k < server.next
      BY <1>1, <1>9, <2>1 DEF JmapDelta, At, TypeInv
    <2>5. \A k \in pass'.out : k \in Keys /\ ~Here(k) /\ k < server.next
      <3>1. \A k \in page : k < server.next BY <1>1, <1>4 DEF FolderInv, FlowInv
      <3>. QED BY <1>1, <1>5, <2>4, <3>1 DEF Passes
    <2>6. \A k \in Keys : pass'.got[k] # None => stamp[k] > cursor.state
      <3> SUFFICES ASSUME NEW k \in Keys, pass'.got[k] # None PROVE stamp[k] > cursor.state OBVIOUS
      <3>1. CASE k \in page BY <1>4, <2>4, <3>1
      <3>2. CASE k \notin page
        <4>1. pass.got[k] # None BY <1>5, <3>2
        <4>. QED BY <1>1, <1>9, <2>1, <4>1 DEF JmapDelta
      <3>. QED BY <3>1, <3>2
    <2>7. \A k \in Keys : stamp[k] <= upto /\ stamp[k] > cursor.state =>
             IF Here(k) THEN pass'.got[k] = View(k) ELSE k \in pass'.out
      <3> SUFFICES ASSUME NEW k \in Keys, stamp[k] <= upto, stamp[k] > cursor.state
                   PROVE  IF Here(k) THEN pass'.got[k] = View(k) ELSE k \in pass'.out
        OBVIOUS
      <3>1. CASE k \in page BY <1>5, <3>1
      <3>2. CASE k \notin page
        <4>1. stamp[k] <= pass.state BY <1>4, <3>2
        <4>2. IF Here(k) THEN pass.got[k] = View(k) ELSE k \in pass.out
          BY <1>1, <1>9, <2>1, <4>1 DEF JmapDelta
        <4>. QED BY <1>5, <3>2, <4>2
      <3>. QED BY <3>1, <3>2
    <2>8. JmapDelta' BY <1>2, <1>4, <1>5, <2>2, <2>4, <2>5, <2>6, <2>7 DEF JmapDelta, At
    <2>9. JmapListing' /\ JmapRemovals' BY <1>5, <1>9 DEF JmapListing, JmapRemovals, At
    <2>. QED BY <2>3, <2>8, <2>9
  <1>. QED BY <1>1, <1>2, <1>7, <1>8, <1>10, <1>11 DEF FolderInv, ImapInv, JmapInv, GraphInv

\* A page of the listing extends it to the next ranks, and a short page to all.
LEMMA JmapQueryStep == ASSUME FolderInv, JmapQuery PROVE FolderInv'
  <1> DEFINE a == pass.pages * PageSize
             page == {k \in Listed : Rank(k) > a /\ Rank(k) <= a + PageSize}
  <1>1. protocol = "jmap" /\ TypeInv /\ pass.pc = "query" /\ pass \in Passes /\ pass.pages \in Nat
        /\ clock \in Nat /\ pass.state \in Nat
    BY DEF FolderInv, FlowInv, JmapQuery, At, TypeInv, Passes
  <1>2. protocol' = protocol /\ server' = server /\ clock' = clock /\ stamp' = stamp /\ pend' = pend
        /\ torn' = torn /\ prune' = prune /\ owed' = owed /\ rows' = rows /\ cursor' = cursor
    BY DEF JmapQuery, KeepRemote, KeepHistory, mirror
  <1>3. a \in Nat /\ (pass.pages + 1) * PageSize = a + PageSize /\ PageSize \in Nat \ {0}
    BY <1>1, FolderAssumption
  <1>4. pass' = [pass EXCEPT !.got = [k \in Keys |-> IF k \in page THEN View(k) ELSE @[k]],
                             !.state = IF pass.pages = 0 THEN clock ELSE @, !.pages = @ + 1,
                             !.pc = IF Cardinality(page) < PageSize THEN "apply" ELSE "query"]
    BY <1>3 DEF JmapQuery, Rank
  <1> HIDE DEF page, a
  <1>5. /\ pass'.got = [k \in Keys |-> IF k \in page THEN View(k) ELSE pass.got[k]]
        /\ pass'.state = (IF pass.pages = 0 THEN clock ELSE pass.state)
        /\ pass'.pages = pass.pages + 1 /\ pass'.full = pass.full
        /\ pass'.pc = (IF Cardinality(page) < PageSize THEN "apply" ELSE "query")
    BY <1>1, <1>4 DEF Passes
  <1>6. pass' \in Passes
    <2>1. pass'.got \in [Keys -> Shown \cup {None}]
      <3>1. \A k \in Keys : View(k) \in Shown \cup {None} /\ pass.got[k] \in Shown \cup {None}
        BY <1>1, ViewFacts DEF Passes
      <3>. QED BY <1>5, <3>1
    <2>2. pass' = [pass EXCEPT !.got = pass'.got, !.state = pass'.state, !.pages = pass'.pages,
                               !.pc = pass'.pc]
      BY <1>1, <1>4 DEF Passes
    <2>3. pass'.state \in Nat /\ pass'.pages \in Nat /\ pass'.pc \in Steps BY <1>1, <1>5 DEF Steps
    <2>. QED BY <1>1, <2>1, <2>2, <2>3 DEF Passes
  <1>7. TypeInv' BY <1>1, <1>2, <1>6 DEF TypeInv
  <1>8. FlowInv' BY <1>1, <1>2, <1>5 DEF FolderInv, FlowInv
  <1>9. pass.full /\ JmapPass BY <1>1 DEF FolderInv, JmapInv, JmapPass
  <1>10. JmapPass' BY <1>1, <1>2, <1>5, <1>9 DEF JmapPass
  <1>11. ~torn' => JmapShown' /\ JmapDelta' /\ JmapListing' /\ JmapRemovals'
    <2> SUFFICES ASSUME ~torn PROVE JmapShown' /\ JmapDelta' /\ JmapListing' /\ JmapRemovals' BY <1>2
    <2>1. JmapShown /\ JmapListing BY <1>1 DEF FolderInv, JmapInv
    <2>2. \A k \in Keys : Mirrored(k)' = Mirrored(k) /\ Here(k)' = Here(k) /\ View(k)' = View(k)
                          /\ Rank(k)' = Rank(k)
      BY <1>2, SameMirror, SameServer
    <2>3. JmapShown' BY <1>1, <1>2, <1>5, <2>1, <2>2 DEF JmapShown, At
    <2>4. JmapDelta' /\ JmapRemovals' BY <1>5, <1>9 DEF JmapDelta, JmapRemovals, At
    <2>5. \A k \in Listed : Rank(k) \in Nat \ {0}
      BY RankFacts DEF Rank, Listed
    <2>6. \A k \in Keys : k \in page => Here(k) BY DEF page, Listed
    <2>7. Cardinality(page) < PageSize => \A k \in Listed : Rank(k) <= a + PageSize
      <3>1. Listed \in SUBSET Keys BY DEF Listed
      <3>. QED BY <1>3, <3>1, LastPage DEF page, Rank
    <2>8. ASSUME NEW k \in Keys, stamp[k] <= pass'.state
          PROVE  /\ pass'.got[k] # None => pass'.got[k] = View(k)
                 /\ Here(k) /\ Rank(k) <= a + PageSize => pass'.got[k] # None
      <3>1. Here(k) => View(k) # None BY <1>1, ViewFacts
      <3>2. CASE k \in page BY <1>5, <2>6, <3>1, <3>2
      <3>3. CASE k \notin page
        <4>1. pass'.got[k] = pass.got[k] BY <1>5, <3>3
        <4>2. Here(k) /\ Rank(k) <= a + PageSize => Rank(k) <= a /\ Rank(k) \in Nat \ {0}
          BY <1>3, <2>5, <3>3 DEF page, Listed
        <4>3. CASE pass.pages = 0
          <5>1. a = 0 BY <1>3, <4>3 DEF a
          <5>2. pass.got[k] = None BY <1>1, <2>1, <4>3 DEF JmapListing
          <5>. QED BY <4>1, <4>2, <5>1, <5>2
        <4>4. CASE pass.pages > 0
          <5>1. stamp[k] <= pass.state BY <1>1, <1>5, <2>8, <4>4
          <5>2. /\ pass.got[k] # None => pass.got[k] = View(k)
                /\ Here(k) /\ Rank(k) <= a => pass.got[k] # None
            BY <1>1, <1>9, <2>1, <4>4, <5>1 DEF JmapListing, a
          <5>. QED BY <4>1, <4>2, <5>2
        <4>. QED BY <1>1, <4>3, <4>4
      <3>. QED BY <3>2, <3>3
    <2>9. JmapListing'
      <3>1. pass'.pages > 0 /\ pass'.pages # 0 /\ pass'.pages * PageSize = a + PageSize
        BY <1>1, <1>3, <1>5
      <3>2. pass'.pc = "apply" => \A k \in Keys : Here(k) => Rank(k) <= a + PageSize
        BY <1>5, <2>7 DEF Listed
      <3>. QED BY <1>2, <1>5, <2>2, <2>8, <3>1, <3>2 DEF JmapListing, At
    <2>. QED BY <2>3, <2>4, <2>9
  <1>. QED BY <1>1, <1>2, <1>7, <1>8, <1>10, <1>11 DEF FolderInv, ImapInv, JmapInv, GraphInv

\* The rows that came show the folder up to the pass's state, but for the removals.
LEMMA JmapApplyStep == ASSUME FolderInv, JmapApply PROVE FolderInv'
  <1> DEFINE came == {k \in Keys : pass.got[k] # None}
  <1>1. protocol = "jmap" /\ TypeInv /\ pass.pc = "apply" /\ pass \in Passes /\ pass.state \in Nat
    BY DEF FolderInv, FlowInv, JmapApply, At, TypeInv, Passes
  <1>2. protocol' = protocol /\ server' = server /\ clock' = clock /\ stamp' = stamp /\ pend' = pend
        /\ torn' = torn /\ prune' = prune /\ owed' = owed
    BY DEF JmapApply, KeepRemote, KeepMarks, KeepHistory
  <1>3. /\ rows' = [k \in Keys |-> IF k \in came THEN pass.got[k] ELSE rows[k]]
        /\ cursor' = [cursor EXCEPT !.state = pass.state]
        /\ pass' = IF ~pass.full /\ came = {} /\ pass.out = {} THEN Idle
                   ELSE [pass EXCEPT !.pc = "tombstones", !.fresh = came \ Stored]
    BY DEF JmapApply
  <1>4. /\ rows' \in [Keys -> Shown \cup {None}]
        /\ cursor' \in [last : Nat, epoch : Nat, next : Nat, total : Nat,
                        state : Nat \cup {None}, link : Links \cup {None}]
        /\ cursor'.state = pass.state
    BY <1>1, <1>3 DEF TypeInv, Passes
  <1>5. \/ pass' = Idle /\ ~pass.full /\ came = {} /\ pass.out = {}
        \/ /\ pass' \in Passes /\ pass'.pc = "tombstones" /\ pass'.got = pass.got /\ pass'.out = pass.out
           /\ pass'.full = pass.full /\ pass'.state = pass.state
    BY <1>1, <1>3 DEF Passes, Steps
  <1>6. TypeInv' BY <1>1, <1>2, <1>4, <1>5, IdleFacts DEF TypeInv
  <1>7. FlowInv' BY <1>1, <1>2, <1>5, IdleFacts DEF FolderInv, FlowInv
  <1>8. JmapPass' BY <1>1, <1>2, <1>4, <1>5, IdleFacts DEF FolderInv, JmapInv, JmapPass, TypeInv
  <1>9. ~torn' => JmapShown' /\ JmapDelta' /\ JmapListing' /\ JmapRemovals'
    <2> SUFFICES ASSUME ~torn PROVE JmapShown' /\ JmapDelta' /\ JmapListing' /\ JmapRemovals' BY <1>2
    <2>1. JmapShown /\ JmapDelta /\ JmapListing BY <1>1 DEF FolderInv, JmapInv
    <2>2. \A k \in Keys : Here(k)' = Here(k) /\ View(k)' = View(k) BY <1>2, SameServer
    <2>3. \A k \in Keys : /\ pass.got[k] = View(k) /\ pass.got[k] # None => Mirrored(k)'
                          /\ pass.got[k] = None /\ Mirrored(k) => Mirrored(k)'
      BY <1>2, <1>3, <2>2 DEF Mirrored, Unsettled
    <2>4. ASSUME NEW k \in Keys, stamp[k] <= pass.state
          PROVE  IF k \in Went THEN ~Here(k) ELSE Mirrored(k)'
      <3>1. Here(k) => View(k) # None BY <1>1, ViewFacts
      <3>2. CASE pass.full
        <4>1. /\ pass.got[k] # None => pass.got[k] = View(k)
              /\ Here(k) => pass.got[k] # None
          BY <1>1, <2>1, <2>4, <3>2 DEF JmapListing, At
        <4>. QED BY <2>3, <3>2, <4>1 DEF Went
      <3>3. CASE ~pass.full
        <4>1. /\ cursor.state # None /\ cursor.state \in Nat /\ stamp[k] \in Nat
              /\ pass.got[k] # None => stamp[k] > cursor.state
              /\ k \in pass.out => ~Here(k)
              /\ stamp[k] > cursor.state => IF Here(k) THEN pass.got[k] = View(k) ELSE k \in pass.out
          BY <1>1, <2>1, <2>4, <3>3 DEF JmapDelta, TypeInv
        <4>2. CASE stamp[k] > cursor.state BY <2>3, <3>1, <3>3, <4>1, <4>2 DEF Went
        <4>3. CASE stamp[k] <= cursor.state
          <5>1. pass.got[k] = None BY <4>1, <4>3
          <5>2. Mirrored(k) BY <1>1, <2>1, <4>1, <4>3 DEF JmapShown, At
          <5>. QED BY <2>3, <3>3, <4>1, <5>1, <5>2 DEF Went
        <4>. QED BY <4>1, <4>2, <4>3
      <3>. QED BY <3>2, <3>3
    <2>5. CASE pass' = Idle /\ ~pass.full /\ came = {} /\ pass.out = {}
      <3>1. Went = {} BY <2>5 DEF Went
      <3>2. \A k \in Keys : stamp[k] <= pass.state => Mirrored(k)' BY <2>4, <3>1
      <3>. QED BY <1>2, <1>4, <2>5, <3>2, IdleFacts DEF JmapShown, JmapDelta, JmapListing, JmapRemovals, At
    <2>6. CASE /\ pass' \in Passes /\ pass'.pc = "tombstones" /\ pass'.got = pass.got
               /\ pass'.out = pass.out /\ pass'.full = pass.full /\ pass'.state = pass.state
      <3>1. Went' = Went BY <2>6 DEF Went
      <3>. QED BY <1>2, <1>4, <2>2, <2>4, <2>6, <3>1 DEF JmapShown, JmapDelta, JmapListing, JmapRemovals, At
    <2>. QED BY <1>5, <2>5, <2>6
  <1>. QED BY <1>1, <1>2, <1>6, <1>7, <1>8, <1>9 DEF FolderInv, ImapInv, JmapInv, GraphInv

\* With the removals the folder is shown up to the stored state.
LEMMA JmapTombstonesStep == ASSUME FolderInv, JmapTombstones PROVE FolderInv'
  <1>1. protocol = "jmap" /\ TypeInv /\ pass.pc = "tombstones" /\ pass \in Passes
    BY DEF FolderInv, FlowInv, JmapTombstones, At, TypeInv
  <1>2. protocol' = protocol /\ server' = server /\ clock' = clock /\ stamp' = stamp /\ pend' = pend
        /\ torn' = torn /\ prune' = prune /\ owed' = owed /\ cursor' = cursor
        /\ rows' = [k \in Keys |-> IF k \in Went THEN None ELSE rows[k]]
    BY DEF JmapTombstones, KeepRemote, KeepMarks, KeepHistory, Went
  <1>3. pass' \in Passes /\ pass'.pc = "filter" /\ pass'.state = pass.state
    BY <1>1, GoFacts DEF JmapTombstones, Steps
  <1>4. TypeInv' BY <1>1, <1>2, <1>3 DEF TypeInv
  <1>5. FlowInv' BY <1>1, <1>2, <1>3 DEF FolderInv, FlowInv
  <1>6. JmapPass' BY <1>1, <1>2, <1>3 DEF FolderInv, JmapInv, JmapPass
  <1>7. ~torn' => JmapShown' /\ JmapDelta' /\ JmapListing' /\ JmapRemovals'
    <2> SUFFICES ASSUME ~torn PROVE JmapShown' /\ JmapDelta' /\ JmapListing' /\ JmapRemovals' BY <1>2
    <2>1. JmapRemovals BY <1>1 DEF FolderInv, JmapInv
    <2>2. \A k \in Keys : Here(k)' = Here(k) /\ View(k)' = View(k) BY <1>2, SameServer
    <2>3. \A k \in Keys : /\ k \in Went /\ ~Here(k) => Mirrored(k)'
                          /\ k \notin Went /\ Mirrored(k) => Mirrored(k)'
      BY <1>1, <1>2, <2>2, ViewFacts DEF Mirrored, Unsettled
    <2>4. JmapShown' BY <1>1, <1>2, <2>1, <2>3 DEF JmapShown, JmapRemovals, At
    <2>5. JmapDelta' /\ JmapListing' /\ JmapRemovals' BY <1>3 DEF JmapDelta, JmapListing, JmapRemovals, At
    <2>. QED BY <2>4, <2>5
  <1>. QED BY <1>1, <1>2, <1>4, <1>5, <1>6, <1>7 DEF FolderInv, ImapInv, JmapInv, GraphInv

-----------------------------------------------------------------------------
(* Graph.                                                                   *)

\* Without a link every row is to be pruned unless it is listed.
LEMMA GraphBeginStep == ASSUME FolderInv, GraphBegin PROVE FolderInv'
  <1>1. protocol = "graph" /\ TypeInv /\ Stored \in SUBSET Keys BY DEF FolderInv, GraphBegin, Stored
  <1>2. protocol' = protocol /\ server' = server /\ clock' = clock /\ stamp' = stamp /\ pend' = pend
        /\ torn' = torn /\ owed' = owed /\ rows' = rows /\ cursor' = cursor
        /\ prune' = IF cursor.link = None THEN Stored ELSE prune
    BY DEF GraphBegin, KeepRemote, KeepHistory
  <1>3. pass' \in Passes /\ pass'.pc = "page" /\ pass'.have = Stored
    <2>1. pass' = [Idle EXCEPT !.pc = "page", !.have = Stored, !.fresh = owed] /\ owed \in SUBSET Keys
      BY <1>1 DEF GraphBegin, TypeInv
    <2>. QED BY <1>1, <2>1, IdleFacts DEF Passes, Steps
  <1>4. TypeInv' BY <1>1, <1>2, <1>3 DEF TypeInv
  <1>5. FlowInv' BY <1>1, <1>2, <1>3 DEF FolderInv, FlowInv
  <1>6. Stored' = Stored /\ \A k \in Keys : Mirrored(k)' = Mirrored(k) /\ Here(k)' = Here(k)
    BY <1>2, SameMirror, SameServer DEF Stored
  <1>7. GraphPass'
    <2>1. \A k \in Stored : rows[k] # None BY DEF Stored
    <2>. QED BY <1>1, <1>2, <1>3, <1>6, <2>1 DEF FolderInv, GraphInv, GraphPass
  <1>8. GraphLink' BY <1>1, <1>2, <1>6 DEF FolderInv, GraphInv, GraphLink
  <1>. QED BY <1>1, <1>2, <1>4, <1>5, <1>7, <1>8 DEF FolderInv, ImapInv, JmapInv, GraphInv

\* What a request has to report: what it leaves out is shown, or gone and to be pruned.
LEMMA RoundFacts ==
    ASSUME FolderInv, protocol = "graph", At("page")
    PROVE  /\ Round \in Links /\ Round.goal <= clock
           /\ \A k \in Round.todo : k < server.next
           /\ \A k \in Keys \ Round.todo : stamp[k] <= Round.goal =>
                 /\ Mirrored(k) \/ (~Here(k) /\ k \in prune)
                 /\ k \in prune => ~Here(k)
  <1>1. TypeInv /\ FlowInv /\ GraphPass /\ GraphLink /\ clock \in Nat BY DEF FolderInv, GraphInv, TypeInv
  <1>2. CASE cursor.link = None
    <2>1. Round = [todo |-> Listed, goal |-> clock] BY <1>2 DEF Round
    <2>2. Round \in Links /\ Round.todo = Listed /\ Round.goal = clock BY <1>1, <2>1 DEF Links, Listed
    <2>3. \A k \in Listed : k < server.next BY <1>1 DEF FlowInv, Listed, Here
    <2>4. \A k \in Keys \ Listed : ~Here(k) /\ View(k) = None BY <1>1, ViewFacts DEF Listed
    <2>5. \A k \in Keys \ Listed : Mirrored(k) \/ k \in prune
      BY <1>1, <1>2, <2>4 DEF GraphPass, Stored, Mirrored
    <2>. QED BY <1>1, <2>2, <2>3, <2>4, <2>5
  <1>3. CASE cursor.link # None /\ cursor.link.todo = {}
    <2>1. cursor.link \in Links /\ cursor.link.goal \in Nat BY <1>1, <1>3 DEF TypeInv, Links
    <2>2. Round = [todo |-> {k \in Keys : stamp[k] > cursor.link.goal}, goal |-> clock]
      BY <1>3 DEF Round
    <2>3. Round \in Links /\ Round.todo = {k \in Keys : stamp[k] > cursor.link.goal} /\ Round.goal = clock
      BY <1>1, <2>2 DEF Links
    <2>4. \A k \in Keys : stamp[k] \in Nat /\ (stamp[k] > 0 => k < server.next) BY <1>1 DEF TypeInv, FlowInv
    <2>5. \A k \in Round.todo : k < server.next BY <2>1, <2>3, <2>4
    <2>6. \A k \in Keys \ Round.todo : stamp[k] <= cursor.link.goal BY <2>1, <2>3, <2>4
    <2>. QED BY <1>1, <1>3, <2>3, <2>5, <2>6 DEF GraphLink
  <1>4. CASE cursor.link # None /\ cursor.link.todo # {}
    BY <1>1, <1>4 DEF Round, GraphLink, TypeInv
  <1>. QED BY <1>2, <1>3, <1>4

\* A page's messages are shown as they are, and nothing else changes.
LEMMA GraphPageStep == ASSUME FolderInv, GraphPage PROVE FolderInv'
  <1>1. protocol = "graph" /\ TypeInv /\ pass.pc = "page" /\ At("page") /\ pass \in Passes
        /\ GraphPass /\ GraphLink
    BY DEF FolderInv, FlowInv, GraphPage, At, TypeInv, GraphInv
  <1>2. protocol' = protocol /\ server' = server /\ clock' = clock /\ stamp' = stamp /\ pend' = pend
        /\ torn' = torn
    BY DEF GraphPage, KeepRemote, KeepHistory
  <1>3. PICK page \in SUBSET Round.todo : \E echo \in SUBSET {k \in page : ~Here(k)} :
          LET went == {k \in page : ~Here(k)}
              came == (page \ went) \cup echo
              inserted == came \ pass.have
              rest == Round.todo \ page
              seenAs(k) == IF Here(k) THEN View(k) ELSE Row(k, FALSE) IN
          /\ rows' = [k \in Keys |-> IF k \in went THEN None
                                     ELSE IF k \in inserted \/ (k \in came /\ rows[k] # None)
                                     THEN seenAs(k) ELSE rows[k]]
          /\ prune' = prune \ page
          /\ owed' = (owed \cup inserted) \ went
          /\ cursor' = [cursor EXCEPT !.link = [todo |-> rest, goal |-> Round.goal]]
          /\ pass' = [pass EXCEPT !.have = (@ \cup inserted) \ went,
                                  !.fresh = (@ \cup inserted) \ went, !.pages = @ + 1,
                                  !.pc = IF rest = {} THEN "prune"
                                         ELSE IF pass.pages + 1 < MaxPages THEN "page" ELSE "filter"]
    BY DEF GraphPage
  <1> DEFINE went == {k \in page : ~Here(k)}
             live == page \ went
             rest == Round.todo \ page
  <1>4. Round \in Links /\ Round.goal \in Nat /\ Round.todo \in SUBSET Keys /\ Round.goal <= clock
        /\ (\A k \in Round.todo : k < server.next)
        /\ \A k \in Keys \ Round.todo : stamp[k] <= Round.goal =>
                 /\ Mirrored(k) \/ (~Here(k) /\ k \in prune)
                 /\ k \in prune => ~Here(k)
    BY <1>1, RoundFacts DEF Links
  <1>5. PICK echo \in SUBSET went :
          LET came == live \cup echo
              inserted == came \ pass.have
              seenAs(k) == IF Here(k) THEN View(k) ELSE Row(k, FALSE) IN
          /\ rows' = [k \in Keys |-> IF k \in went THEN None
                                     ELSE IF k \in inserted \/ (k \in came /\ rows[k] # None)
                                     THEN seenAs(k) ELSE rows[k]]
          /\ prune' = prune \ page
          /\ owed' = (owed \cup inserted) \ went
          /\ cursor' = [cursor EXCEPT !.link = [todo |-> rest, goal |-> Round.goal]]
          /\ pass' = [pass EXCEPT !.have = (@ \cup inserted) \ went,
                                  !.fresh = (@ \cup inserted) \ went, !.pages = @ + 1,
                                  !.pc = IF rest = {} THEN "prune"
                                         ELSE IF pass.pages + 1 < MaxPages THEN "page" ELSE "filter"]
    BY <1>3
  <1> DEFINE inserted == (live \cup echo) \ pass.have
  <1>6. /\ page \in SUBSET Keys /\ went \in SUBSET Keys /\ live \in SUBSET Keys
        /\ inserted \in SUBSET Keys /\ inserted \subseteq page /\ page = live \cup went
        /\ \A k \in live : Here(k) /\ View(k) \in Shown /\ View(k) # None
        /\ \A k \in went : ~Here(k) /\ View(k) = None
        /\ \A k \in page : k < server.next
    BY <1>1, <1>4, ViewFacts
  <1>7. rows' = [k \in Keys |-> IF k \in went THEN None
                                ELSE IF k \in live /\ (k \notin pass.have \/ rows[k] # None)
                                THEN View(k) ELSE rows[k]]
    BY <1>5, <1>6
  <1>8. prune' = prune \ page /\ owed' = (owed \cup inserted) \ went
        /\ cursor' = [cursor EXCEPT !.link = [todo |-> rest, goal |-> Round.goal]]
    BY <1>5
  <1>9. pass' \in Passes /\ pass'.pc \in {"page", "prune", "filter"}
        /\ pass'.have = (pass.have \cup inserted) \ went
    <2>1. pass' = [pass EXCEPT !.have = (@ \cup inserted) \ went,
                                  !.fresh = (@ \cup inserted) \ went, !.pages = @ + 1,
                                  !.pc = IF rest = {} THEN "prune"
                                         ELSE IF pass.pages + 1 < MaxPages THEN "page" ELSE "filter"]
      BY <1>5
    <2>2. pass.have \in SUBSET Keys /\ pass.fresh \in SUBSET Keys /\ pass.pages + 1 \in Nat
      BY <1>1 DEF Passes
    <2> HIDE DEF inserted, went, rest
    <2>. QED BY <1>1, <1>6, <2>1, <2>2 DEF Passes, Steps
  <1>10. cursor'.link = [todo |-> rest, goal |-> Round.goal] /\ cursor'.link \in Links
         /\ cursor'.link.todo = rest /\ cursor'.link.goal = Round.goal /\ cursor'.link # None
         /\ cursor' \in [last : Nat, epoch : Nat, next : Nat, total : Nat,
                        state : Nat \cup {None}, link : Links \cup {None}]
    <2> DEFINE new == [todo |-> rest, goal |-> Round.goal]
    <2>1. new \in Links /\ new.todo = rest /\ new.goal = Round.goal BY <1>4 DEF Links
    <2>2. cursor' = [cursor EXCEPT !.link = new] BY <1>8
    <2> HIDE DEF new
    <2>3. cursor'.link = new
          /\ cursor' \in [last : Nat, epoch : Nat, next : Nat, total : Nat,
                         state : Nat \cup {None}, link : Links \cup {None}]
      BY <1>1, <2>1, <2>2 DEF TypeInv
    <2>. QED BY <2>1, <2>3, NoneAssumption DEF new
  <1> HIDE DEF inserted, went, live, rest
  <1>11. rows' \in [Keys -> Shown \cup {None}] BY <1>1, <1>6, <1>7 DEF TypeInv
  <1>12. TypeInv' BY <1>1, <1>2, <1>6, <1>8, <1>9, <1>10, <1>11 DEF TypeInv
  <1>13. FlowInv' BY <1>1, <1>2, <1>9 DEF FolderInv, FlowInv
  <1>14. \A k \in Keys : Here(k)' = Here(k) /\ View(k)' = View(k) /\ Leaving(k)' = Leaving(k)
                         /\ Unsettled(k)' = Unsettled(k)
    BY <1>2, SameServer DEF Leaving, Unsettled
  <1>15. \A k \in Keys :
            /\ k \in live => rows'[k] = View(k) \/ (k \in pass.have /\ rows[k] = None /\ rows'[k] = None)
            /\ k \in went => rows'[k] = None
            /\ k \notin page => rows'[k] = rows[k]
    BY <1>6, <1>7
  <1>16. GraphPass'
    <2>1. \A k \in Stored' : k < server.next
      <3> SUFFICES ASSUME NEW k \in Keys, rows'[k] # None PROVE k < server.next BY DEF Stored
      <3>1. CASE k \in page BY <1>6, <3>1
      <3>2. CASE k \notin page BY <1>1, <1>15, <3>2 DEF GraphPass, Stored
      <3>. QED BY <3>1, <3>2
    <2>2. \A k \in pass'.have : k < server.next /\ (rows'[k] = None /\ Here(k) => Leaving(k))
      <3> SUFFICES ASSUME NEW k \in pass'.have
                   PROVE  k < server.next /\ (rows'[k] = None /\ Here(k) => Leaving(k))
        OBVIOUS
      <3>1. k \in Keys /\ k \notin went /\ (k \in pass.have \/ k \in inserted) BY <1>9 DEF Passes
      <3>2. CASE k \in pass.have
        <4>1. k < server.next /\ (rows[k] = None /\ Here(k) => Leaving(k)) BY <1>1, <3>2 DEF GraphPass
        <4>2. rows'[k] = None /\ Here(k) => rows[k] = None BY <1>6, <1>15, <3>1
        <4>. QED BY <4>1, <4>2
      <3>3. CASE k \in inserted /\ k \notin pass.have
        <4>1. k \in page /\ k \in live BY <1>6, <3>1, <3>3
        <4>. QED BY <1>6, <1>15, <3>1, <3>3, <4>1
      <3>. QED BY <3>1, <3>2, <3>3
    <2>3. \A k \in pass'.have : k \in Keys BY <1>9 DEF Passes
    <2>. QED BY <1>2, <1>10, <1>14, <2>1, <2>2, <2>3 DEF GraphPass
  <1>17. GraphLink'
    <2>1. \A k \in rest : k < server.next BY <1>4 DEF rest
    <2>2. ASSUME NEW k \in Keys \ rest, stamp[k] <= Round.goal
          PROVE  /\ Mirrored(k)' \/ (~Here(k) /\ k \in prune')
                 /\ k \in prune' => ~Here(k)
      <3>1. CASE k \in page
        <4>1. k \notin prune' BY <1>8, <3>1
        <4>2. CASE k \in went BY <1>6, <1>14, <1>15, <4>1, <4>2 DEF Mirrored
        <4>3. CASE k \in live
          <5>1. k \in pass.have /\ rows[k] = None => Leaving(k) BY <1>1, <1>6, <4>3 DEF GraphPass
          <5>2. Leaving(k) => Unsettled(k) BY DEF Leaving, Unsettled
          <5>3. rows'[k] = View(k) \/ (Unsettled(k) /\ Here(k)) BY <1>6, <1>15, <4>3, <5>1, <5>2
          <5>. QED BY <1>14, <4>1, <5>3 DEF Mirrored
        <4>. QED BY <1>6, <3>1, <4>2, <4>3
      <3>2. CASE k \notin page
        <4>1. k \in Keys \ Round.todo BY <3>2 DEF rest
        <4>2. Mirrored(k)' = Mirrored(k) BY <1>14, <1>15, <3>2 DEF Mirrored
        <4>3. k \in prune' <=> k \in prune BY <1>8, <3>2
        <4>. QED BY <1>4, <2>2, <4>1, <4>2, <4>3
      <3>. QED BY <3>1, <3>2
    <2>. QED BY <1>2, <1>4, <1>10, <1>14, <2>1, <2>2 DEF GraphLink
  <1>. QED BY <1>1, <1>2, <1>12, <1>13, <1>16, <1>17 DEF FolderInv, ImapInv, JmapInv, GraphInv

\* An expired link promises nothing.
LEMMA GraphExpiredStep == ASSUME FolderInv, GraphExpired PROVE FolderInv'
  <1>1. protocol = "graph" /\ TypeInv BY DEF FolderInv, FlowInv, GraphExpired, At
  <1>2. protocol' = protocol /\ server' = server /\ clock' = clock /\ stamp' = stamp /\ pend' = pend
        /\ torn' = torn /\ prune' = prune /\ owed' = owed /\ rows' = rows /\ pass' = Idle
        /\ cursor' = [cursor EXCEPT !.link = None]
    BY DEF GraphExpired, KeepRemote, KeepMarks
  <1>3. TypeInv' BY <1>1, <1>2, IdleFacts DEF TypeInv
  <1>4. FlowInv' BY <1>1, <1>2, IdleFacts DEF FolderInv, FlowInv
  <1>5. GraphPass'
    <2>1. Stored' = Stored BY <1>2 DEF Stored
    <2>. QED BY <1>1, <1>2, <2>1, IdleFacts DEF FolderInv, GraphInv, GraphPass, At
  <1>6. GraphLink' BY <1>1, <1>2 DEF GraphLink, TypeInv
  <1>. QED BY <1>1, <1>2, <1>3, <1>4, <1>5, <1>6 DEF FolderInv, ImapInv, JmapInv, GraphInv

\* What is pruned is gone from the folder, or will be reported.
LEMMA GraphPruneStep == ASSUME FolderInv, GraphPrune PROVE FolderInv'
  <1>1. protocol = "graph" /\ TypeInv /\ pass.pc = "prune" /\ pass \in Passes /\ GraphPass /\ GraphLink
    BY DEF FolderInv, FlowInv, GraphPrune, At, GraphInv, TypeInv
  <1>2. protocol' = protocol /\ server' = server /\ clock' = clock /\ stamp' = stamp /\ pend' = pend
        /\ torn' = torn /\ prune' = {} /\ owed' = owed \ prune /\ cursor' = cursor
        /\ rows' = [k \in Keys |-> IF k \in prune THEN None ELSE rows[k]]
    BY DEF GraphPrune, KeepRemote, KeepHistory
  <1>3. pass' \in Passes /\ pass'.pc = "filter" BY <1>1, GoFacts DEF GraphPrune, Steps
  <1>4. TypeInv' BY <1>1, <1>2, <1>3 DEF TypeInv
  <1>5. FlowInv' BY <1>1, <1>2, <1>3 DEF FolderInv, FlowInv
  <1>6. GraphPass' BY <1>1, <1>2, <1>3 DEF GraphPass, Stored, At
  <1>7. GraphLink'
    <2>1. \A k \in Keys : Here(k)' = Here(k) /\ View(k)' = View(k) /\ (~Here(k) => View(k) = None)
                          /\ Unsettled(k)' = Unsettled(k)
      BY <1>1, <1>2, SameServer, ViewFacts DEF Unsettled
    <2>2. \A k \in Keys : /\ k \in prune /\ ~Here(k) => Mirrored(k)'
                          /\ k \notin prune /\ Mirrored(k) => Mirrored(k)'
      BY <1>2, <2>1 DEF Mirrored
    <2>. QED BY <1>1, <1>2, <2>2 DEF GraphLink
  <1>. QED BY <1>1, <1>2, <1>4, <1>5, <1>6, <1>7 DEF FolderInv, ImapInv, JmapInv, GraphInv

-----------------------------------------------------------------------------
(* The ends of a pass.                                                      *)

\* A pass cut short anywhere leaves rows and checkpoint in agreement, except before
\* JMAP's removals.
LEMMA AbortStep == ASSUME FolderInv, Abort PROVE FolderInv'
  <1>1. TypeInv /\ ~At("idle") BY DEF FolderInv, Abort
  <1>2. protocol' = protocol /\ server' = server /\ clock' = clock /\ stamp' = stamp /\ pend' = pend
        /\ prune' = prune /\ owed' = owed /\ rows' = rows /\ cursor' = cursor /\ pass' = Idle
        /\ torn' = (torn \/ At("tombstones"))
    BY DEF Abort, remotes, mirror
  <1>3. TypeInv' BY <1>1, <1>2, IdleFacts DEF TypeInv, At
  <1>4. FlowInv' BY <1>2, IdleFacts DEF FolderInv, FlowInv
  <1>5. Listed' = Listed /\ Stored' = Stored
        /\ \A k \in Keys : Here(k)' = Here(k) /\ Mirrored(k)' = Mirrored(k) /\ Leaving(k)' = Leaving(k)
    BY <1>2, SameServer, SameMirror DEF Stored, Leaving
  <1>6. ImapInv'
    <2>1. protocol = "imap" => ImapPass' BY <1>2, IdleFacts DEF FolderInv, ImapInv, ImapPass, At
    <2>2. protocol = "imap" /\ ~torn => Current BY <1>1 DEF FolderInv, ImapInv, Trusted
    <2>3. protocol = "imap" /\ ~torn => Current' BY <1>2, <1>5, <2>2 DEF Current, Stored, Listed
    <2>. QED BY <1>2, <2>1, <2>3, IdleFacts DEF ImapInv
  <1>7. JmapInv'
    <2>1. protocol = "jmap" => JmapPass'
      BY <1>1, <1>2, IdleFacts DEF FolderInv, JmapInv, JmapPass, TypeInv
    <2>2. protocol = "jmap" /\ ~torn' => JmapShown' BY <1>2, <1>5 DEF FolderInv, JmapInv, JmapShown
    <2>3. JmapDelta' /\ JmapListing' /\ JmapRemovals'
      BY <1>2, IdleFacts DEF JmapDelta, JmapListing, JmapRemovals, At
    <2>. QED BY <1>2, <2>1, <2>2, <2>3 DEF JmapInv
  <1>8. GraphInv'
    <2>1. protocol = "graph" => GraphPass'
      BY <1>2, <1>5, IdleFacts DEF FolderInv, GraphInv, GraphPass, At
    <2>2. protocol = "graph" => GraphLink' BY <1>2, <1>5 DEF FolderInv, GraphInv, GraphLink
    <2>. QED BY <1>2, <2>1, <2>2 DEF GraphInv
  <1>. QED BY <1>3, <1>4, <1>6, <1>7, <1>8 DEF FolderInv

\* What the rules move away leaves the folder and the mirror together.
LEMMA FilterStep == ASSUME FolderInv, Filter PROVE FolderInv'
  <1>1. TypeInv /\ pass.pc = "filter" /\ pass \in Passes /\ clock \in Nat
    BY DEF FolderInv, Filter, At, TypeInv
  <1>2. protocol' = protocol /\ pend' = pend /\ torn' = torn /\ cursor' = cursor
        /\ pass' = IF protocol = "imap" THEN [pass EXCEPT !.pc = "finish"] ELSE Idle
    BY DEF Filter
  <1>3. PICK bad \in SUBSET (pass.fresh \cap Stored) :
          LET moved == {k \in (pass.fresh \cap Stored) \ bad : rows[k].msg \in Filed}
              left == moved \cap Listed
              done == pass.fresh \ bad IN
          /\ server' = [server EXCEPT !.box = [k \in Keys |->
                            IF k \in left THEN Away(k) ELSE @[k]]]
          /\ IF protocol = "imap" \/ left = {} THEN UNCHANGED <<clock, stamp>>
             ELSE /\ clock' = clock + 1
                  /\ stamp' = [k \in Keys |-> IF k \in left THEN clock + 1 ELSE stamp[k]]
          /\ rows' = [k \in Keys |-> IF k \in moved THEN None ELSE rows[k]]
          /\ prune' = prune \ moved /\ owed' = owed \ done
    BY DEF Filter
  <1> DEFINE moved == {k \in (pass.fresh \cap Stored) \ bad : rows[k].msg \in Filed}
             left == moved \cap Listed
  <1>4. moved \in SUBSET Keys /\ left = moved \cap Listed /\ left \in SUBSET Keys BY DEF Stored
  <1>5. server' = [server EXCEPT !.box = [k \in Keys |-> IF k \in left THEN Away(k) ELSE server.box[k]]]
        /\ rows' = [k \in Keys |-> IF k \in moved THEN None ELSE rows[k]]
        /\ prune' = prune \ moved /\ owed' \subseteq owed
    BY <1>1, <1>3 DEF TypeInv
  <1>6. /\ clock' \in Nat /\ clock <= clock' /\ stamp' \in [Keys -> Nat]
        /\ \A k \in Keys : k \notin left => stamp'[k] = stamp[k]
        /\ protocol # "imap" => \A k \in left : stamp'[k] = clock + 1 /\ clock' = clock + 1
        /\ protocol = "imap" => clock' = clock /\ stamp' = stamp
    <2>1. CASE protocol = "imap" \/ left = {}
      <3>1. clock' = clock /\ stamp' = stamp BY <1>3, <2>1
      <3>. QED BY <1>1, <2>1, <3>1 DEF TypeInv
    <2>2. CASE ~(protocol = "imap" \/ left = {})
      <3>1. clock' = clock + 1 /\ stamp' = [k \in Keys |-> IF k \in left THEN clock + 1 ELSE stamp[k]]
        BY <1>3, <2>2
      <3> HIDE DEF left
      <3>. QED BY <1>1, <1>4, <2>2, <3>1 DEF TypeInv
    <2>. QED BY <2>1, <2>2
  <1> HIDE DEF moved, left
  <1>7. \A k \in left : Away(k) \in Messages \cup {None} /\ (Away(k) # None => ~Away(k).here)
    <2> SUFFICES ASSUME NEW k \in left PROVE Away(k) \in Messages \cup {None} /\ (Away(k) # None => ~Away(k).here)
      OBVIOUS
    <2>1. server.box[k] \in Messages BY <1>1, <1>4, ViewFacts DEF Listed
    <2>. QED BY <2>1, NoneAssumption DEF Away, Messages
  <1>8. /\ server' \in [box : [Keys -> Messages \cup {None}], next : Nat \ {0}, epoch : Nat \ {0}]
        /\ server'.next = server.next /\ server'.epoch = server.epoch
        /\ \A k \in Keys : server'.box[k] = IF k \in left THEN Away(k) ELSE server.box[k]
    BY <1>1, <1>4, <1>5, <1>7 DEF TypeInv
  <1>9. pass' \in Passes
        /\ IF protocol = "imap" THEN /\ pass'.pc = "finish" /\ pass'.epoch = pass.epoch
                                     /\ pass'.next = pass.next
           ELSE pass' = Idle
    BY <1>1, <1>2, IdleFacts DEF Passes, Steps
  <1>10. TypeInv' BY <1>1, <1>2, <1>5, <1>6, <1>8, <1>9 DEF TypeInv
  <1>11. FlowInv'
    <2>1. \A k \in left : server.box[k] # None BY <1>4 DEF Listed, Here
    <2>2. \A k \in Keys : stamp'[k] <= clock'
      <3> SUFFICES ASSUME NEW k \in Keys PROVE stamp'[k] <= clock' OBVIOUS
      <3>1. stamp[k] <= clock /\ stamp[k] \in Nat BY <1>1 DEF FolderInv, FlowInv, TypeInv
      <3>2. CASE k \in left /\ protocol # "imap" BY <1>1, <1>6, <3>2
      <3>3. CASE k \notin left \/ protocol = "imap"
        <4>1. stamp'[k] = stamp[k] BY <1>6, <3>3
        <4>. QED BY <1>1, <1>6, <3>1, <4>1
      <3>. QED BY <3>2, <3>3
    <2>3. \A k \in Keys : /\ server'.box[k] # None => k < server.next
                          /\ stamp'[k] > 0 /\ protocol # "imap" => k < server.next
      BY <1>6, <1>8, <2>1 DEF FolderInv, FlowInv
    <2>. QED BY <1>2, <1>8, <1>9, <2>2, <2>3, IdleFacts DEF FlowInv
  <1>12. \A k \in Keys : /\ k \in left => Here(k) /\ ~Here(k)'
                         /\ k \notin left => Here(k)' = Here(k) /\ View(k)' = View(k)
                         /\ k \in moved /\ k \notin left => ~Here(k)
                         /\ Leaving(k)' = Leaving(k) /\ Unsettled(k)' = Unsettled(k)
    BY <1>2, <1>4, <1>7, <1>8 DEF Here, View, Listed, Leaving, Unsettled
  <1>13. Listed' = Listed \ left /\ Stored' = Stored \ moved
    BY <1>4, <1>5, <1>12 DEF Listed, Stored
  <1>14. ImapInv'
    <2> SUFFICES ASSUME protocol = "imap" PROVE ImapInv' BY <1>2 DEF ImapInv
    <2>1. ImapPass' BY <1>1, <1>2, <1>8, <1>9 DEF FolderInv, ImapInv, ImapPass, At
    <2>2. ~torn => Current BY <1>1 DEF FolderInv, ImapInv, Trusted, At
    <2>3. ~torn => Current'
      <3> SUFFICES ASSUME ~torn PROVE Current' OBVIOUS
      <3>1. \A k \in Stored' : k < server.next /\ (Here(k)' => rows'[k].msg = server'.box[k].msg)
        BY <1>5, <1>8, <1>12, <1>13, <2>2 DEF Current, Stored
      <3>2. \A k \in Listed' : k \in Keys /\ k \notin moved BY <1>4, <1>13 DEF Listed
      <3>. QED BY <1>2, <1>8, <1>12, <1>13, <2>2, <3>1, <3>2 DEF Current
    <2>. QED BY <1>2, <1>9, <2>1, <2>3 DEF ImapInv
  <1>15. \A k \in Keys : k \notin left /\ Mirrored(k) => Mirrored(k)'
    <2>1. \A k \in Keys : ~Here(k) => View(k) = None BY <1>1, ViewFacts
    <2>. QED BY <1>5, <1>12, <2>1 DEF Mirrored
  <1>16. JmapInv'
    <2> SUFFICES ASSUME protocol = "jmap" PROVE JmapInv' BY <1>2 DEF JmapInv
    <2>1. JmapPass /\ (~torn => JmapShown) BY DEF FolderInv, JmapInv
    <2>2. JmapPass' BY <1>1, <1>2, <1>6, <1>9, <2>1, IdleFacts DEF JmapPass, TypeInv
    <2>3. ~torn => JmapShown'
      <3> SUFFICES ASSUME ~torn, cursor.state # None, NEW k \in Keys, stamp'[k] <= cursor.state
                   PROVE  Mirrored(k)'
        BY <1>2 DEF JmapShown
      <3>1. cursor.state <= clock /\ cursor.state \in Nat BY <1>1, <2>1 DEF JmapPass, TypeInv
      <3>2. k \notin left BY <1>1, <1>6, <3>1
      <3>3. Mirrored(k) BY <1>1, <1>6, <2>1, <3>2 DEF JmapShown, At
      <3>. QED BY <1>15, <3>2, <3>3
    <2>4. JmapDelta' /\ JmapListing' /\ JmapRemovals'
      BY <1>9, IdleFacts DEF JmapDelta, JmapListing, JmapRemovals, At
    <2>. QED BY <1>2, <2>2, <2>3, <2>4 DEF JmapInv
  <1>17. GraphInv'
    <2> SUFFICES ASSUME protocol = "graph" PROVE GraphInv' BY <1>2 DEF GraphInv
    <2>1. GraphPass /\ GraphLink BY DEF FolderInv, GraphInv
    <2>2. GraphPass' BY <1>8, <1>9, <1>13, <2>1, IdleFacts DEF GraphPass, At
    <2>3. CASE cursor.link # None
      <3>1. cursor.link.goal <= clock /\ cursor.link.goal \in Nat BY <1>1, <2>1, <2>3 DEF GraphLink, TypeInv, Links
      <3>2. cursor.link.goal <= clock' BY <1>1, <1>6, <3>1
      <3>3. ASSUME NEW k \in Keys \ cursor.link.todo, stamp'[k] <= cursor.link.goal
            PROVE  Mirrored(k)' \/ (~Here(k)' /\ k \in prune')
        <4>1. k \notin left BY <1>1, <1>6, <3>1, <3>3
        <4>2. Mirrored(k) \/ (~Here(k) /\ k \in prune) BY <1>6, <2>1, <2>3, <3>3, <4>1 DEF GraphLink
        <4>3. CASE k \in moved
          <5>1. ~Here(k) /\ View(k)' = None BY <1>1, <1>12, <4>1, <4>3, ViewFacts
          <5>. QED BY <1>5, <4>3, <5>1 DEF Mirrored
        <4>. QED BY <1>5, <1>12, <1>15, <4>1, <4>2, <4>3
      <3>4. ASSUME NEW k \in Keys \ cursor.link.todo, stamp'[k] <= cursor.link.goal, k \in prune'
            PROVE  ~Here(k)'
        <4>1. k \notin left BY <1>1, <1>6, <3>1, <3>4
        <4>. QED BY <1>5, <1>6, <1>12, <2>1, <2>3, <3>4, <4>1 DEF GraphLink
      <3>5. \A k \in cursor.link.todo : k < server.next BY <2>1, <2>3 DEF GraphLink
      <3>6. GraphLink' BY <1>2, <1>8, <3>2, <3>3, <3>4, <3>5 DEF GraphLink
      <3>. QED BY <2>2, <3>6 DEF GraphInv
    <2>4. CASE cursor.link = None BY <1>2, <2>2, <2>4 DEF GraphInv, GraphLink
    <2>. QED BY <2>3, <2>4
  <1>. QED BY <1>10, <1>11, <1>14, <1>16, <1>17 DEF FolderInv

-----------------------------------------------------------------------------
(* The user, the worker and other clients.                                  *)

\* The user's change is on its way from the moment the row shows it.
LEMMA UserChangeStep ==
    ASSUME FolderInv, NEW k \in Keys, NEW op \in UserOps, UserChange(k, op)
    PROVE  FolderInv'
  <1>1. TypeInv /\ op \in {"delete", "read"} /\ pend = None /\ rows[k] # None /\ rows[k] \in Shown
    BY FolderAssumption DEF FolderInv, UserChange, TypeInv, Stored
  <1>2. protocol' = protocol /\ server' = server /\ clock' = clock /\ stamp' = stamp /\ torn' = torn
        /\ pass' = pass /\ pend' = [key |-> k, op |-> op]
        /\ cursor' = [cursor EXCEPT !.total = Size(rows')]
    BY DEF UserChange, KeepRemote
  <1>3. /\ pend' \in Changes /\ pend' # None /\ pend'.key = k /\ pend'.op = op
        /\ cursor' \in [last : Nat, epoch : Nat, next : Nat, total : Nat,
                        state : Nat \cup {None}, link : Links \cup {None}]
        /\ cursor'.last = cursor.last /\ cursor'.epoch = cursor.epoch /\ cursor'.next = cursor.next
        /\ cursor'.state = cursor.state /\ cursor'.link = cursor.link /\ cursor'.total \in Nat
    <2>1. Size(rows') \in Nat BY SizeType
    <2>2. pend' \in Changes /\ pend'.key = k /\ pend'.op = op BY <1>1, <1>2 DEF Changes
    <2>. QED BY <1>1, <1>2, <2>1, <2>2, NoneAssumption DEF TypeInv
  <1>4. /\ rows' \in [Keys -> Shown \cup {None}]
        /\ \A j \in Keys : j # k => rows'[j] = rows[j]
        /\ IF op = "read" THEN rows'[k] # None /\ rows'[k].msg = rows[k].msg /\ prune' = prune /\ owed' = owed
           ELSE rows'[k] = None /\ prune' = prune \ {k} /\ owed' = owed \ {k}
    <2>1. rows' = [rows EXCEPT ![k] = IF op = "read" THEN [@ EXCEPT !.seen = TRUE] ELSE None]
          /\ prune' = (IF op = "read" THEN prune ELSE prune \ {k})
          /\ owed' = (IF op = "read" THEN owed ELSE owed \ {k})
      BY DEF UserChange
    <2>2. LET r == [rows[k] EXCEPT !.seen = TRUE] IN r \in Shown /\ r # None /\ r.msg = rows[k].msg
      BY <1>1, NoneAssumption DEF Shown
    <2>. QED BY <1>1, <2>1, <2>2 DEF TypeInv
  <1>5. TypeInv' BY <1>1, <1>2, <1>3, <1>4 DEF TypeInv
  <1>6. FlowInv' BY <1>2 DEF FolderInv, FlowInv
  <1>7. /\ Listed' = Listed /\ \A j \in Keys : Here(j)' = Here(j) /\ View(j)' = View(j) /\ Rank(j)' = Rank(j)
        /\ \A j \in Keys : ~Leaving(j) /\ ~Unsettled(j) /\ (View(j) = None <=> ~Here(j))
    BY <1>1, <1>2, SameServer, ViewFacts DEF Leaving, Unsettled
  <1>8. Stored' = (IF op = "read" THEN Stored ELSE Stored \ {k}) /\ k \in Stored
        /\ Unsettled(k)' /\ (op = "delete" => Leaving(k)')
    BY <1>1, <1>3, <1>4 DEF Stored, Unsettled, Leaving
  <1>9. \A j \in Keys : Mirrored(j) => Mirrored(j)'
    <2> SUFFICES ASSUME NEW j \in Keys, Mirrored(j) PROVE Mirrored(j)' OBVIOUS
    <2>1. CASE j = k BY <1>1, <1>7, <1>8, <2>1 DEF Mirrored
    <2>2. CASE j # k BY <1>4, <1>7, <2>2 DEF Mirrored
    <2>. QED BY <2>1, <2>2
  <1>10. ImapInv'
    <2> SUFFICES ASSUME protocol = "imap" PROVE ImapInv' BY <1>2 DEF ImapInv
    <2>1. ImapPass' BY <1>2, <1>3 DEF FolderInv, ImapInv, ImapPass, At
    <2>2. ~torn /\ Trusted' => Current'
      <3>1. \A j \in Stored' : j \in Stored /\ rows'[j].msg = rows[j].msg BY <1>1, <1>4, <1>8 DEF Stored
      <3>2. \A j \in Listed : j \in Stored => j \in Stored' \/ Leaving(j)' BY <1>1, <1>8
      <3>3. CASE Trusted
        BY <1>2, <1>3, <1>7, <3>1, <3>2, <3>3 DEF FolderInv, ImapInv, Current, Stored, Listed
      <3>4. CASE Trusted' /\ ~Trusted
        <4>1. cursor'.last = 0 /\ cursor'.total = 0
          BY <1>2, <1>3, <3>4 DEF Trusted, HasUidState, At
        <4>2. Size(rows') = 0 BY <1>1, <1>2, <4>1 DEF TypeInv
        <4>3. Stored' = {}
          <5>1. IsFiniteSet({j \in Keys : rows'[j] # None}) BY KeysFinite
          <5>. QED BY <4>2, <5>1, FS_EmptySet DEF Size, Stored
        <4>4. server.next \in Nat \ {0} /\ \A j \in Keys : ~(j <= 0) BY <1>1, KeysFinite DEF TypeInv
        <4>. QED BY <1>2, <1>7, <4>1, <4>3, <4>4 DEF Current, Listed
      <3>. QED BY <3>3, <3>4
    <2>3. ~torn /\ pass.pc \in {"fetch", "watermark"} => Backlog'
      <3> SUFFICES ASSUME ~torn, pass.pc \in {"fetch", "watermark"} PROVE Backlog' OBVIOUS
      <3>1. Backlog /\ pass.have \in SUBSET Keys BY <1>1 DEF FolderInv, ImapInv, TypeInv, Passes
      <3>2. \A j \in Keys : j \in Stored => j \in Stored' \/ Leaving(j)' BY <1>1, <1>8
      <3>3. Listed \subseteq Keys BY DEF Listed
      <3>. QED BY <1>2, <1>7, <3>1, <3>2, <3>3 DEF Backlog, At
    <2>. QED BY <1>2, <2>1, <2>2, <2>3 DEF ImapInv
  <1>11. JmapInv'
    <2> SUFFICES ASSUME protocol = "jmap" PROVE JmapInv' BY <1>2 DEF JmapInv
    <2>1. JmapPass' BY <1>2, <1>3 DEF FolderInv, JmapInv, JmapPass
    <2>2. ~torn => JmapShown' BY <1>2, <1>3, <1>9 DEF FolderInv, JmapInv, JmapShown, At
    <2>3. ~torn => JmapDelta'
      <3>1. \A j \in pass.out : j \in Keys BY <1>1 DEF TypeInv, Passes
      <3>. QED BY <1>2, <1>3, <1>7, <3>1 DEF FolderInv, JmapInv, JmapDelta, At
    <2>4. ~torn => JmapListing' BY <1>2, <1>7 DEF FolderInv, JmapInv, JmapListing, At
    <2>5. ~torn => JmapRemovals'
      <3>1. Went' = Went BY <1>2 DEF Went
      <3>. QED BY <1>2, <1>3, <1>7, <1>9, <3>1 DEF FolderInv, JmapInv, JmapRemovals, At
    <2>. QED BY <1>2, <2>1, <2>2, <2>3, <2>4, <2>5 DEF JmapInv
  <1>12. GraphInv'
    <2> SUFFICES ASSUME protocol = "graph" PROVE GraphInv' BY <1>2 DEF GraphInv
    <2>1. GraphPass /\ GraphLink BY DEF FolderInv, GraphInv
    <2>2. GraphPass'
      <3>1. \A j \in pass.have : j \in Keys BY <1>1 DEF TypeInv, Passes
      <3>2. \A j \in Keys : rows'[j] = None /\ rows[j] # None => Leaving(j)' BY <1>1, <1>4, <1>8
      <3>3. \A j \in Stored' : j \in Stored BY <1>8
      <3>4. Stored \subseteq prune => Stored' \subseteq prune' BY <1>4, <1>8
      <3>. QED BY <1>2, <1>3, <1>7, <2>1, <3>1, <3>2, <3>3, <3>4 DEF GraphPass, At
    <2>3. GraphLink'
      <3>1. \A j \in Keys : ~Here(j) /\ j \in prune /\ j \notin prune' => Mirrored(j)'
        BY <1>4, <1>7 DEF Mirrored
      <3>2. prune' \subseteq prune BY <1>4
      <3>. QED BY <1>2, <1>3, <1>7, <1>9, <2>1, <3>1, <3>2 DEF GraphLink
    <2>. QED BY <2>2, <2>3 DEF GraphInv
  <1>. QED BY <1>5, <1>6, <1>10, <1>11, <1>12 DEF FolderInv

\* What a change of one message is.
LEMMA PutFacts ==
    ASSUME FolderInv, NEW k \in Keys, NEW m \in Messages \cup {None}, Put(k, m),
           server.box[k] # None \/ k = server.next
    PROVE  /\ server' \in [box : [Keys -> Messages \cup {None}], next : Nat \ {0}, epoch : Nat \ {0}]
           /\ server'.epoch = server.epoch /\ server'.box[k] = m
           /\ server.next <= server'.next /\ k < server'.next
           /\ \A j \in Keys : j # k => server'.box[j] = server.box[j]
           /\ clock' \in Nat /\ clock <= clock' /\ stamp' \in [Keys -> Nat]
           /\ \A j \in Keys : j # k => stamp'[j] = stamp[j]
           /\ protocol # "imap" => stamp'[k] = clock + 1 /\ clock' = clock + 1
           /\ protocol = "imap" => stamp' = stamp /\ clock' = clock
  <1>1. TypeInv /\ k \in Nat /\ server.next \in Nat \ {0} BY KeysFinite DEF FolderInv, TypeInv
  <1>2. k <= server.next BY <1>1 DEF FolderInv, FlowInv
  <1>3. server' = [server EXCEPT !.box[k] = m, !.next = IF k >= @ THEN k + 1 ELSE @] BY DEF Put
  <1>4. server' = [server EXCEPT !.box = [server.box EXCEPT ![k] = m],
                                 !.next = IF k >= server.next THEN k + 1 ELSE server.next]
    BY <1>1, <1>3 DEF TypeInv
  <1>5. /\ server' \in [box : [Keys -> Messages \cup {None}], next : Nat \ {0}, epoch : Nat \ {0}]
        /\ server'.epoch = server.epoch /\ server'.box = [server.box EXCEPT ![k] = m]
        /\ server'.next = (IF k >= server.next THEN k + 1 ELSE server.next)
    <2>1. (IF k >= server.next THEN k + 1 ELSE server.next) \in Nat \ {0} BY <1>1
    <2>2. [server.box EXCEPT ![k] = m] \in [Keys -> Messages \cup {None}] BY <1>1 DEF TypeInv
    <2>. QED BY <1>1, <1>4, <2>1, <2>2 DEF TypeInv
  <1>6. server.next <= server'.next /\ k < server'.next BY <1>1, <1>2, <1>5
  <1>7. server'.box[k] = m /\ \A j \in Keys : j # k => server'.box[j] = server.box[j]
    BY <1>1, <1>5 DEF TypeInv
  <1>8. /\ clock' \in Nat /\ clock <= clock' /\ stamp' \in [Keys -> Nat]
        /\ \A j \in Keys : j # k => stamp'[j] = stamp[j]
        /\ protocol # "imap" => stamp'[k] = clock + 1 /\ clock' = clock + 1
        /\ protocol = "imap" => stamp' = stamp /\ clock' = clock
    BY <1>1 DEF Put, TypeInv
  <1>. QED BY <1>5, <1>6, <1>7, <1>8

\* A change of one message, by whomever, preserves the invariant if it keeps what the
\* key means, gives new messages new keys and marks the cases that tear.
LEMMA ChangeStep ==
    ASSUME FolderInv, NEW k \in Keys, NEW m \in Messages \cup {None}, Put(k, m),
           server.box[k] # None \/ k = server.next,
           UNCHANGED <<protocol, rows, prune, owed, cursor, pass>>,
           torn' \in BOOLEAN, torn => torn',
           \/ pend' = pend
           \/ /\ pend' = None /\ pend # None /\ pend.key = k
              /\ pend.op = "delete" => m = None \/ ~m.here,
           m # None /\ m.here /\ Here(k) => m.msg = server.box[k].msg,
           m # None /\ m.here /\ ~Here(k) /\ protocol # "jmap" => k = server.next,
           ~torn' /\ (m = None \/ ~m.here) /\ Here(k) => ~Tears(k, TRUE),
           ~torn' /\ m # None /\ m.here /\ ~Here(k) => ~Tears(k, FALSE)
    PROVE  FolderInv'
  <1>1. TypeInv /\ server.next \in Nat /\ clock \in Nat /\ k \in Nat /\ server'.next \in Nat
    BY PutFacts, KeysFinite DEF FolderInv, TypeInv
  <1>2. /\ server' \in [box : [Keys -> Messages \cup {None}], next : Nat \ {0}, epoch : Nat \ {0}]
        /\ server'.epoch = server.epoch /\ server'.box[k] = m
        /\ server.next <= server'.next /\ k < server'.next
        /\ \A j \in Keys : j # k => server'.box[j] = server.box[j]
    BY PutFacts
  <1>3. /\ clock' \in Nat /\ clock <= clock' /\ stamp' \in [Keys -> Nat]
        /\ \A j \in Keys : j # k => stamp'[j] = stamp[j]
        /\ protocol # "imap" => stamp'[k] = clock + 1 /\ clock' = clock + 1
        /\ protocol = "imap" => stamp' = stamp /\ clock' = clock
    BY PutFacts
  <1>4. protocol' = protocol /\ rows' = rows /\ prune' = prune /\ owed' = owed /\ cursor' = cursor
        /\ pass' = pass /\ Stored' = Stored
    BY DEF Stored
  <1>5. pend' \in Changes \cup {None} BY <1>1 DEF TypeInv
  <1>6. TypeInv' BY <1>1, <1>2, <1>3, <1>4, <1>5 DEF TypeInv
  <1>7. \A j \in Keys : j < server.next => j < server'.next BY <1>1, <1>2, KeysFinite
  <1>8. FlowInv'
    <2>1. \A j \in Keys : stamp'[j] <= clock'
      <3> SUFFICES ASSUME NEW j \in Keys PROVE stamp'[j] <= clock' OBVIOUS
      <3>1. stamp[j] <= clock /\ stamp[j] \in Nat BY <1>1 DEF FolderInv, FlowInv, TypeInv
      <3>2. CASE j = k /\ protocol # "imap" BY <1>1, <1>3, <3>2
      <3>3. CASE j # k \/ protocol = "imap"
        <4>1. stamp'[j] = stamp[j] BY <1>3, <3>3
        <4>. QED BY <1>1, <1>3, <3>1, <4>1
      <3>. QED BY <3>2, <3>3
    <2>2. \A j \in Keys : /\ server'.box[j] # None => j < server'.next
                          /\ stamp'[j] > 0 /\ protocol # "imap" => j < server'.next
      BY <1>2, <1>3, <1>7 DEF FolderInv, FlowInv
    <2>. QED BY <1>4, <2>1, <2>2 DEF FolderInv, FlowInv
  <1>9. /\ Here(k)' <=> m # None /\ m.here
        /\ \A j \in Keys : j # k => Here(j)' = Here(j) /\ View(j)' = View(j)
                                    /\ Leaving(j)' = Leaving(j) /\ Unsettled(j)' = Unsettled(j)
    BY <1>2 DEF Here, View, Leaving, Unsettled
  <1>10. \A j \in Keys : Here(j)' /\ Leaving(j) => Leaving(j)'
    <2>1. Here(k)' /\ Leaving(k) => Leaving(k)' BY <1>9 DEF Leaving
    <2>. QED BY <1>9, <2>1
  <1>11. \A j \in Keys : j # k /\ Mirrored(j) => Mirrored(j)' BY <1>4, <1>9 DEF Mirrored
  <1>12. Here(k)' /\ ~Here(k) /\ protocol # "jmap" => k = server.next BY <1>9
  <1>13. ImapInv'
    <2> SUFFICES ASSUME protocol = "imap" PROVE ImapInv' BY <1>4 DEF ImapInv
    <2>1. ImapPass'
      <3>1. ~At("idle") => pass.next \in Nat /\ pass.next <= server.next
        BY <1>1 DEF FolderInv, ImapInv, ImapPass, TypeInv, Passes
      <3>. QED BY <1>1, <1>2, <1>4, <3>1 DEF FolderInv, ImapInv, ImapPass, At
    <2>2. ~torn' /\ Trusted' => Current'
      <3> SUFFICES ASSUME ~torn', Trusted' PROVE Current' OBVIOUS
      <3>1. Current BY <1>2, <1>4 DEF FolderInv, ImapInv, Trusted, At, HasUidState
      <3>2. cursor.last \in Nat /\ cursor.last < server'.next BY <1>1, <1>2, <3>1 DEF Current, TypeInv
      <3>3. \A j \in Stored : j < server'.next /\ (Here(j)' => rows[j].msg = server'.box[j].msg)
        <4> SUFFICES ASSUME NEW j \in Stored
                     PROVE  j < server'.next /\ (Here(j)' => rows[j].msg = server'.box[j].msg)
          OBVIOUS
        <4>1. j \in Keys /\ j \in Nat /\ j < server.next BY <3>1, KeysFinite DEF Current, Stored
        <4>2. CASE j # k BY <1>2, <1>7, <1>9, <3>1, <4>1, <4>2 DEF Current
        <4>3. CASE j = k
          <5>1. Here(k)' => Here(k) BY <1>1, <1>12, <4>1, <4>3
          <5>. QED BY <1>2, <1>7, <1>9, <3>1, <4>1, <4>3, <5>1 DEF Current
        <4>. QED BY <4>2, <4>3
      <3>4. \A j \in Keys : Here(j)' /\ j <= cursor.last => j \in Stored \/ Leaving(j)'
        <4> SUFFICES ASSUME NEW j \in Keys, Here(j)', j <= cursor.last PROVE j \in Stored \/ Leaving(j)'
          OBVIOUS
        <4>1. Here(j)
          <5>1. j = k /\ ~Here(k) => j = server.next BY <1>12
          <5>2. j # server.next BY <1>1, <3>1, <3>2, KeysFinite DEF Current
          <5>. QED BY <1>9, <5>1, <5>2
        <4>. QED BY <1>10, <3>1, <4>1 DEF Current, Listed
      <3>. QED BY <1>4, <3>2, <3>3, <3>4 DEF Current, Listed
    <2>3. ~torn' /\ pass.pc \in {"fetch", "watermark"} => Backlog'
      <3> SUFFICES ASSUME ~torn', pass.pc \in {"fetch", "watermark"} PROVE Backlog' OBVIOUS
      <3>1. Backlog /\ pass.next <= server.next /\ pass \in Passes
        BY <1>1 DEF FolderInv, ImapInv, ImapPass, At, TypeInv
      <3>2. pass.next \in Nat /\ pass.uids \in SUBSET Keys /\ pass.have \in SUBSET Keys
            /\ \A j \in Keys : j \in Nat
        BY <3>1, KeysFinite DEF Passes
      <3>3. \A j \in Keys : Here(j)' /\ ~Here(j) => /\ j = server.next /\ j >= pass.next
                                                    /\ \A u \in pass.uids : u < j
                                                    /\ j \notin pass.uids /\ j \notin pass.have
        <4> SUFFICES ASSUME Here(k)', ~Here(k)
                     PROVE  /\ k = server.next /\ k >= pass.next /\ \A u \in pass.uids : u < k
                            /\ k \notin pass.uids /\ k \notin pass.have
          BY <1>9
        <4>1. k = server.next BY <1>12
        <4>2. ~(k < server.next) BY <1>1, <4>1
        <4>. QED BY <1>1, <3>1, <3>2, <4>1, <4>2 DEF Backlog
      <3>4. \A u \in pass.uids : u < server'.next BY <1>7, <3>1, <3>2 DEF Backlog
      <3>5. \A j \in Listed' : j > pass.last /\ j \notin pass.uids
                => j >= pass.next /\ \A u \in pass.uids : u < j
        BY <3>1, <3>3 DEF Backlog, Listed
      <3>6. \A j \in Listed' \cap pass.uids :
               j \in pass.todo \/ j \in pass.failed \/ j \in Stored \/ Leaving(j)'
        BY <1>10, <3>1, <3>3 DEF Backlog, Listed
      <3>7. \A j \in pass.have : j < server'.next /\ (Here(j)' => j \in Stored \/ Leaving(j)')
        BY <1>7, <1>10, <3>1, <3>2, <3>3 DEF Backlog
      <3>. QED BY <1>4, <3>1, <3>4, <3>5, <3>6, <3>7 DEF Backlog, At
    <2>. QED BY <1>4, <2>1, <2>2, <2>3 DEF ImapInv
  <1>14. JmapInv'
    <2> SUFFICES ASSUME protocol = "jmap" PROVE JmapInv' BY <1>4 DEF JmapInv
    <2>1. JmapPass /\ pass.state \in Nat /\ pass.state <= clock
          /\ (cursor.state # None => cursor.state \in Nat /\ cursor.state <= clock)
      BY <1>1 DEF FolderInv, JmapInv, JmapPass, TypeInv, Passes
    <2>2. JmapPass' BY <1>1, <1>3, <1>4, <2>1 DEF JmapPass
    <2>3. stamp'[k] = clock + 1 BY <1>3
    <2>4. ~(stamp'[k] <= pass.state) /\ (cursor.state # None => stamp'[k] > cursor.state
                                                               /\ ~(stamp'[k] <= cursor.state))
      BY <1>1, <2>1, <2>3
    <2>5. ~torn' => JmapShown' /\ JmapDelta' /\ JmapListing' /\ JmapRemovals'
      <3> SUFFICES ASSUME ~torn' PROVE JmapShown' /\ JmapDelta' /\ JmapListing' /\ JmapRemovals' OBVIOUS
      <3>1. JmapShown /\ JmapDelta /\ JmapListing /\ JmapRemovals BY DEF FolderInv, JmapInv
      <3>2. JmapShown' BY <1>3, <1>4, <1>11, <2>4, <3>1 DEF JmapShown, At
      <3>3. JmapDelta'
        <4>1. pass.pc = "changes" => \A j \in pass.out : j \in Keys /\ ~Here(j)' /\ j < server'.next
          <5> SUFFICES ASSUME pass.pc = "changes", NEW j \in pass.out
                       PROVE  j \in Keys /\ ~Here(j)' /\ j < server'.next
            OBVIOUS
          <5>1. j \in Keys /\ ~Here(j) /\ j < server.next
            BY <1>1, <3>1 DEF JmapDelta, At, TypeInv, Passes
          <5>2. j = k => ~Here(k)' BY <1>9, <5>1 DEF Tears, At
          <5>. QED BY <1>7, <1>9, <5>1, <5>2
        <4>. QED BY <1>3, <1>4, <1>9, <2>4, <3>1, <4>1 DEF JmapDelta, At
      <3>4. JmapListing'
        <4>1. ASSUME pass.pc = "query", pass.pages > 0, NEW j \in Keys, j # k, Here(j)
              PROVE  Rank(j)' \in Nat /\ Rank(j) \in Nat /\ Rank(j) <= Rank(j)'
          <5>1. Here(k) => Here(k)' BY <1>9, <4>1 DEF Tears, At
          <5>2. Listed \in SUBSET Listed' /\ Listed' \in SUBSET Keys /\ j \in Listed
            BY <1>9, <4>1, <5>1 DEF Listed
          <5>. QED BY <5>2, RankFacts DEF Rank
        <4>2. pass.pages * PageSize \in Nat BY <1>1, FolderAssumption DEF TypeInv, Passes
        <4>3. ASSUME NEW j \in Keys, j # k, Here(j)', pass.pc \in {"query", "apply"}, pass.full,
                     pass.pages > 0, stamp'[j] <= pass.state,
                     At("apply") \/ Rank(j)' <= pass.pages * PageSize
              PROVE  pass.got[j] # None
          <5>1. Here(j) /\ stamp[j] <= pass.state BY <1>3, <1>9, <4>3
          <5>2. At("apply") \/ Rank(j) <= pass.pages * PageSize BY <4>1, <4>2, <4>3, <5>1 DEF At
          <5>. QED BY <3>1, <4>3, <5>1, <5>2 DEF JmapListing
        <4>. QED BY <1>3, <1>4, <1>9, <2>4, <3>1, <4>3 DEF JmapListing, At
      <3>5. JmapRemovals'
        <4>1. Went' = Went BY <1>4 DEF Went
        <4>. QED BY <1>3, <1>4, <1>9, <1>11, <2>4, <3>1, <4>1 DEF JmapRemovals, At
      <3>. QED BY <3>2, <3>3, <3>4, <3>5
    <2>. QED BY <1>4, <2>2, <2>5 DEF JmapInv
  <1>15. GraphInv'
    <2> SUFFICES ASSUME protocol = "graph" PROVE GraphInv' BY <1>4 DEF GraphInv
    <2>1. GraphPass /\ GraphLink BY DEF FolderInv, GraphInv
    <2>2. GraphPass'
      <3>1. \A j \in Stored : j < server'.next BY <1>7, <2>1 DEF GraphPass, Stored
      <3>2. ASSUME At("page"), NEW j \in pass.have
            PROVE  j < server'.next /\ (rows[j] = None /\ Here(j)' => Leaving(j)')
        <4>1. j \in Keys /\ j \in Nat /\ j < server.next /\ (rows[j] = None /\ Here(j) => Leaving(j))
          BY <1>1, <2>1, <3>2, KeysFinite DEF GraphPass, TypeInv, Passes
        <4>2. Here(j)' => Here(j) BY <1>1, <1>9, <1>12, <4>1
        <4>. QED BY <1>7, <1>10, <4>1, <4>2
      <3>. QED BY <1>4, <2>1, <3>1, <3>2 DEF GraphPass, At
    <2>3. CASE cursor.link # None
      <3>1. cursor.link.goal <= clock /\ cursor.link.goal \in Nat /\ cursor.link.todo \in SUBSET Keys
        BY <1>1, <2>1, <2>3 DEF GraphLink, TypeInv, Links
      <3>2. cursor.link.goal <= clock' /\ ~(stamp'[k] <= cursor.link.goal) BY <1>1, <1>3, <3>1
      <3>3. \A j \in cursor.link.todo : j < server'.next BY <1>7, <2>1, <2>3, <3>1 DEF GraphLink
      <3>4. GraphLink' BY <1>3, <1>4, <1>9, <1>11, <2>1, <3>2, <3>3 DEF GraphLink
      <3>. QED BY <2>2, <3>4 DEF GraphInv
    <2>4. CASE cursor.link = None BY <1>4, <2>2, <2>4 DEF GraphInv, GraphLink
    <2>. QED BY <2>3, <2>4
  <1>. QED BY <1>6, <1>8, <1>13, <1>14, <1>15 DEF FolderInv

\* A new message gets the next key.
LEMMA ArriveStep == ASSUME FolderInv, Arrive PROVE FolderInv'
  <1> DEFINE k == server.next
             m == [msg |-> server.next, seen |-> FALSE, here |-> TRUE]
  <1>1. TypeInv /\ k \in Keys BY FolderAssumption DEF FolderInv, Arrive, TypeInv, Keys
  <1>2. m \in Messages /\ m # None /\ m.here
    <2>1. m \in Messages /\ m.here BY <1>1 DEF Messages
    <2> HIDE DEF m
    <2>. QED BY <2>1, NoneAssumption
  <1>3. Put(k, m) /\ torn' = torn /\ UNCHANGED <<protocol, rows, prune, owed, cursor, pass, pend>>
    BY DEF Arrive, Change
  <1>4. ~Here(k)
    <2>1. ~(k < server.next) BY <1>1 DEF TypeInv
    <2>. QED BY <1>1, <2>1 DEF FolderInv, FlowInv, Here
  <1>5. ~torn => ~Tears(k, FALSE)
    <2>1. ~torn /\ protocol = "jmap" /\ At("changes") => k \notin pass.out
      <3>1. ~(k < server.next) BY <1>1 DEF TypeInv
      <3>. QED BY <3>1 DEF FolderInv, JmapInv, JmapDelta
    <2>. QED BY <2>1 DEF Tears
  <1> HIDE DEF k, m
  <1>6. torn' \in BOOLEAN /\ k = server.next BY <1>1, <1>3 DEF TypeInv, k
  <1>. QED BY <1>1, <1>2, <1>3, <1>4, <1>5, <1>6, ChangeStep

\* What is moved away is not in the folder any more.
LEMMA AwayFacts ==
    ASSUME TypeInv, NEW k \in Keys, Here(k)
    PROVE  Away(k) \in Messages \cup {None} /\ (Away(k) = None \/ ~Away(k).here) /\ server.box[k] # None
  <1>1. server.box[k] \in Messages BY ViewFacts
  <1>. QED BY <1>1, NoneAssumption DEF Away, Messages

\* A message leaves: JMAP's listing may be torn, nothing else.
LEMMA LeaveStep ==
    ASSUME FolderInv, NEW k \in Keys, NEW moved \in BOOLEAN, Leave(k, moved)
    PROVE  FolderInv'
  <1> DEFINE m == IF moved THEN Away(k) ELSE None
  <1>1. TypeInv /\ Here(k) /\ Put(k, m) /\ torn' = (torn \/ Tears(k, TRUE))
        /\ UNCHANGED <<protocol, rows, prune, owed, cursor, pass, pend>>
    BY DEF FolderInv, Leave, Change
  <1>2. m \in Messages \cup {None} /\ (m = None \/ ~m.here) /\ server.box[k] # None BY <1>1, AwayFacts
  <1> HIDE DEF m
  <1>3. torn' \in BOOLEAN /\ (torn => torn') /\ (~torn' => ~Tears(k, TRUE))
    BY <1>1 DEF TypeInv, Tears, At
  <1>. QED BY <1>1, <1>2, <1>3, ChangeStep

\* A message returns under its id: JMAP's changes may be torn, nothing else.
LEMMA ReturnStep == ASSUME FolderInv, NEW k \in Keys, Return(k) PROVE FolderInv'
  <1> DEFINE m == [server.box[k] EXCEPT !.here = TRUE]
  <1>1. TypeInv /\ ~Here(k) /\ server.box[k] # None /\ Put(k, m) /\ torn' = (torn \/ Tears(k, FALSE))
        /\ protocol = "jmap" /\ UNCHANGED <<protocol, rows, prune, owed, cursor, pass, pend>>
    BY DEF FolderInv, Return, Change
  <1>2. m \in Messages /\ m # None /\ m.here
    <2>1. server.box[k] \in Messages BY <1>1 DEF TypeInv
    <2>. QED BY <2>1, NoneAssumption DEF Messages
  <1> HIDE DEF m
  <1>3. torn' \in BOOLEAN /\ (torn => torn') /\ (~torn' => ~Tears(k, FALSE))
    BY <1>1 DEF TypeInv, Tears, At
  <1>. QED BY <1>1, <1>2, <1>3, ChangeStep

\* A message's flag changes, and its key still means the message.
LEMMA ToggleStep == ASSUME FolderInv, NEW k \in Keys, Toggle(k) PROVE FolderInv'
  <1> DEFINE m == [server.box[k] EXCEPT !.seen = ~@]
  <1>1. TypeInv /\ Here(k) /\ Put(k, m) /\ torn' = torn
        /\ UNCHANGED <<protocol, rows, prune, owed, cursor, pass, pend>>
    BY DEF FolderInv, Toggle, Change
  <1>2. m \in Messages /\ m # None /\ m.here /\ m.msg = server.box[k].msg /\ server.box[k] # None
    <2>1. server.box[k] \in Messages /\ server.box[k].here BY <1>1, ViewFacts DEF Here
    <2>. QED BY <2>1, NoneAssumption DEF Messages
  <1> HIDE DEF m
  <1>3. torn' \in BOOLEAN BY <1>1 DEF TypeInv
  <1>. QED BY <1>1, <1>2, <1>3, ChangeStep

\* The worker carries out the user's change; for a message that is gone there is
\* nothing to carry out, and nothing that waits for it.
LEMMA PerformStep == ASSUME FolderInv, Perform PROVE FolderInv'
  <1> DEFINE k == pend.key
  <1>1. TypeInv /\ pend # None /\ pend' = None /\ k \in Keys /\ pend.op \in {"delete", "read"}
        /\ UNCHANGED <<protocol, rows, prune, owed, cursor, pass>>
    BY DEF FolderInv, Perform, TypeInv, Changes, mirror
  <1>2. CASE ~Here(k)
    <2>1. server' = server /\ clock' = clock /\ stamp' = stamp /\ torn' = torn
      BY <1>2 DEF Perform, remotes
    <2>2. TypeInv' BY <1>1, <2>1 DEF TypeInv
    <2>3. FlowInv' BY <1>1, <2>1 DEF FolderInv, FlowInv
    <2>4. Listed' = Listed /\ Stored' = Stored
          /\ \A j \in Keys : /\ Here(j)' = Here(j) /\ View(j)' = View(j) /\ Rank(j)' = Rank(j)
                             /\ Here(j) => ~Leaving(j) /\ ~Unsettled(j)
      BY <1>1, <1>2, <2>1, SameServer DEF Stored, Leaving, Unsettled
    <2>5. \A j \in Keys : Mirrored(j) => Mirrored(j)' BY <1>1, <2>4 DEF Mirrored
    <2>6. ImapInv'
      <3>1. protocol = "imap" => ImapPass' BY <1>1, <2>1 DEF FolderInv, ImapInv, ImapPass, At
      <3>2. Trusted' = Trusted BY <1>1, <2>1 DEF Trusted, HasUidState, At
      <3>3. Current => Current' BY <1>1, <2>1, <2>4 DEF Current, Stored, Listed
      <3>4. Backlog => Backlog'
        <4>1. pass.have \in SUBSET Keys BY <1>1 DEF TypeInv, Passes
        <4>. QED BY <1>1, <2>1, <2>4, <4>1 DEF Backlog, Listed, At
      <3>. QED BY <1>1, <2>1, <3>1, <3>2, <3>3, <3>4 DEF FolderInv, ImapInv
    <2>7. JmapInv'
      <3>1. JmapPass => JmapPass' BY <1>1, <2>1 DEF JmapPass
      <3>2. JmapShown => JmapShown' BY <1>1, <2>1, <2>5 DEF JmapShown, At
      <3>3. JmapDelta => JmapDelta'
        <4>1. \A j \in pass.out : j \in Keys BY <1>1 DEF TypeInv, Passes
        <4>. QED BY <1>1, <2>1, <2>4, <4>1 DEF JmapDelta, At
      <3>4. JmapListing => JmapListing' BY <1>1, <2>1, <2>4 DEF JmapListing, At
      <3>5. Went' = Went BY <1>1 DEF Went
      <3>6. JmapRemovals => JmapRemovals' BY <1>1, <2>1, <2>4, <2>5, <3>5 DEF JmapRemovals, At
      <3>. QED BY <1>1, <2>1, <3>1, <3>2, <3>3, <3>4, <3>6 DEF FolderInv, JmapInv
    <2>8. GraphInv'
      <3>1. \A j \in pass.have : j \in Keys BY <1>1 DEF TypeInv, Passes
      <3>2. GraphPass => GraphPass' BY <1>1, <2>1, <2>4, <3>1 DEF GraphPass, At
      <3>3. GraphLink => GraphLink' BY <1>1, <2>1, <2>4, <2>5 DEF GraphLink
      <3>. QED BY <1>1, <3>2, <3>3 DEF FolderInv, GraphInv
    <2>. QED BY <2>2, <2>3, <2>6, <2>7, <2>8 DEF FolderInv
  <1>3. CASE Here(k) /\ pend.op = "read"
    <2> DEFINE m == [server.box[k] EXCEPT !.seen = TRUE]
    <2>1. Put(k, m) /\ torn' = torn BY <1>3 DEF Perform
    <2>2. m \in Messages /\ m # None /\ m.here /\ m.msg = server.box[k].msg /\ server.box[k] # None
      <3>1. server.box[k] \in Messages /\ server.box[k].here BY <1>1, <1>3, ViewFacts DEF Here
      <3>. QED BY <3>1, NoneAssumption DEF Messages
    <2> HIDE DEF m
    <2>3. torn' \in BOOLEAN BY <1>1, <2>1 DEF TypeInv
    <2>. QED BY <1>1, <1>3, <2>1, <2>2, <2>3, ChangeStep
  <1>4. CASE Here(k) /\ pend.op = "delete"
    <2> DEFINE m == Away(k)
    <2>1. Put(k, m) /\ torn' = (torn \/ Tears(k, TRUE)) BY <1>4 DEF Perform
    <2>2. m \in Messages \cup {None} /\ (m = None \/ ~m.here) /\ server.box[k] # None
      BY <1>1, <1>4, AwayFacts
    <2> HIDE DEF m
    <2>3. torn' \in BOOLEAN /\ (torn => torn') /\ (~torn' => ~Tears(k, TRUE))
      BY <1>1, <2>1 DEF TypeInv, Tears, At
    <2>. QED BY <1>1, <1>4, <2>1, <2>2, <2>3, ChangeStep
  <1>. QED BY <1>1, <1>2, <1>3, <1>4

\* A new UIDVALIDITY makes the rows worthless, which the stored epoch shows; without
\* one, and without any UID state, there must be no rows.
LEMMA RenumberStep == ASSUME FolderInv, Renumber PROVE FolderInv'
  <1> DEFINE n == Cardinality(Listed)
             nth(i) == CHOOSE k \in Listed : Cardinality({j \in Listed : j <= k}) = i
             box == [k \in Keys |-> IF k <= n THEN server.box[nth(k)] ELSE None]
  <1>1. TypeInv /\ protocol = "imap" /\ At("idle") /\ Listed \in SUBSET Keys
        /\ server.epoch \in Nat \ {0} /\ pass.pc = "idle"
    BY DEF FolderInv, Renumber, Listed, TypeInv, At
  <1>2. server' = [box |-> box, next |-> n + 1, epoch |-> server.epoch + 1]
        /\ torn' = (torn \/ (Stored # {} /\ cursor.epoch = 0 /\ ~HasUidState))
        /\ protocol' = protocol /\ clock' = clock /\ stamp' = stamp /\ pend' = pend /\ rows' = rows
        /\ prune' = prune /\ owed' = owed /\ cursor' = cursor /\ pass' = pass
    BY DEF Renumber, Change
  <1>3. n \in Nat BY <1>1, KeysFinite
  <1>4. \A k \in Keys : k <= n => nth(k) \in Keys
    <2> SUFFICES ASSUME NEW k \in Keys, k <= n PROVE nth(k) \in Keys OBVIOUS
    <2>1. k \in 1..n BY <1>3, KeysFinite
    <2>2. \E j \in Listed : Cardinality({i \in Listed : i <= j}) = k BY <1>1, <2>1, CountUp
    <2>3. nth(k) \in Listed BY <2>2
    <2>. QED BY <1>1, <2>3
  <1> HIDE DEF nth
  <1>5. box \in [Keys -> Messages \cup {None}] /\ \A k \in Keys : box[k] # None => k < n + 1
    <2>1. \A k \in Keys : k <= n => server.box[nth(k)] \in Messages \cup {None} BY <1>1, <1>4 DEF TypeInv
    <2>2. \A k \in Keys : k <= n => k < n + 1 BY <1>3, KeysFinite
    <2>. QED BY <2>1, <2>2
  <1> HIDE DEF n, box
  <1>6. server' \in [box : [Keys -> Messages \cup {None}], next : Nat \ {0}, epoch : Nat \ {0}]
        /\ server'.box = box /\ server'.next = n + 1 /\ server'.epoch = server.epoch + 1
    BY <1>1, <1>2, <1>3, <1>5
  <1>7. torn' \in BOOLEAN BY <1>1, <1>2 DEF TypeInv, HasUidState
  <1>8. TypeInv' BY <1>1, <1>2, <1>6, <1>7 DEF TypeInv
  <1>9. FlowInv' BY <1>1, <1>2, <1>5, <1>6 DEF FolderInv, FlowInv
  <1>10. cursor.epoch <= server.epoch /\ cursor.epoch \in Nat /\ cursor.epoch # server'.epoch
    BY <1>1, <1>6 DEF FolderInv, ImapInv, ImapPass, TypeInv
  <1>11. ImapPass' BY <1>1, <1>2, <1>6, <1>10 DEF ImapPass, At
  <1>12. ~torn' /\ Trusted' => Current'
    <2> SUFFICES ASSUME ~torn', Trusted' PROVE Current' OBVIOUS
    <2>1. cursor.epoch = 0 /\ ~HasUidState BY <1>1, <1>2, <1>10 DEF Trusted, HasUidState, At
    <2>2. Stored' = {} BY <1>2, <2>1 DEF Stored
    <2>3. cursor.last = 0 BY <1>1, <2>1 DEF HasUidState, TypeInv
    <2>4. \A k \in Keys : ~(k <= 0) BY KeysFinite
    <2>. QED BY <1>2, <1>3, <1>6, <2>2, <2>3, <2>4 DEF Current, Listed
  <1>. QED BY <1>1, <1>2, <1>8, <1>9, <1>11, <1>12 DEF FolderInv, ImapInv, JmapInv, GraphInv

-----------------------------------------------------------------------------
\* Every step of a pass, of the user and the worker and of other clients, and
\* stuttering, preserves the invariant.
THEOREM FolderInductive == FolderInv /\ [Next]_vars => FolderInv'
  <1> SUFFICES ASSUME FolderInv, [Next]_vars PROVE FolderInv' OBVIOUS
  <1>1. CASE UNCHANGED vars
    <2>1. protocol' = protocol /\ server' = server /\ clock' = clock /\ stamp' = stamp /\ rows' = rows
          /\ prune' = prune /\ owed' = owed /\ cursor' = cursor /\ pass' = pass /\ pend' = pend
          /\ torn' = torn
      BY <1>1 DEF vars
    <2>2. TypeInv' /\ FlowInv' BY <2>1 DEF FolderInv, TypeInv, FlowInv
    <2>3. ImapInv'
      BY <2>1 DEF FolderInv, ImapInv, ImapPass, Current, Backlog, Trusted, HasUidState, At, Stored, Listed,
         Here, Leaving
    <2>4. JmapInv'
      BY <2>1 DEF FolderInv, JmapInv, JmapPass, JmapShown, JmapDelta, JmapListing, JmapRemovals, Mirrored,
         Unsettled, Went, Rank, Listed, View, Here, At
    <2>5. GraphInv'
      BY <2>1 DEF FolderInv, GraphInv, GraphPass, GraphLink, Mirrored, Unsettled, Leaving, Stored, View,
         Here, At
    <2>. QED BY <2>2, <2>3, <2>4, <2>5 DEF FolderInv
  <1>2. CASE Others
    BY <1>2, ArriveStep, RenumberStep, ReturnStep, ToggleStep, LeaveStep DEF Others
  <1>3. CASE JmapBegin
    BY <1>3, JmapBeginStep DEF JmapBegin, KeepHistory, At
  <1>4. CASE JmapFallback
    <2>1. protocol = "jmap" BY <1>4 DEF FolderInv, FlowInv, JmapFallback, At
    <2>. QED BY <1>4, <2>1, JmapBeginStep DEF JmapFallback, At
  <1>5. CASE Pass
    BY <1>3, <1>5, ImapSelectStep, ImapReconcileStep, ImapFlagsStep, ImapUidsStep, ImapFetchStep,
       ImapWatermarkStep, ImapFinishStep, JmapChangesStep, JmapQueryStep, JmapApplyStep,
       JmapTombstonesStep, GraphBeginStep, GraphPageStep, GraphPruneStep, FilterStep DEF Pass
  <1>6. CASE Perform \/ GraphExpired \/ Abort BY <1>6, PerformStep, GraphExpiredStep, AbortStep
  <1>7. CASE \E k \in Keys, op \in UserOps : UserChange(k, op) BY <1>7, UserChangeStep
  <1>. QED BY <1>1, <1>2, <1>4, <1>5, <1>6, <1>7 DEF Next

\* The invariant holds throughout.
THEOREM FolderInvariant == Spec => []FolderInv
  BY FolderInit, FolderInductive, PTL DEF Spec

\* The checkpoint never runs ahead of the mirror, for any size of the folder and of a
\* page, however passes are cut short and other clients interfere: last_seen_uid, the
\* JMAP state and the Graph link cover only what the rows show.
THEOREM FolderCheckpointSound == Spec => []CheckpointSound
  <1>1. FolderInv => CheckpointSound
    <2> SUFFICES ASSUME FolderInv PROVE CheckpointSound OBVIOUS
    <2>1. protocol \in {"imap", "jmap", "graph"} BY DEF FolderInv, TypeInv
    <2>2. \A k \in Keys : /\ Leaving(k) => Unsettled(k)
                          /\ Mirrored(k) => rows[k] = View(k) \/ Unsettled(k)
      BY DEF Leaving, Unsettled, Mirrored
    <2>3. CASE protocol = "imap"
      <3>1. cursor.epoch = server.epoch /\ ~torn => Current BY <2>3 DEF FolderInv, ImapInv, Trusted
      <3>. QED BY <2>2, <2>3, <3>1 DEF CheckpointSound, Current, Listed
    <2>4. CASE protocol = "jmap" BY <2>2, <2>4 DEF CheckpointSound, FolderInv, JmapInv, JmapShown
    <2>5. CASE protocol = "graph" BY <2>2, <2>5 DEF CheckpointSound, FolderInv, GraphInv, GraphLink
    <2>. QED BY <2>1, <2>3, <2>4, <2>5
  <1>. QED BY <1>1, FolderInvariant, PTL

=============================================================================
