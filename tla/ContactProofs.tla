---------------------------- MODULE ContactProofs ----------------------------
(***************************************************************************)
(* The address book for every number of changes by other clients, commands *)
(* and failures.  The first part is about JMAP: cards, rows, the listing a *)
(* sync holds and what a command waits for agree on which UID a version of *)
(* a contact's contents belongs to, so that no contact is there twice.     *)
(* The second is about Google and Graph, where ids tell contacts apart, and *)
(* the third about CardDAV, where a UID may come to be on two cards.       *)
(***************************************************************************)
EXTENDS ContactSync, FiniteSetTheorems, WellFoundedInduction, TLAPS

\* Cards and rows meet by their UIDs, each on one card only.
Keyed == provider = "jmap"

Ids == Stamps \cup {0}
Kept(r) == rows[r] # NoRow
IsLive(i) == cards[i].state = "live"

TypeInv ==
    /\ clock \in Nat /\ budget \in 0..Events
    /\ cards \in [Stamps -> [state : {"none", "live", "dead"}, val : Nat, uid : Nat, rev : Nat, prev : {{}}]]
    /\ rows \in [Rows -> [val : Nat, id : Ids, uid : Nat, etag : Nat]]

\* Contents, UIDs and ids are stamps that were given; a UID is on one card and
\* in one row.
CardsInv ==
    /\ \A i \in Stamps : IsLive(i) =>
         cards[i].val \in 1..clock /\ cards[i].uid \in 1..clock /\ i <= clock
    /\ \A i, j \in Stamps : IsLive(i) /\ IsLive(j) /\ cards[i].uid = cards[j].uid => i = j

RowsInv ==
    /\ \A r \in Rows : Kept(r) =>
         /\ rows[r].val \in 1..clock /\ rows[r].uid <= clock /\ rows[r].id <= clock
         /\ rows[r].id # 0 => rows[r].uid # 0
         /\ rows[r].id # 0 /\ IsLive(rows[r].id) => cards[rows[r].id].uid = rows[r].uid
    /\ \A r, s \in Rows : Kept(r) /\ Kept(s) /\ rows[r].uid = rows[s].uid => r = s

\* The listing a sync holds, which other clients may have made stale; a contact
\* of ours that is on the server was listed, if under another id.
SeenInv(seen) ==
    /\ DOMAIN seen \subseteq Stamps
    /\ \A i \in DOMAIN seen :
         /\ seen[i].val \in 1..clock /\ seen[i].uid \in 1..clock /\ i <= clock
         /\ IsLive(i) => cards[i].uid = seen[i].uid
         /\ \A r \in Rows : Kept(r) /\ rows[r].id = i => rows[r].uid = seen[i].uid
    /\ \A i, j \in DOMAIN seen : seen[i].uid = seen[j].uid => i = j
    /\ \A i \in Stamps, r \in Rows : IsLive(i) /\ Kept(r) /\ cards[i].uid = rows[r].uid
         => \E j \in DOMAIN seen : seen[j].uid = cards[i].uid

\* Rows whose contact is on no card.
Uncarded(todo) == \A r \in todo, i \in Stamps : IsLive(i) => cards[i].uid # rows[r].uid

\* What a command or sync holds while it waits for the server.
OpInv ==
    /\ op.pc \in {"idle", "push", "persist", "undo", "apply", "deferred", "attach"}
    /\ op.pc \in {"push", "persist"} =>
         /\ op.kind \in {"update", "delete"} /\ op.row \in Rows
         /\ op.id \in Stamps /\ op.id <= clock
         /\ op.kind # "delete" => Kept(op.row)
         /\ op.kind = "update" /\ op.pc = "push" => rows[op.row].id = op.id
    /\ op.pc = "undo" => op.id \in Stamps
    /\ op.pc = "apply" => SeenInv(op.seen)
    /\ op.pc = "deferred" =>
         op.todo \subseteq Unpushed(rows) /\ op.todo # {} /\ Uncarded(op.todo)
    /\ op.pc = "attach" =>
         /\ op.id \in Stamps /\ op.id <= clock
         /\ op.row \in Unpushed(rows) /\ rows[op.row].uid # 0
         /\ op.todo \subseteq Unpushed(rows) \ {op.row} /\ Uncarded(op.todo)
         /\ IsLive(op.id) => cards[op.id].uid = rows[op.row].uid

\* Contents v are those of the contact with UID u: on a card, in a row or in a
\* listing. Every version of a contact's contents belongs to one UID.
Names(v, u) ==
    \/ \E i \in Stamps : IsLive(i) /\ cards[i].val = v /\ cards[i].uid = u
    \/ \E r \in Rows : Kept(r) /\ rows[r].val = v /\ rows[r].uid = u
    \/ op.pc = "apply" /\ \E i \in DOMAIN op.seen : op.seen[i].val = v /\ op.seen[i].uid = u
Binding == \A v, u, w \in Nat : Names(v, u) /\ Names(v, w) => u = w

\* The stamps still to be given, for the rows a sync will push and for the
\* request under way, are paid for by events.
Owing == Unpushed(rows) \ (IF op.pc = "attach" THEN {op.row} ELSE {})
Request == IF op.pc \in {"push", "undo"} THEN 1 ELSE 0
ClockInv == clock + 3 * budget + Request + Cardinality(Owing) <= 3 + 3 * Events

KeyedInv == Keyed => TypeInv /\ CardsInv /\ RowsInv /\ OpInv /\ Binding /\ ClockInv

-----------------------------------------------------------------------------
(* The server's cards, field by field *)

CardFcns == [Stamps -> [state : {"none", "live", "dead"}, val : Nat, uid : Nat, rev : Nat, prev : {{}}]]
RowFcns == [Rows -> [val : Nat, id : Ids, uid : Nat, etag : Nat]]

\* Stamps and rows are numbers from 1.
LEMMA Numbers ==
    /\ Stamps \subseteq Nat \ {0} /\ Rows \subseteq Nat \ {0} /\ Ids \subseteq Nat
    /\ \A n \in Nat : n # 0 /\ n <= 3 + 3 * Events => n \in Stamps
  BY EventsAssumption DEF Stamps, Rows, Ids

\* An edited card keeps its state and UID.
LEMMA WrittenFields ==
    ASSUME cards \in CardFcns, clock \in Nat, NEW i \in Stamps, NEW v \in Nat
    PROVE  /\ Written(i, v) \in CardFcns
           /\ \A j \in Stamps : /\ Written(i, v)[j].state = cards[j].state
                                /\ Written(i, v)[j].uid = cards[j].uid
                                /\ Written(i, v)[j].val = IF j = i THEN v ELSE cards[j].val
  <1> DEFINE one == [cards EXCEPT ![i].val = v]
  <1>1. one \in CardFcns BY DEF CardFcns
  <1>2. \A j \in Stamps : /\ one[j].state = cards[j].state /\ one[j].uid = cards[j].uid
                          /\ one[j].val = IF j = i THEN v ELSE cards[j].val
    BY DEF CardFcns
  <1>3. Written(i, v) = [one EXCEPT ![i].rev = clock + 1] BY DEF Written, CardFcns
  <1> HIDE DEF one
  <1>4. clock + 1 \in Nat OBVIOUS
  <1>5. Written(i, v) \in CardFcns BY <1>1, <1>3, <1>4 DEF CardFcns
  <1>6. \A j \in Stamps : /\ Written(i, v)[j].state = one[j].state /\ Written(i, v)[j].uid = one[j].uid
                          /\ Written(i, v)[j].val = one[j].val
    BY <1>1, <1>3, <1>4 DEF CardFcns
  <1>. QED BY <1>2, <1>5, <1>6

\* A removed card is dead.
LEMMA RemovedFields ==
    ASSUME cards \in CardFcns, clock \in Nat, NEW i \in Stamps
    PROVE  /\ Removed(i) \in CardFcns
           /\ \A j \in Stamps : /\ Removed(i)[j].state = IF j = i THEN "dead" ELSE cards[j].state
                                /\ Removed(i)[j].uid = cards[j].uid
                                /\ Removed(i)[j].val = cards[j].val
  <1> DEFINE one == [cards EXCEPT ![i].state = "dead"]
  <1>1. one \in CardFcns BY DEF CardFcns
  <1>2. \A j \in Stamps : /\ one[j].state = IF j = i THEN "dead" ELSE cards[j].state
                          /\ one[j].uid = cards[j].uid /\ one[j].val = cards[j].val
    BY DEF CardFcns
  <1>3. Removed(i) = [one EXCEPT ![i].rev = clock + 1] BY DEF Removed, CardFcns
  <1> HIDE DEF one
  <1>4. clock + 1 \in Nat OBVIOUS
  <1>5. Removed(i) \in CardFcns BY <1>1, <1>3, <1>4 DEF CardFcns
  <1>6. \A j \in Stamps : /\ Removed(i)[j].state = one[j].state /\ Removed(i)[j].uid = one[j].uid
                          /\ Removed(i)[j].val = one[j].val
    BY <1>1, <1>3, <1>4 DEF CardFcns
  <1>. QED BY <1>2, <1>5, <1>6

\* An added card is live, with the contents and UID it was sent with.
LEMMA AddedFields ==
    ASSUME cards \in CardFcns, clock \in Nat, NEW i \in Stamps, NEW v \in Nat, NEW u \in Nat
    PROVE  /\ Added(i, v, u, "live") \in CardFcns
           /\ \A j \in Stamps : /\ Added(i, v, u, "live")[j].state = IF j = i THEN "live" ELSE cards[j].state
                                /\ Added(i, v, u, "live")[j].uid = IF j = i THEN u ELSE cards[j].uid
                                /\ Added(i, v, u, "live")[j].val = IF j = i THEN v ELSE cards[j].val
  BY DEF Added, CardFcns

\* A JMAP card that gets a new id keeps its UID and contents.
RenamedJmap(i) ==
    [cards EXCEPT ![clock + 1] = [cards[i] EXCEPT !.rev = clock + 1, !.prev = {}],
                  ![i] = [NoCard EXCEPT !.state = "dead"]]

\* Its fields, card by card.
LEMMA RenamedFields ==
    ASSUME cards \in CardFcns, clock \in Nat, NEW i \in Stamps, clock + 1 \in Stamps, i # clock + 1
    PROVE  /\ RenamedJmap(i) \in CardFcns
           /\ \A j \in Stamps :
                IF j = clock + 1
                THEN /\ RenamedJmap(i)[j].state = cards[i].state /\ RenamedJmap(i)[j].uid = cards[i].uid
                     /\ RenamedJmap(i)[j].val = cards[i].val
                ELSE IF j = i THEN RenamedJmap(i)[j].state = "dead"
                ELSE RenamedJmap(i)[j] = cards[j]
  <1> DEFINE new == [cards[i] EXCEPT !.rev = clock + 1, !.prev = {}]
             old == [NoCard EXCEPT !.state = "dead"]
             C == [state : {"none", "live", "dead"}, val : Nat, uid : Nat, rev : Nat, prev : {{}}]
  <1>1. new \in C /\ new.state = cards[i].state /\ new.uid = cards[i].uid /\ new.val = cards[i].val
    <2> DEFINE c == cards[i]
    <2>1. c \in C /\ clock + 1 \in Nat BY DEF CardFcns
    <2> HIDE DEF c
    <2> DEFINE d == [c EXCEPT !.rev = clock + 1]
    <2>2. d \in C /\ d.state = c.state /\ d.uid = c.uid /\ d.val = c.val BY <2>1
    <2>3. new = [d EXCEPT !.prev = {}] BY <2>1 DEF c
    <2> HIDE DEF d, new
    <2>. QED BY <2>2, <2>3 DEF c
  <1>2. old \in C /\ old.state = "dead" BY DEF NoCard
  <1>3. RenamedJmap(i) = [cards EXCEPT ![clock + 1] = new, ![i] = old] BY DEF RenamedJmap
  <1> HIDE DEF new, old
  <1>4. RenamedJmap(i) = [j \in Stamps |-> IF j = i THEN old ELSE IF j = clock + 1 THEN new ELSE cards[j]]
    BY <1>3 DEF CardFcns
  <1>5. RenamedJmap(i) \in CardFcns BY <1>1, <1>2, <1>4 DEF CardFcns
  <1>. QED BY <1>1, <1>2, <1>4, <1>5

\* Except with Google no card is an alias, so an id stands for itself.
LEMMA ResolveIs ==
    ASSUME cards \in CardFcns, NEW i \in Stamps
    PROVE  /\ Resolve(i) = i /\ (Readable(i) <=> IsLive(i)) /\ (Exists(i) <=> IsLive(i))
  <1>1. i # 0 BY Numbers
  <1>2. cards[i].state \in {"none", "live", "dead"} BY DEF CardFcns
  <1>. QED BY <1>1, <1>2 DEF Resolve, Readable, Exists, IsLive

-----------------------------------------------------------------------------
(* Changes of the server's cards *)

\* The stamps of the invariant are the given ones.
Inv == TypeInv /\ CardsInv /\ RowsInv /\ OpInv /\ Binding /\ ClockInv

\* What a change of cards must respect: a live card keeps its UID, or is
\* new; its contents are new or those of its contact already.
CardStep ==
    /\ cards' \in CardFcns /\ clock' \in {clock, clock + 1}
    /\ \A i \in Stamps : IsLive(i)' =>
         /\ \/ IsLive(i) /\ cards'[i].uid = cards[i].uid
            \/ i = clock + 1
         /\ op.pc # "push" => \/ cards'[i].uid = clock + 1
                              \/ \E j \in Stamps : IsLive(j) /\ cards[j].uid = cards'[i].uid
         /\ cards'[i].uid \in 1..clock' /\ i <= clock'
         /\ cards'[i].val \in 1..clock'
         /\ Names(cards'[i].val, cards'[i].uid) \/ cards'[i].val = clock + 1
    /\ \A i, j \in Stamps : IsLive(i)' /\ IsLive(j)' /\ cards'[i].uid = cards'[j].uid => i = j

\* Named contents were given.
LEMMA NamesBound ==
    ASSUME Inv, NEW v, NEW u, Names(v, u)
    PROVE  v \in 1..clock /\ u \in Nat /\ u <= clock
  BY Numbers DEF Inv, TypeInv, CardsInv, RowsInv, OpInv, SeenInv, Names, Kept

\* Such a change leaves the cards and rows in order.
LEMMA CardStepKeeps ==
    ASSUME Keyed, Inv, CardStep, rows' = rows, provider' = provider
    PROVE  CardsInv' /\ RowsInv' /\ (op.pc # "push" => \A seen : SeenInv(seen) => SeenInv(seen)')
  <1>1. CardsInv' BY DEF CardStep, CardsInv, IsLive
  <1>2. clock <= clock' /\ clock \in Nat /\ clock' \in Nat BY DEF CardStep, Inv, TypeInv
  <1>3. \A r \in Rows : rows[r].id \in Ids BY DEF Inv, TypeInv
  <1>0. /\ \A n : n \in 1..clock => n \in 1..clock'
        /\ \A n \in Nat : n <= clock => n <= clock'
    BY <1>2
  <1>4. RowsInv'
    <2>1. \A r, s \in Rows : Kept(r)' /\ Kept(s)' /\ rows'[r].uid = rows'[s].uid => r = s
      BY DEF Inv, RowsInv, Kept
    <2>2. ASSUME NEW r \in Rows, Kept(r)
          PROVE  /\ rows[r].val \in 1..clock' /\ rows[r].uid <= clock' /\ rows[r].id <= clock'
                 /\ rows[r].id # 0 => rows[r].uid # 0
      <3>1. rows[r].val \in 1..clock' BY <1>0, <2>2 DEF Inv, RowsInv
      <3>2. rows[r].uid \in Nat /\ rows[r].id \in Nat BY <1>3, Numbers DEF Inv, TypeInv
      <3>3. rows[r].uid <= clock' /\ rows[r].id <= clock' BY <1>0, <2>2, <3>2 DEF Inv, RowsInv
      <3>. QED BY <2>2, <3>1, <3>3 DEF Inv, RowsInv
    <2>3. ASSUME NEW r \in Rows, Kept(r), rows[r].id # 0, IsLive(rows[r].id)'
          PROVE  cards'[rows[r].id].uid = rows[r].uid
      <3> DEFINE i == rows[r].id
      <3>1. i \in Stamps /\ i <= clock /\ i # clock + 1 BY <1>2, <1>3, <2>3 DEF Ids, Inv, RowsInv
      <3>2. IsLive(i) /\ cards'[i].uid = cards[i].uid
        BY <2>3, <3>1 DEF CardStep
      <3>. QED BY <2>3, <3>2 DEF Inv, RowsInv
    <2>. QED BY <2>1, <2>2, <2>3 DEF RowsInv, Kept
  <1>5. ASSUME op.pc # "push", NEW seen, SeenInv(seen) PROVE SeenInv(seen)'
    <2>1. ASSUME NEW i \in DOMAIN seen, IsLive(i)' PROVE cards'[i].uid = seen[i].uid
      <3>1. i \in Stamps /\ i <= clock /\ i # clock + 1 BY <1>2, <1>5, Numbers DEF SeenInv
      <3>2. IsLive(i) /\ cards'[i].uid = cards[i].uid
        BY <2>1, <3>1 DEF CardStep
      <3>. QED BY <1>5, <3>2 DEF SeenInv
    <2>2. ASSUME NEW i \in DOMAIN seen
          PROVE  seen[i].val \in 1..clock' /\ seen[i].uid \in 1..clock' /\ i <= clock'
      BY <1>0, <1>5, Numbers DEF SeenInv
    <2>3. ASSUME NEW i \in Stamps, NEW r \in Rows, IsLive(i)', Kept(r), cards'[i].uid = rows[r].uid
          PROVE  \E j \in DOMAIN seen : seen[j].uid = cards'[i].uid
      <3>1. rows[r].uid \in Nat /\ rows[r].uid <= clock BY <2>3 DEF Inv, TypeInv, RowsInv
      <3>2. rows[r].uid # clock + 1 BY <1>2, <3>1
      <3>3. PICK j \in Stamps : IsLive(j) /\ cards[j].uid = cards'[i].uid BY <1>5, <2>3, <3>2 DEF CardStep
      <3>. QED BY <1>5, <2>3, <3>3 DEF SeenInv
    <2>. QED BY <1>5, <2>1, <2>2, <2>3 DEF SeenInv, Kept
  <1>. QED BY <1>1, <1>4, <1>5

\* It adds at most one version of a contact's contents.
LEMMA CardStepBinds ==
    ASSUME Keyed, Inv, CardStep, rows' = rows, op' = op \/ op'.pc # "apply",
           \A i, j \in Stamps : IsLive(i)' /\ IsLive(j)' /\ cards'[i].val = clock + 1 /\ cards'[j].val = clock + 1
                                => i = j
    PROVE  Binding'
  <1>1. clock \in Nat BY DEF Inv, TypeInv
  <1>2. ASSUME NEW v \in Nat, NEW u \in Nat, Names(v, u)'
        PROVE  Names(v, u) \/ (v = clock + 1 /\ \E i \in Stamps : IsLive(i)' /\ cards'[i].val = v /\ cards'[i].uid = u)
    BY <1>2 DEF Names, CardStep, Kept, IsLive
  <1>3. \A v, u \in Nat : Names(v, u) => v # clock + 1 BY <1>1, NamesBound
  <1>4. SUFFICES ASSUME NEW v \in Nat, NEW u \in Nat, NEW w \in Nat, Names(v, u)', Names(v, w)' PROVE u = w
    BY DEF Binding
  <1>5. CASE Names(v, u) /\ Names(v, w) BY <1>5 DEF Inv, Binding
  <1>6. CASE v = clock + 1
    BY <1>2, <1>3, <1>4, <1>6
  <1>. QED BY <1>2, <1>3, <1>4, <1>5, <1>6

\* The rows are finitely many, and so are the ones still to be pushed.
LEMMA OwingFinite ==
    ASSUME TypeInv
    PROVE  /\ IsFiniteSet(Owing) /\ Cardinality(Owing) \in Nat /\ Owing \subseteq Rows
           /\ \A S : S \subseteq Rows => IsFiniteSet(S) /\ Cardinality(S) \in Nat
           /\ \A S, T : S \subseteq T /\ T \subseteq Rows => Cardinality(S) <= Cardinality(T)
  <1>1. IsFiniteSet(Rows)
    <2>1. 1 \in Int /\ 2 + Events \in Int BY EventsAssumption
    <2>. QED BY <2>1, FS_Interval DEF Rows
  <1>2. \A S : S \subseteq Rows => IsFiniteSet(S) /\ Cardinality(S) \in Nat BY <1>1, FS_Subset, FS_CardinalityType
  <1>3. Owing \subseteq Rows BY DEF Owing, Unpushed, Stored
  <1>4. \A S, T : S \subseteq T /\ T \subseteq Rows => Cardinality(S) <= Cardinality(T) BY <1>2, FS_Subset
  <1>. QED BY <1>2, <1>3, <1>4

\* As long as something is owed or an event is left, there is a stamp to give.
LEMMA StampLeft ==
    ASSUME Inv, budget > 0 \/ Request > 0 \/ Owing # {}
    PROVE  clock + 1 \in Stamps
  <1>1. Cardinality(Owing) \in Nat /\ (Owing # {} => Cardinality(Owing) > 0)
    BY OwingFinite, FS_EmptySet DEF Inv
  <1>2. clock \in Nat /\ budget \in Nat /\ Request \in {0, 1} BY EventsAssumption DEF Inv, TypeInv, Request
  <1>3. clock + 3 * budget + Request + Cardinality(Owing) <= 3 + 3 * Events BY DEF Inv, ClockInv
  <1>4. clock + 1 <= 3 + 3 * Events /\ clock + 1 \in Nat /\ clock + 1 # 0 BY <1>1, <1>2, <1>3, EventsAssumption
  <1>. QED BY <1>4, Numbers

\* The invariant speaks of these only.
LEMMA SameState ==
    ASSUME Inv, UNCHANGED <<provider, clock, cards, rows, op, budget>>
    PROVE  Inv'
  <1>1. TypeInv' /\ CardsInv' BY DEF Inv, TypeInv, CardsInv, IsLive
  <1>2. RowsInv' /\ ClockInv'
    BY DEF Inv, RowsInv, ClockInv, IsLive, Kept, Owing, Request, Unpushed, Stored
  <1>3. OpInv' BY DEF Inv, OpInv, SeenInv, Uncarded, IsLive, Kept, Unpushed, Stored
  <1>4. Binding'
    <2>1. \A v, u : Names(v, u)' <=> Names(v, u) BY DEF Names, IsLive, Kept
    <2>. QED BY <2>1 DEF Inv, Binding
  <1>. QED BY <1>1, <1>2, <1>3, <1>4 DEF Inv

\* A change of cards while the command or sync under way waits.
LEMMA CardStepOp ==
    ASSUME Keyed, Inv, CardStep, rows' = rows, provider' = provider, op' = op
    PROVE  OpInv'
  <1>1. clock <= clock' /\ clock \in Nat /\ clock' \in Nat BY DEF CardStep, Inv, TypeInv
  <1>2. \A n \in Nat : n <= clock => n <= clock' /\ n # clock + 1 BY <1>1
  <1>3. Ids \subseteq Nat BY Numbers
  <1>4. op.pc \in {"push", "persist"} => op.id <= clock'
    <2>1. op.pc \in {"push", "persist"} => op.id \in Ids /\ op.id <= clock BY DEF Inv, OpInv, Ids
    <2>. QED BY <1>2, <1>3, <2>1
  <1>5. op.pc = "apply" => SeenInv(op.seen)' BY CardStepKeeps DEF Inv, OpInv, Keyed
  <1>6. ASSUME op.pc = "attach" PROVE op.id <= clock' /\ (IsLive(op.id)' => cards'[op.id].uid = rows[op.row].uid)
    <2>0. op.id \in Stamps /\ op.id <= clock /\ provider = "jmap" BY <1>6 DEF Inv, OpInv, Keyed
    <2>1. op.id \in Nat /\ op.id # clock + 1 BY <1>2, <1>3, <2>0 DEF Ids
    <2>2. IsLive(op.id)' => IsLive(op.id) /\ cards'[op.id].uid = cards[op.id].uid BY <2>0, <2>1 DEF CardStep
    <2>. QED BY <1>2, <1>6, <2>0, <2>1, <2>2 DEF Inv, OpInv
  <1>7. ASSUME op.pc # "push", NEW todo, todo \subseteq Unpushed(rows), Uncarded(todo) PROVE Uncarded(todo)'
    <2> SUFFICES ASSUME NEW r \in todo, NEW i \in Stamps, IsLive(i)', cards'[i].uid = rows[r].uid PROVE FALSE
      BY DEF Uncarded
    <2>1. r \in Rows /\ Kept(r) BY <1>7 DEF Unpushed, Stored, Kept
    <2>2. rows[r].uid \in Nat /\ rows[r].uid <= clock BY <2>1 DEF Inv, TypeInv, RowsInv
    <2>3. rows[r].uid # clock + 1 BY <1>1, <2>2
    <2>4. PICK j \in Stamps : IsLive(j) /\ cards[j].uid = cards'[i].uid BY <1>7, <2>3 DEF CardStep
    <2>. QED BY <1>7, <2>4 DEF Uncarded
  <1>8. op.pc \in {"deferred", "attach"} => Uncarded(op.todo)' BY <1>7 DEF Inv, OpInv
  <1>. QED BY <1>4, <1>5, <1>6, <1>8 DEF Inv, OpInv, Kept, Unpushed, Stored

\* Other clients create, edit, delete and rename cards.
LEMMA OtherStep ==
    ASSUME Keyed, Inv, OtherChange
    PROVE  Inv'
  <1>1. /\ budget > 0 /\ budget' = budget - 1 /\ provider' = provider /\ rows' = rows /\ op' = op
        /\ clock' = clock + 1
    BY DEF OtherChange, OtherCreates, OtherEdits, OtherDeletes, OtherRenames, Keyed
  <1>2. clock \in Nat /\ clock + 1 \in Nat /\ clock + 1 \in Stamps /\ cards \in CardFcns /\ budget \in Nat
    BY <1>1, StampLeft, EventsAssumption DEF Inv, TypeInv, CardFcns
  <1>3. \A i \in Stamps : IsLive(i) => /\ i <= clock /\ i \in Nat /\ i # clock + 1 /\ cards[i].uid \in 1..clock
                                       /\ cards[i].val \in 1..clock /\ Names(cards[i].val, cards[i].uid)
    <2> SUFFICES ASSUME NEW i \in Stamps, IsLive(i)
                 PROVE  /\ i <= clock /\ i \in Nat /\ i # clock + 1 /\ cards[i].uid \in 1..clock
                        /\ cards[i].val \in 1..clock /\ Names(cards[i].val, cards[i].uid)
      OBVIOUS
    <2>1. i <= clock /\ cards[i].uid \in 1..clock /\ cards[i].val \in 1..clock BY DEF Inv, CardsInv
    <2>2. i \in Nat BY Numbers
    <2>3. i # clock + 1 BY <1>2, <2>1, <2>2
    <2>. QED BY <2>1, <2>2, <2>3 DEF Names
  <1>4. /\ \A n : n \in 1..clock => n \in 1..(clock + 1) /\ n # clock + 1
        /\ clock + 1 \in 1..(clock + 1) /\ clock <= clock + 1
        /\ \A n \in Nat : n <= clock => n <= clock + 1
    BY <1>2
  <1>5. CardStep /\ \A i, j \in Stamps : IsLive(i)' /\ IsLive(j)' /\ cards'[i].val = clock + 1
                                         /\ cards'[j].val = clock + 1 => i = j
    <2>1. CASE OtherCreates
      <3>1. cards' = Added(clock + 1, clock + 1, clock + 1, "live") BY <2>1 DEF OtherCreates, Keyed
      <3>2. /\ cards' \in CardFcns
            /\ \A j \in Stamps : /\ cards'[j].state = IF j = clock + 1 THEN "live" ELSE cards[j].state
                                 /\ cards'[j].uid = IF j = clock + 1 THEN clock + 1 ELSE cards[j].uid
                                 /\ cards'[j].val = IF j = clock + 1 THEN clock + 1 ELSE cards[j].val
        BY <1>2, <3>1, AddedFields
      <3>. QED BY <1>1, <1>3, <1>4, <3>2 DEF CardStep, IsLive, Inv, CardsInv
    <2>2. ASSUME NEW i \in Live, OtherEdits(i)
          PROVE  CardStep /\ \A k, j \in Stamps : IsLive(k)' /\ IsLive(j)' /\ cards'[k].val = clock + 1
                                                  /\ cards'[j].val = clock + 1 => k = j
      <3>1. cards' = Written(i, clock + 1) /\ i \in Stamps /\ IsLive(i) BY <2>2 DEF OtherEdits, Live, IsLive
      <3>2. /\ cards' \in CardFcns
            /\ \A j \in Stamps : /\ cards'[j].state = cards[j].state
                                 /\ cards'[j].uid = cards[j].uid
                                 /\ cards'[j].val = IF j = i THEN clock + 1 ELSE cards[j].val
        BY <1>2, <3>1, WrittenFields
      <3>. QED BY <1>1, <1>3, <1>4, <3>1, <3>2 DEF CardStep, IsLive, Inv, CardsInv
    <2>3. ASSUME NEW i \in Live, OtherDeletes(i)
          PROVE  CardStep /\ \A k, j \in Stamps : IsLive(k)' /\ IsLive(j)' /\ cards'[k].val = clock + 1
                                                  /\ cards'[j].val = clock + 1 => k = j
      <3>1. cards' = Removed(i) /\ i \in Stamps BY <2>3 DEF OtherDeletes, Live
      <3>2. /\ cards' \in CardFcns
            /\ \A j \in Stamps : /\ cards'[j].state = IF j = i THEN "dead" ELSE cards[j].state
                                 /\ cards'[j].uid = cards[j].uid
                                 /\ cards'[j].val = cards[j].val
        BY <1>2, <3>1, RemovedFields
      <3>. QED BY <1>1, <1>3, <1>4, <3>1, <3>2 DEF CardStep, IsLive, Inv, CardsInv
    <2>4. ASSUME NEW i \in Live, OtherRenames(i)
          PROVE  CardStep /\ \A k, j \in Stamps : IsLive(k)' /\ IsLive(j)' /\ cards'[k].val = clock + 1
                                                  /\ cards'[j].val = clock + 1 => k = j
      <3>1. provider = "jmap" BY <2>4 DEF OtherRenames, Keyed
      <3>2. i \in Stamps /\ IsLive(i) /\ i # clock + 1 BY <1>3 DEF Live, IsLive
      <3>3. cards' = RenamedJmap(i) BY <2>4, <3>1 DEF OtherRenames, RenamedJmap
      <3>4. /\ cards' \in CardFcns
            /\ \A j \in Stamps :
                 IF j = clock + 1
                 THEN cards'[j].state = cards[i].state /\ cards'[j].uid = cards[i].uid /\ cards'[j].val = cards[i].val
                 ELSE IF j = i THEN cards'[j].state = "dead" ELSE cards'[j] = cards[j]
        BY <1>2, <3>2, <3>3, RenamedFields
      <3>5. \A j \in Stamps : IsLive(j)' =>
              \/ j = clock + 1 /\ cards'[j].uid = cards[i].uid /\ cards'[j].val = cards[i].val
              \/ j # clock + 1 /\ j # i /\ IsLive(j) /\ cards'[j] = cards[j]
        BY <3>4 DEF IsLive
      <3>6. \A k, j \in Stamps : IsLive(k)' /\ IsLive(j)' /\ cards'[k].uid = cards'[j].uid => k = j
        BY <3>2, <3>5 DEF Inv, CardsInv
      <3>7. \A j \in Stamps : IsLive(j)' => /\ cards'[j].uid \in 1..clock' /\ cards'[j].val \in 1..clock'
                                            /\ j <= clock' /\ Names(cards'[j].val, cards'[j].uid)
                                            /\ cards'[j].val # clock + 1
        BY <1>1, <1>3, <1>4, <3>2, <3>5
      <3>8. \A j \in Stamps : IsLive(j)' => \E k \in Stamps : IsLive(k) /\ cards[k].uid = cards'[j].uid
        BY <3>2, <3>5
      <3>. QED BY <1>1, <3>1, <3>4, <3>5, <3>6, <3>7, <3>8 DEF CardStep
    <2>. QED BY <2>1, <2>2, <2>3, <2>4 DEF OtherChange
  <1>6. CardsInv' /\ RowsInv' BY <1>1, <1>5, CardStepKeeps
  <1>7. Binding' BY <1>1, <1>5, CardStepBinds
  <1>8. OpInv' BY <1>1, <1>5, CardStepOp
  <1>9. TypeInv'
    <2>1. budget' \in 0..Events BY <1>1, <1>2, EventsAssumption DEF Inv, TypeInv
    <2>. QED BY <1>1, <1>2, <1>5, <2>1 DEF CardStep, CardFcns, Inv, TypeInv
  <1>10. ClockInv'
    <2>1. Owing' = Owing /\ Request' = Request BY <1>1 DEF Owing, Request, Unpushed, Stored
    <2>2. Cardinality(Owing) \in Nat /\ Request \in {0, 1} BY OwingFinite DEF Inv, Request
    <2>. QED BY <1>1, <1>2, <2>1, <2>2, EventsAssumption DEF Inv, ClockInv
  <1>. QED BY <1>6, <1>7, <1>8, <1>9, <1>10 DEF Inv

\* Nothing is hidden, and absences are Google's: time changes nothing here.
LEMMA TickStep ==
    ASSUME Keyed, Inv, Tick
    PROVE  Inv'
  <1>1. cards \in CardFcns BY DEF Inv, TypeInv, CardFcns
  <1>2. {i \in Stamps : cards[i].state = "hidden"} = {} BY <1>1 DEF CardFcns
  <1>3. cards' = [i \in Stamps |-> cards[i]] /\ clock' = clock BY <1>2 DEF Tick
  <1>4. cards' = cards BY <1>1, <1>3 DEF CardFcns
  <1>. QED BY <1>3, <1>4, SameState DEF Tick

-----------------------------------------------------------------------------
(* Commands *)

\* What a change of rows must respect.
RowStep ==
    /\ rows' \in RowFcns /\ clock' \in {clock, clock + 1}
    /\ \A r \in Rows : Kept(r)' =>
         /\ rows'[r].val \in 1..clock' /\ rows'[r].uid <= clock' /\ rows'[r].id <= clock'
         /\ rows'[r].id # 0 => rows'[r].uid # 0
         /\ rows'[r].id # 0 /\ IsLive(rows'[r].id) => cards[rows'[r].id].uid = rows'[r].uid
         /\ Names(rows'[r].val, rows'[r].uid) \/ rows'[r].val = clock + 1
    /\ \A r, s \in Rows : Kept(r)' /\ Kept(s)' /\ rows'[r].uid = rows'[s].uid => r = s

\* Such a change leaves the cards and rows in order, when no listing is held.
LEMMA RowStepKeeps ==
    ASSUME Keyed, Inv, RowStep, cards' = cards, provider' = provider, op'.pc # "apply",
           \A r, s \in Rows : Kept(r)' /\ Kept(s)' /\ rows'[r].val = clock + 1 /\ rows'[s].val = clock + 1
                              => r = s
    PROVE  CardsInv' /\ RowsInv' /\ Binding'
  <1>1. clock <= clock' /\ clock \in Nat /\ clock' \in Nat BY DEF RowStep, Inv, TypeInv
  <1>2. /\ \A n : n \in 1..clock => n \in 1..clock' /\ n # clock + 1
        /\ \A n \in Nat : n <= clock => n <= clock'
    BY <1>1
  <1>3. CardsInv' BY <1>2, Numbers DEF Inv, CardsInv, IsLive
  <1>4. RowsInv' BY DEF RowStep, RowsInv, IsLive
  <1>5. ASSUME NEW v \in Nat, NEW u \in Nat, Names(v, u)'
        PROVE  Names(v, u) \/ (v = clock + 1 /\ \E r \in Rows : Kept(r)' /\ rows'[r].val = v /\ rows'[r].uid = u)
    BY <1>5 DEF Names, RowStep, Kept, IsLive
  <1>6. \A v, u \in Nat : Names(v, u) => v # clock + 1 BY <1>2, NamesBound
  <1>7. ASSUME NEW v \in Nat, NEW u \in Nat, NEW w \in Nat, Names(v, u)', Names(v, w)' PROVE u = w
    <2>1. CASE Names(v, u) /\ Names(v, w) BY <2>1 DEF Inv, Binding
    <2>2. CASE v = clock + 1 BY <1>5, <1>6, <1>7, <2>2
    <2>. QED BY <1>5, <1>6, <1>7, <2>1, <2>2
  <1>. QED BY <1>3, <1>4, <1>7 DEF Binding

\* The least of some numbers is one of them.
LEMMA MinIn ==
    ASSUME NEW S, S \subseteq Nat, S # {}
    PROVE  Min(S) \in S
  <1>1. PICK x \in S : \A y \in S : ~(<<y, x>> \in OpToRel(<, Nat))
    BY NatLessThanWellFounded, WFMin
  <1>2. \A y \in S : y < x => <<y, x>> \in OpToRel(<, Nat) BY DEF OpToRel
  <1>3. \A y \in S : ~(y < x) BY <1>1, <1>2, Zenon
  <1>4. \A y \in S : x =< y BY <1>3
  <1>. QED BY <1>4 DEF Min

\* The push that follows a local change.
LEMMA PushIs ==
    ASSUME NEW r, NEW row
    PROVE  \/ row.id # 0 /\ PushOf(r, row) = Push("update", r, row.id)
           \/ row.id = 0 /\ provider = "jmap" /\ PushOf(r, row) = Idle
           \/ row.id = 0 /\ provider # "jmap" /\ PushOf(r, row) = Push("create", r, 0)
  BY DEF PushOf

\* create_contact: a row with contents and a UID of its own.
LEMMA CreateStep ==
    ASSUME Keyed, Inv, Command, Create
    PROVE  Inv'
  <1> DEFINE r == Min(Rows \ Stored(rows))
             row == [NoRow EXCEPT !.val = clock + 1, !.uid = clock + 1]
  <1>1. /\ budget > 0 /\ budget' = budget - 1 /\ provider' = provider /\ cards' = cards
        /\ clock' = clock + 1 /\ rows' = [rows EXCEPT ![r] = row] /\ op' = PushOf(r, row) /\ op = Idle
    BY DEF Command, Create
  <1>2. clock \in Nat /\ budget \in Nat /\ rows \in RowFcns
    BY EventsAssumption DEF Inv, TypeInv, RowFcns
  <1>3. r \in Rows /\ ~Kept(r)
    <2>1. Rows \ Stored(rows) \subseteq Nat /\ Rows \ Stored(rows) # {}
      BY Numbers DEF Create, Stored
    <2>2. r \in Rows \ Stored(rows) BY <2>1, MinIn
    <2>. QED BY <2>2 DEF Stored, Kept
  <1>4. /\ row = [val |-> clock + 1, id |-> 0, uid |-> clock + 1, etag |-> 0]
        /\ row.val = clock + 1 /\ row.id = 0 /\ row.uid = clock + 1 /\ row # NoRow
    <2> DEFINE one == [NoRow EXCEPT !.val = clock + 1]
    <2>0. one = [val |-> clock + 1, id |-> 0, uid |-> 0, etag |-> 0] BY DEF NoRow
    <2>5. row = [one EXCEPT !.uid = clock + 1] BY DEF NoRow
    <2> HIDE DEF one
    <2>1. row = [val |-> clock + 1, id |-> 0, uid |-> clock + 1, etag |-> 0] BY <2>0, <2>5
    <2>2. clock + 1 # 0 BY <1>2
    <2> HIDE DEF row
    <2>3. row.val = clock + 1 /\ row.id = 0 /\ row.uid = clock + 1 BY <2>1
    <2>4. NoRow.val = 0 BY DEF NoRow
    <2>. QED BY <2>1, <2>2, <2>3, <2>4
  <1> HIDE DEF r, row
  <1>5. \A s \in Rows : rows'[s] = IF s = r THEN row ELSE rows[s] BY <1>1, <1>2, <1>3 DEF RowFcns
  <1>6. RowStep
    <2>1. rows' \in RowFcns
      <3>1. row \in [val : Nat, id : Ids, uid : Nat, etag : Nat] BY <1>2, <1>4 DEF Ids
      <3>. QED BY <1>1, <1>2, <1>3, <3>1 DEF RowFcns
    <2>2. \A s \in Rows : Kept(s)' => s = r \/ (Kept(s) /\ rows'[s] = rows[s]) BY <1>5 DEF Kept
    <2>3. \A s \in Rows : Kept(s) => /\ rows[s].val \in 1..clock' /\ rows[s].uid <= clock' /\ rows[s].id <= clock'
                                     /\ rows[s].uid # clock + 1 /\ Names(rows[s].val, rows[s].uid)
      <3>1. \A n : n \in 1..clock => n \in 1..clock' BY <1>1, <1>2
      <3>2. \A n \in Nat : n <= clock => n <= clock' /\ n # clock + 1 BY <1>1, <1>2
      <3>3. \A s \in Rows : rows[s].uid \in Nat /\ rows[s].id \in Nat BY <1>2, Numbers DEF RowFcns
      <3>. QED BY <3>1, <3>2, <3>3 DEF Inv, RowsInv, Names
    <2>4. clock + 1 \in 1..clock' /\ clock + 1 <= clock' /\ 0 <= clock' /\ clock + 1 # 0 BY <1>1, <1>2
    <2>5. \A s \in Rows : Kept(s) =>
            /\ rows[s].id # 0 => rows[s].uid # 0
            /\ rows[s].id # 0 /\ IsLive(rows[s].id) => cards[rows[s].id].uid = rows[s].uid
      BY DEF Inv, RowsInv
    <2>6. \A s, t \in Rows : Kept(s)' /\ Kept(t)' /\ rows'[s].uid = rows'[t].uid => s = t
      BY <1>4, <1>5, <2>2, <2>3 DEF Inv, RowsInv
    <2>. QED BY <1>1, <1>4, <1>5, <2>1, <2>2, <2>3, <2>4, <2>5, <2>6 DEF RowStep
  <1>7. op' = Idle BY <1>1, <1>4, PushIs DEF Keyed
  <1>8. CardsInv' /\ RowsInv' /\ Binding'
    <2>1. \A s \in Rows : Kept(s) => rows[s].val # clock + 1 BY <1>2 DEF Inv, RowsInv
    <2>2. \A s \in Rows : Kept(s)' /\ rows'[s].val = clock + 1 => s = r BY <1>5, <2>1 DEF Kept
    <2>3. op'.pc # "apply" BY <1>7 DEF Idle
    <2>. QED BY <1>1, <1>6, <2>2, <2>3, RowStepKeeps
  <1>9. OpInv' BY <1>7 DEF OpInv, Idle
  <1>10. TypeInv'
    <2>1. budget' \in 0..Events BY <1>1, <1>2, EventsAssumption DEF Inv, TypeInv
    <2>. QED BY <1>1, <1>2, <1>6, <2>1 DEF RowStep, RowFcns, Inv, TypeInv
  <1>11. ClockInv'
    <2>1. Request = 0 /\ Cardinality(Owing) \in Nat BY <1>1, OwingFinite DEF Request, Idle, Inv
    <2>2. op'.pc = "idle" /\ Request' = 0 BY <1>7 DEF Request, Idle
    <2>3. Owing' \subseteq Owing \cup {r}
      BY <1>1, <1>5, <2>2 DEF Owing, Unpushed, Stored, Idle
    <2>4. IsFiniteSet(Owing \cup {r}) /\ Cardinality(Owing \cup {r}) <= Cardinality(Owing) + 1
          /\ Owing \cup {r} \subseteq Rows /\ Cardinality(Owing \cup {r}) \in Nat
      BY <1>3, <2>1, OwingFinite, FS_AddElement DEF Inv
    <2>5. Cardinality(Owing') <= Cardinality(Owing \cup {r}) /\ Cardinality(Owing') \in Nat
      BY <2>3, <2>4, FS_Subset, FS_CardinalityType
    <2>. QED BY <1>1, <1>2, <2>1, <2>2, <2>4, <2>5, EventsAssumption DEF Inv, ClockInv
  <1>. QED BY <1>8, <1>9, <1>10, <1>11 DEF Inv

\* update_contact: contents of the same contact, new or saved again.
LEMMA UpdateStep ==
    ASSUME Keyed, Inv, Command, NEW r \in Stored(rows), Update(r)
    PROVE  Inv'
  <1>1. /\ budget > 0 /\ budget' = budget - 1 /\ provider' = provider /\ cards' = cards
        /\ op' = PushOf(r, rows[r]) /\ op = Idle
    BY DEF Command, Update
  <1>2. clock \in Nat /\ budget \in Nat /\ rows \in RowFcns
    BY EventsAssumption DEF Inv, TypeInv, RowFcns
  <1>3. r \in Rows /\ Kept(r) BY DEF Stored, Kept
  <1>4. rows[r].val \in 1..clock /\ rows[r].id \in Ids /\ rows[r].id <= clock BY <1>2, <1>3 DEF Inv, RowsInv, RowFcns
  <1>5. PICK v \in {rows[r].val, clock + 1} :
           rows' = [rows EXCEPT ![r].val = v] /\ clock' = IF v > clock THEN v ELSE clock
    BY DEF Update
  <1>6. /\ v \in 1..clock' /\ v \in Nat /\ clock' \in {clock, clock + 1} /\ clock' \in Nat /\ v # 0
        /\ v = rows[r].val \/ v = clock + 1
    BY <1>2, <1>4, <1>5
  <1>7. /\ rows' \in RowFcns
        /\ \A s \in Rows : /\ rows'[s].val = IF s = r THEN v ELSE rows[s].val
                           /\ rows'[s].uid = rows[s].uid /\ rows'[s].id = rows[s].id
    BY <1>2, <1>3, <1>5, <1>6 DEF RowFcns
  <1>8. \A s \in Rows : (Kept(s)' <=> Kept(s)) /\ (s # r => rows'[s] = rows[s])
    <2>1. \A s \in Rows : s # r => rows'[s] = rows[s] BY <1>2, <1>3, <1>5 DEF RowFcns
    <2>2. rows'[r].val = v BY <1>3, <1>7
    <2>3. rows'[r] # NoRow BY <1>6, <2>2 DEF NoRow
    <2>. QED BY <1>3, <2>1, <2>3 DEF Kept
  <1>9. \A s \in Rows : Kept(s) => Names(rows[s].val, rows[s].uid) BY DEF Names
  <1>10. RowStep
    <2>1. \A s \in Rows : Kept(s) => /\ rows'[s].val \in 1..clock' /\ rows'[s].uid <= clock' /\ rows'[s].id <= clock'
      <3>1. \A n : n \in 1..clock => n \in 1..clock' BY <1>2, <1>6
      <3>2. \A n \in Nat : n <= clock => n <= clock' BY <1>2, <1>6
      <3>3. \A s \in Rows : rows[s].uid \in Nat /\ rows[s].id \in Nat BY <1>2, Numbers DEF RowFcns
      <3>. QED BY <1>6, <1>7, <3>1, <3>2, <3>3 DEF Inv, RowsInv
    <2>2. \A s \in Rows : Kept(s) =>
            /\ rows'[s].id # 0 => rows'[s].uid # 0
            /\ rows'[s].id # 0 /\ IsLive(rows'[s].id) => cards[rows'[s].id].uid = rows'[s].uid
      BY <1>7 DEF Inv, RowsInv
    <2>3. \A s \in Rows : Kept(s) => Names(rows'[s].val, rows'[s].uid) \/ rows'[s].val = clock + 1
      BY <1>3, <1>6, <1>7, <1>9
    <2>4. \A s, t \in Rows : Kept(s)' /\ Kept(t)' /\ rows'[s].uid = rows'[t].uid => s = t
      BY <1>7, <1>8 DEF Inv, RowsInv
    <2>. QED BY <1>6, <1>7, <1>8, <2>1, <2>2, <2>3, <2>4 DEF RowStep
  <1>11. \/ op'.pc = "idle" /\ rows[r].id = 0
         \/ op'.pc = "push" /\ op'.row = r /\ op'.id = rows[r].id /\ op'.kind = "update" /\ rows[r].id # 0
    BY <1>1, PushIs DEF Idle, Push, Keyed
  <1>12. CardsInv' /\ RowsInv' /\ Binding'
    <2>1. \A s \in Rows : Kept(s) => rows[s].val # clock + 1 BY <1>2 DEF Inv, RowsInv
    <2>2. \A s \in Rows : Kept(s)' /\ rows'[s].val = clock + 1 => s = r BY <1>7, <1>8, <2>1
    <2>. QED BY <1>1, <1>10, <1>11, <2>2, RowStepKeeps
  <1>13. OpInv'
    <2>1. CASE op'.pc = "idle" BY <2>1 DEF OpInv
    <2>2. CASE op'.pc = "push"
      <3>1. op'.row \in Rows /\ op'.id \in Stamps /\ rows'[op'.row] # NoRow
        BY <1>3, <1>4, <1>8, <1>11, <2>2 DEF Kept, Ids
      <3>2. op'.id <= clock'
        <4>1. \A n \in Nat : n <= clock => n <= clock' BY <1>2, <1>6
        <4>2. rows[r].id \in Nat BY <1>4, Numbers
        <4>. QED BY <1>4, <1>11, <2>2, <4>1, <4>2
      <3>3. rows'[op'.row].id = op'.id BY <1>3, <1>7, <1>11, <2>2
      <3>. QED BY <1>1, <1>11, <2>2, <3>1, <3>2, <3>3 DEF OpInv, Kept
    <2>. QED BY <1>11, <2>1, <2>2
  <1>14. TypeInv'
    <2>1. budget' \in 0..Events BY <1>1, <1>2, EventsAssumption DEF Inv, TypeInv
    <2>. QED BY <1>1, <1>6, <1>7, <2>1 DEF RowFcns, Inv, TypeInv
  <1>15. ClockInv'
    <2>1. Request = 0 /\ Cardinality(Owing) \in Nat BY <1>1, OwingFinite DEF Request, Idle, Inv
    <2>2. Request' \in {0, 1} BY DEF Request
    <2>3. Owing' = Owing
      BY <1>1, <1>7, <1>8, <1>11 DEF Owing, Unpushed, Stored, Kept, Idle
    <2>4. clock' <= clock + 1 BY <1>2, <1>6
    <2>. QED BY <1>1, <1>2, <1>6, <2>1, <2>2, <2>3, <2>4, EventsAssumption DEF Inv, ClockInv
  <1>. QED BY <1>12, <1>13, <1>14, <1>15 DEF Inv

\* delete_contact: the row goes, and the card is asked to go if no row has it.
LEMMA DeleteStep ==
    ASSUME Keyed, Inv, Command, NEW r \in Stored(rows), Delete(r)
    PROVE  Inv'
  <1>1. /\ budget > 0 /\ budget' = budget - 1 /\ provider' = provider /\ cards' = cards
        /\ clock' = clock /\ op = Idle /\ rows' = [rows EXCEPT ![r] = NoRow]
        /\ op' = IF DeleteRemote(r) THEN Push("delete", r, rows[r].id) ELSE Idle
    BY DEF Command, Delete
  <1>2. clock \in Nat /\ budget \in Nat /\ rows \in RowFcns
    BY EventsAssumption DEF Inv, TypeInv, RowFcns
  <1>3. r \in Rows /\ Kept(r) BY DEF Stored, Kept
  <1>4. rows[r].id \in Ids /\ rows[r].id <= clock BY <1>2, <1>3 DEF Inv, RowsInv, RowFcns
  <1>5. NoRow \in [val : Nat, id : Ids, uid : Nat, etag : Nat] BY DEF NoRow, Ids
  <1>6. rows' \in RowFcns /\ \A s \in Rows : rows'[s] = IF s = r THEN NoRow ELSE rows[s]
    BY <1>1, <1>2, <1>3, <1>5 DEF RowFcns
  <1>7. \A s \in Rows : Kept(s)' => Kept(s) /\ rows'[s] = rows[s] BY <1>6 DEF Kept
  <1>8. RowStep
    <2>1. \A s \in Rows : Kept(s) => Names(rows[s].val, rows[s].uid) BY DEF Names
    <2>2. \A s \in Rows : Kept(s) =>
         /\ rows[s].val \in 1..clock /\ rows[s].uid <= clock /\ rows[s].id <= clock
         /\ rows[s].id # 0 => rows[s].uid # 0
         /\ rows[s].id # 0 /\ IsLive(rows[s].id) => cards[rows[s].id].uid = rows[s].uid
      BY DEF Inv, RowsInv
    <2>3. \A s, t \in Rows : Kept(s)' /\ Kept(t)' /\ rows'[s].uid = rows'[t].uid => s = t
      BY <1>7 DEF Inv, RowsInv
    <2>. QED BY <1>1, <1>6, <1>7, <2>1, <2>2, <2>3 DEF RowStep
  <1>9. \/ op'.pc = "idle"
        \/ op'.pc = "push" /\ op'.row = r /\ op'.id = rows[r].id /\ op'.kind = "delete" /\ rows[r].id # 0
    BY <1>1 DEF Idle, Push, DeleteRemote
  <1>10. CardsInv' /\ RowsInv' /\ Binding'
    <2>1. \A s \in Rows : Kept(s) => rows[s].val # clock + 1 BY <1>2 DEF Inv, RowsInv
    <2>2. \A s \in Rows : Kept(s)' => rows'[s].val # clock + 1 BY <1>7, <2>1
    <2>. QED BY <1>1, <1>8, <1>9, <2>2, RowStepKeeps
  <1>11. OpInv' BY <1>1, <1>3, <1>4, <1>9 DEF OpInv, Ids
  <1>12. TypeInv'
    <2>1. budget' \in 0..Events BY <1>1, <1>2, EventsAssumption DEF Inv, TypeInv
    <2>. QED BY <1>1, <1>2, <1>6, <2>1 DEF RowFcns, Inv, TypeInv
  <1>13. ClockInv'
    <2>1. Request = 0 /\ Cardinality(Owing) \in Nat BY <1>1, OwingFinite DEF Request, Idle, Inv
    <2>2. Request' \in {0, 1} BY DEF Request
    <2>3. Owing' \subseteq Owing BY <1>1, <1>7, <1>9 DEF Owing, Unpushed, Stored, Kept, Idle
    <2>4. Cardinality(Owing') <= Cardinality(Owing) /\ Cardinality(Owing') \in Nat
      BY <2>3, OwingFinite, FS_Subset, FS_CardinalityType DEF Inv
    <2>. QED BY <1>1, <1>2, <2>1, <2>2, <2>4, EventsAssumption DEF Inv, ClockInv
  <1>. QED BY <1>10, <1>11, <1>12, <1>13 DEF Inv

-----------------------------------------------------------------------------
(* The push and what follows it *)

\* What the server does with a pushed change: it touches no card but the
\* contact's own, and gives it contents the contact has.
LEMMA ServedStep ==
    ASSUME Keyed, Inv, op.pc = "push", Accepted, Served
    PROVE  /\ CardStep /\ Target \in Stamps /\ Target <= clock
           /\ \A i \in Stamps : IsLive(i)' => cards'[i].val # clock + 1
  <1>1. /\ op.kind \in {"update", "delete"} /\ op.row \in Rows /\ op.id \in Stamps /\ op.id <= clock
        /\ op.kind # "delete" => Kept(op.row)
        /\ op.kind = "update" => rows[op.row].id = op.id
    BY DEF Inv, OpInv
  <1>2. clock \in Nat /\ cards \in CardFcns /\ rows \in RowFcns BY DEF Inv, TypeInv, CardFcns, RowFcns
  <1>3. clock + 1 \in Stamps /\ clock + 1 <= 3 + 3 * Events
    <2>1. Request > 0 BY DEF Request
    <2>2. clock + 1 \in Stamps BY <2>1, StampLeft
    <2>. QED BY <2>2, EventsAssumption DEF Stamps
  <1>4. clock' = IF cards' = cards THEN clock ELSE clock + 1 BY DEF Served
  <1>5. /\ \A n : n \in 1..clock => n \in 1..clock' /\ n # clock + 1
        /\ \A n \in Nat : n <= clock => n <= clock'
    BY <1>2, <1>4
  <1>6. \A i \in Stamps : IsLive(i) => /\ i <= clock' /\ cards[i].uid \in 1..clock' /\ cards[i].val \in 1..clock'
                                       /\ Names(cards[i].val, cards[i].uid) /\ cards[i].val # clock + 1
    BY <1>5, Numbers DEF Inv, CardsInv, Names
  <1>7. CASE op.kind = "delete"
    <2>1. op.id \in Stamps /\ Target = op.id BY <1>1, <1>2, <1>7, ResolveIs DEF Target
    <2>2. cards' = Removed(Target) BY <1>7 DEF Served
    <2>3. /\ cards' \in CardFcns
          /\ \A j \in Stamps : /\ cards'[j].state = IF j = Target THEN "dead" ELSE cards[j].state
                               /\ cards'[j].uid = cards[j].uid /\ cards'[j].val = cards[j].val
      BY <1>2, <2>1, <2>2, RemovedFields
    <2>4. \A j \in Stamps : IsLive(j)' => IsLive(j) /\ cards'[j].uid = cards[j].uid /\ cards'[j].val = cards[j].val
      BY <2>3 DEF IsLive
    <2>5. \A i, j \in Stamps : IsLive(i)' /\ IsLive(j)' /\ cards'[i].uid = cards'[j].uid => i = j
      BY <2>4 DEF Inv, CardsInv
    <2>6. CardStep BY <1>4, <1>6, <2>3, <2>4, <2>5 DEF CardStep
    <2>. QED BY <1>1, <1>6, <1>7, <2>1, <2>4, <2>6
  <1>8. CASE op.kind # "delete"
    <2> DEFINE v == rows[op.row].val
               u == rows[op.row].uid
    <2>1. /\ v \in 1..clock /\ v \in Nat /\ u \in Nat /\ u <= clock /\ Names(v, u) /\ v # clock + 1 /\ v \in 1..clock'
          /\ rows[op.row].id # 0 => u # 0
          /\ rows[op.row].id # 0 /\ IsLive(rows[op.row].id) => cards[rows[op.row].id].uid = u
      <3>1. Kept(op.row) /\ op.row \in Rows BY <1>1, <1>8
      <3>2. Names(v, u) BY <3>1 DEF Names
      <3>3. v \in 1..clock /\ u <= clock BY <3>1 DEF Inv, RowsInv
      <3>4. v \in Nat /\ u \in Nat BY <1>2, <3>1 DEF RowFcns
      <3>. QED BY <1>5, <3>1, <3>2, <3>3, <3>4 DEF Inv, RowsInv
    <2>2. Target \in Stamps /\ Target <= clock /\ IsLive(Target) /\ cards[Target].uid = u
      <3>1. op.kind = "update" /\ op.id \in Stamps /\ op.id = rows[op.row].id BY <1>1, <1>8
      <3>2. Target = op.id BY <1>2, <3>1, ResolveIs DEF Target, Keyed
      <3>3. Readable(Resolve(op.id)) BY <3>1 DEF Accepted, Keyed
      <3>4. IsLive(op.id) BY <1>2, <3>1, <3>3, ResolveIs
      <3>5. op.id # 0 BY <3>1, Numbers
      <3>. QED BY <1>1, <2>1, <3>1, <3>2, <3>4, <3>5
    <2>3. Exists(Target) <=> IsLive(Target) BY <1>2, <2>2, ResolveIs
    <2> HIDE DEF v, u
    <2>4. /\ cards' \in CardFcns
          /\ \A j \in Stamps : IsLive(j)' =>
               \/ IsLive(j) /\ cards'[j].uid = cards[j].uid /\ cards'[j].val = cards[j].val
               \/ j = Target /\ cards'[j].uid = u /\ cards'[j].val = v
      <3>1. CASE IsLive(Target) /\ cards' = cards BY <1>2, <3>1 DEF IsLive
      <3>2. CASE IsLive(Target) /\ cards' = Written(Target, v)
        <4>1. /\ cards' \in CardFcns
              /\ \A j \in Stamps : /\ cards'[j].state = cards[j].state /\ cards'[j].uid = cards[j].uid
                                   /\ cards'[j].val = IF j = Target THEN v ELSE cards[j].val
          BY <1>2, <2>1, <2>2, <3>2, WrittenFields
        <4>. QED BY <2>2, <3>2, <4>1 DEF IsLive
      <3>. QED BY <1>8, <2>2, <2>3, <3>1, <3>2 DEF Served, v, u
    <2>5. u \in 1..clock' /\ Target <= clock' BY <1>6, <2>2
    <2>6. \A i \in Stamps : IsLive(i) /\ cards[i].uid = u => i = Target BY <2>2 DEF Inv, CardsInv
    <2>7. \A i, j \in Stamps : IsLive(i)' /\ IsLive(j)' /\ cards'[i].uid = cards'[j].uid => i = j
      BY <2>4, <2>6 DEF Inv, CardsInv
    <2>8. CardStep
      <3>1. \A i \in Stamps : IsLive(i)' =>
              /\ IsLive(i) /\ cards'[i].uid = cards[i].uid
              /\ cards'[i].uid \in 1..clock' /\ i <= clock' /\ cards'[i].val \in 1..clock'
              /\ Names(cards'[i].val, cards'[i].uid)
        BY <1>6, <2>1, <2>2, <2>4, <2>5
      <3>. QED BY <1>4, <2>4, <2>7, <3>1 DEF CardStep
    <2>9. \A i \in Stamps : IsLive(i)' => cards'[i].val # clock + 1 BY <1>6, <2>1, <2>4
    <2>. QED BY <2>2, <2>8, <2>9
  <1>. QED BY <1>7, <1>8

\* A command or sync ends without a change, or goes on to its compensation: the
\* request or the failure pays for the stamp.
LEMMA Settle ==
    ASSUME Keyed, Inv, cards' = cards, rows' = rows, clock' = clock, provider' = provider,
           op'.pc \in {"idle", "undo", "persist"},
           op'.pc = "undo" => op'.id \in Stamps,
           op'.pc = "persist" => /\ op.pc = "push" /\ op.kind = "delete" /\ op'.kind = "delete"
                                 /\ op'.row = op.row /\ op'.id = op.id,
           \/ budget' = budget /\ op.pc # "attach" /\ op'.pc # "undo"
           \/ budget > 0 /\ budget' = budget - 1
    PROVE  Inv'
  <1>1. TypeInv'
    <2>1. budget' \in 0..Events BY EventsAssumption DEF Inv, TypeInv
    <2>. QED BY <2>1 DEF Inv, TypeInv
  <1>2. CardsInv' /\ RowsInv' BY DEF Inv, CardsInv, RowsInv, IsLive, Kept
  <1>3. OpInv' BY DEF Inv, OpInv
  <1>4. Binding'
    <2>1. \A v, u : Names(v, u)' => Names(v, u) BY DEF Names, IsLive, Kept
    <2>. QED BY <2>1 DEF Inv, Binding
  <1>5. ClockInv'
    <2>1. clock \in Nat /\ budget \in Nat /\ Cardinality(Owing) \in Nat /\ Request \in {0, 1}
      BY EventsAssumption, OwingFinite DEF Inv, TypeInv, Request
    <2>2. Request' \in {0, 1} /\ (op'.pc # "undo" => Request' = 0) BY DEF Request
    <2>3. CASE op.pc # "attach"
      <3>1. Owing' = Owing BY <2>3 DEF Owing, Unpushed, Stored
      <3>. QED BY <2>1, <2>2, <3>1, EventsAssumption DEF Inv, ClockInv
    <2>4. CASE op.pc = "attach"
      <3>1. Owing' \subseteq Owing \cup {op.row} /\ op.row \in Rows
        BY <2>4 DEF Inv, OpInv, Owing, Unpushed, Stored
      <3>2. IsFiniteSet(Owing \cup {op.row}) /\ Cardinality(Owing \cup {op.row}) <= Cardinality(Owing) + 1
            /\ Cardinality(Owing \cup {op.row}) \in Nat
        BY <2>1, <3>1, OwingFinite, FS_AddElement DEF Inv
      <3>3. Cardinality(Owing') <= Cardinality(Owing \cup {op.row}) /\ Cardinality(Owing') \in Nat
        BY <3>1, <3>2, FS_Subset, FS_CardinalityType
      <3>. QED BY <2>1, <2>2, <2>4, <3>2, <3>3, EventsAssumption DEF Inv, ClockInv
    <2>. QED BY <2>3, <2>4
  <1>. QED BY <1>1, <1>2, <1>3, <1>4, <1>5 DEF Inv

\* The server's part of a push, whether its answer arrives or not.
LEMMA ServedKeeps ==
    ASSUME Keyed, Inv, op.pc = "push", Accepted, Served, rows' = rows, provider' = provider,
           \/ op' = [pc |-> "persist", kind |-> op.kind, row |-> op.row, id |-> Target]
           \/ op' = Idle,
           budget' = budget \/ (budget > 0 /\ budget' = budget - 1)
    PROVE  Inv'
  <1>1. /\ CardStep /\ Target \in Stamps /\ Target <= clock
        /\ \A i \in Stamps : IsLive(i)' => cards'[i].val # clock + 1
    BY ServedStep
  <1>2. clock \in Nat /\ clock' \in Nat /\ clock <= clock' /\ clock' <= clock + 1 /\ budget \in Nat
    BY <1>1, EventsAssumption DEF CardStep, Inv, TypeInv
  <1>3. \/ op'.pc = "persist" /\ op'.kind = op.kind /\ op'.row = op.row /\ op'.id = Target
        \/ op'.pc = "idle"
    BY DEF Idle
  <1>4. CardsInv' /\ RowsInv' BY <1>1, CardStepKeeps
  <1>5. Binding' BY <1>1, <1>3, CardStepBinds
  <1>6. OpInv'
    <2>1. CASE op'.pc = "idle" BY <2>1 DEF OpInv
    <2>2. CASE op'.pc = "persist"
      <3>1. op'.kind = op.kind /\ op'.row = op.row /\ op'.id = Target BY <1>3, <2>2
      <3>2. Target <= clock'
        <4>1. Target \in Nat BY <1>1, Numbers
        <4>. QED BY <1>1, <1>2, <4>1
      <3>3. /\ op.kind \in {"update", "delete"} /\ op.row \in Rows
            /\ op.kind # "delete" => Kept(op.row)
        BY DEF Inv, OpInv
      <3>. QED BY <1>1, <2>2, <3>1, <3>2, <3>3 DEF OpInv, Kept
    <2>. QED BY <1>3, <2>1, <2>2
  <1>7. TypeInv'
    <2>1. budget' \in 0..Events BY <1>2, EventsAssumption DEF Inv, TypeInv
    <2>. QED BY <1>1, <1>2, <2>1 DEF CardStep, CardFcns, Inv, TypeInv
  <1>8. ClockInv'
    <2>1. Cardinality(Owing) \in Nat BY OwingFinite DEF Inv
    <2>2. Owing' = Owing /\ Request = 1 /\ Request' = 0 BY <1>3 DEF Owing, Unpushed, Stored, Request
    <2>. QED BY <1>2, <2>1, <2>2, EventsAssumption DEF Inv, ClockInv
  <1>. QED BY <1>4, <1>5, <1>6, <1>7, <1>8 DEF Inv

\* The push is answered: done, or refused.
LEMMA PushStep ==
    ASSUME Keyed, Inv, PushAnswered
    PROVE  Inv'
  <1>1. op.pc = "push" /\ provider' = provider /\ rows' = rows /\ budget' = budget BY DEF PushAnswered
  <1>2. CASE /\ Accepted /\ Served
             /\ op' = [pc |-> "persist", kind |-> op.kind, row |-> op.row, id |-> Target]
    BY <1>1, <1>2, ServedKeeps
  <1>3. CASE op' = Idle /\ cards' = cards /\ clock' = clock
    <2>1. op'.pc = "idle" BY <1>3 DEF Idle
    <2>. QED BY <1>1, <1>3, <2>1, Settle
  <1>. QED BY <1>2, <1>3 DEF PushAnswered, Keyed

\* The compensating delete.
LEMMA UndoStep ==
    ASSUME Keyed, Inv, Undo
    PROVE  Inv'
  <1>1. op.pc = "undo" /\ provider' = provider /\ rows' = rows /\ budget' = budget /\ op'.pc = "idle"
    BY DEF Undo, Idle
  <1>2. clock \in Nat /\ cards \in CardFcns /\ op.id \in Stamps
    BY <1>1 DEF Inv, TypeInv, CardFcns, OpInv
  <1>3. Resolve(op.id) = op.id /\ (Exists(op.id) <=> IsLive(op.id)) BY <1>2, ResolveIs
  <1>4. CASE ~IsLive(op.id)
    <2>1. cards' = cards /\ clock' = clock BY <1>3, <1>4 DEF Undo
    <2>. QED BY <1>1, <2>1, Settle
  <1>5. CASE IsLive(op.id)
    <2>1. cards' = Removed(op.id) /\ clock' = clock + 1 BY <1>3, <1>5 DEF Undo
    <2>2. /\ cards' \in CardFcns
          /\ \A j \in Stamps : /\ cards'[j].state = IF j = op.id THEN "dead" ELSE cards[j].state
                               /\ cards'[j].uid = cards[j].uid /\ cards'[j].val = cards[j].val
      BY <1>2, <2>1, RemovedFields
    <2>3. \A j \in Stamps : IsLive(j)' => IsLive(j) /\ cards'[j].uid = cards[j].uid /\ cards'[j].val = cards[j].val
      BY <2>2 DEF IsLive
    <2>4. /\ \A n : n \in 1..clock => n \in 1..clock' /\ n # clock + 1
          /\ \A n \in Nat : n <= clock => n <= clock'
      BY <1>2, <2>1
    <2>5. \A i \in Stamps : IsLive(i) => /\ i <= clock' /\ cards[i].uid \in 1..clock' /\ cards[i].val \in 1..clock'
                                         /\ Names(cards[i].val, cards[i].uid) /\ cards[i].val # clock + 1
      BY <2>4, Numbers DEF Inv, CardsInv, Names
    <2>6. \A i, j \in Stamps : IsLive(i)' /\ IsLive(j)' /\ cards'[i].uid = cards'[j].uid => i = j
      BY <2>3 DEF Inv, CardsInv
    <2>7. CardStep BY <2>1, <2>2, <2>3, <2>5, <2>6 DEF CardStep
    <2>8. CardsInv' /\ RowsInv' BY <1>1, <2>7, CardStepKeeps
    <2>9. Binding' BY <1>1, <2>3, <2>5, <2>7, CardStepBinds
    <2>10. OpInv' BY <1>1 DEF OpInv
    <2>11. TypeInv' BY <1>1, <1>2, <2>1, <2>2 DEF CardFcns, Inv, TypeInv
    <2>12. ClockInv'
      <3>1. Cardinality(Owing) \in Nat /\ budget \in Nat BY OwingFinite, EventsAssumption DEF Inv, TypeInv
      <3>2. Owing' = Owing /\ Request = 1 /\ Request' = 0 BY <1>1 DEF Owing, Unpushed, Stored, Request
      <3>. QED BY <1>1, <1>2, <2>1, <3>1, <3>2, EventsAssumption DEF Inv, ClockInv
    <2>. QED BY <2>8, <2>9, <2>10, <2>11, <2>12 DEF Inv
  <1>. QED BY <1>4, <1>5

\* persist_pushed_metadata: a JMAP update returns nothing to store.
LEMMA PersistStep ==
    ASSUME Keyed, Inv, Persist
    PROVE  Inv'
  <1>1. /\ op.pc = "persist" /\ provider' = provider /\ cards' = cards /\ clock' = clock /\ budget' = budget
        /\ op'.pc = "idle"
    BY DEF Persist, Idle
  <1>2. clock \in Nat /\ budget \in Nat /\ rows \in RowFcns
    BY EventsAssumption DEF Inv, TypeInv, RowFcns
  <1>3. CASE op.kind = "delete"
    <2>1. rows' = rows BY <1>3 DEF Persist
    <2>. QED BY <1>1, <2>1, Settle
  <1>4. CASE op.kind # "delete"
    <2> DEFINE r == op.row
    <2>1. r \in Rows /\ Kept(r) /\ op.kind = "update" BY <1>1, <1>4 DEF Inv, OpInv
    <2>2. rows[r] \in [val : Nat, id : Ids, uid : Nat, etag : Nat] BY <1>2, <2>1 DEF RowFcns
    <2>3. Returned(rows[r]) = rows[r]
      <3> DEFINE row == rows[r]
      <3>1. Returned(row) = [row EXCEPT !.id = row.id, !.etag = row.etag] BY <2>1, <2>2 DEF Returned, Keyed
      <3>. QED BY <2>2, <3>1
    <2>4. rows' = [rows EXCEPT ![r] = Returned(rows[r])] BY <1>2, <1>4, <2>1 DEF Persist, RowFcns
    <2>5. rows' = rows BY <1>2, <2>1, <2>3, <2>4 DEF RowFcns
    <2>. QED BY <1>1, <2>5, Settle
  <1>. QED BY <1>3, <1>4

\* A sync lists the live cards.
LEMMA ListStep ==
    ASSUME Keyed, Inv, SnapshotList
    PROVE  Inv'
  <1> DEFINE seen == Listing(Live)
  <1>1. /\ provider' = provider /\ cards' = cards /\ clock' = clock /\ budget' = budget /\ rows' = rows
        /\ op = Idle /\ op'.pc = "apply" /\ op'.seen = seen
    BY DEF SnapshotList, Listed, Keyed
  <1>2. TypeInv' /\ CardsInv' /\ RowsInv' BY <1>1 DEF Inv, TypeInv, CardsInv, RowsInv, IsLive, Kept
  <1>3. /\ DOMAIN seen = Live
        /\ \A i \in Live : seen[i].val = cards[i].val /\ seen[i].uid = cards[i].uid
    BY DEF Listing
  <1> HIDE DEF seen
  <1>4. Live \subseteq Stamps /\ \A i \in Stamps : i \in Live <=> IsLive(i) BY DEF Live, IsLive
  <1>5. SeenInv(seen)
    <2>1. \A i \in Live :
         /\ seen[i].val \in 1..clock /\ seen[i].uid \in 1..clock /\ i <= clock
         /\ IsLive(i) => cards[i].uid = seen[i].uid
      BY <1>3, <1>4 DEF Inv, CardsInv
    <2>2. \A i \in Live, r \in Rows : Kept(r) /\ rows[r].id = i => rows[r].uid = seen[i].uid
      <3> SUFFICES ASSUME NEW i \in Live, NEW r \in Rows, Kept(r), rows[r].id = i PROVE rows[r].uid = seen[i].uid
        OBVIOUS
      <3>1. i # 0 /\ IsLive(i) BY <1>4, Numbers
      <3>. QED BY <1>3, <3>1 DEF Inv, RowsInv
    <2>3. \A i, j \in Live : seen[i].uid = seen[j].uid => i = j BY <1>3, <1>4 DEF Inv, CardsInv
    <2>4. \A i \in Stamps, r \in Rows : IsLive(i) /\ Kept(r) /\ cards[i].uid = rows[r].uid
            => \E j \in Live : seen[j].uid = cards[i].uid
      BY <1>3, <1>4
    <2>. QED BY <1>3, <1>4, <2>1, <2>2, <2>3, <2>4 DEF SeenInv
  <1>6. OpInv'
    <2>1. SeenInv(op.seen)' BY <1>1, <1>3, <1>5 DEF SeenInv, IsLive, Kept
    <2>. QED BY <1>1, <2>1 DEF OpInv
  <1>7. Binding'
    <2>1. \A v, u : Names(v, u)' => Names(v, u) BY <1>1, <1>3, <1>4 DEF Names, IsLive, Kept
    <2>. QED BY <2>1 DEF Inv, Binding
  <1>8. ClockInv'
    <2>1. Owing' = Owing /\ Request = 0 /\ Request' = 0 BY <1>1 DEF Owing, Request, Unpushed, Stored, Idle
    <2>. QED BY <1>1, <2>1 DEF Inv, ClockInv
  <1>. QED BY <1>2, <1>6, <1>7, <1>8 DEF Inv

-----------------------------------------------------------------------------
(* Deferred JMAP creates *)

\* The next row to be pushed.
LEMMA NextDeferred ==
    ASSUME Keyed, Inv, op.pc = "deferred"
    PROVE  /\ Min(op.todo) \in op.todo /\ Min(op.todo) \in Unpushed(rows) /\ Min(op.todo) \in Rows
           /\ Kept(Min(op.todo)) /\ rows[Min(op.todo)].id = 0 /\ provider = "jmap" /\ clock + 1 \in Stamps
           /\ Min(op.todo) \in Owing /\ op.todo \subseteq Unpushed(rows) /\ Uncarded(op.todo)
  <1>1. op.todo \subseteq Unpushed(rows) /\ op.todo # {} /\ provider = "jmap" /\ Uncarded(op.todo)
    BY DEF Inv, OpInv, Keyed
  <1>2. Unpushed(rows) \subseteq Rows BY DEF Unpushed, Stored
  <1>3. Min(op.todo) \in op.todo BY <1>1, <1>2, Numbers, MinIn
  <1>4. Min(op.todo) \in Owing BY <1>1, <1>3 DEF Owing
  <1>5. clock + 1 \in Stamps BY <1>4, StampLeft
  <1>. QED BY <1>1, <1>2, <1>3, <1>4, <1>5 DEF Unpushed, Stored, Kept

\* The row gets its UID, if it had none, and perhaps its card with that UID.
LEMMA UidGiven ==
    ASSUME Keyed, Inv, op.pc = "deferred", NEW r, r = Min(op.todo), rows' = WithUid(r), provider' = provider,
           clock' \in {clock, clock + 1}, rows[r].uid = 0 => clock' = clock + 1, op'.pc # "apply",
           \/ cards' = cards
           \/ clock' = clock + 1 /\ cards' = Added(clock + 1, rows[r].val, rows'[r].uid, "live")
    PROVE  /\ cards' \in CardFcns /\ rows' \in RowFcns /\ clock' \in Nat
           /\ CardsInv' /\ RowsInv' /\ Binding'
           /\ rows'[r].uid # 0 /\ Unpushed(rows') = Unpushed(rows)
           /\ \A s \in op.todo \ {r}, i \in Stamps : IsLive(i)' => cards'[i].uid # rows'[s].uid
           /\ cards' # cards => cards'[clock + 1].uid = rows'[r].uid
  <1>1. /\ r \in op.todo /\ r \in Rows /\ Kept(r) /\ rows[r].id = 0 /\ provider = "jmap" /\ clock + 1 \in Stamps
        /\ op.todo \subseteq Unpushed(rows) /\ Uncarded(op.todo)
    BY NextDeferred
  <1>2. clock \in Nat /\ rows \in RowFcns /\ cards \in CardFcns BY DEF Inv, TypeInv, RowFcns, CardFcns
  <1>3. clock' \in Nat /\ clock <= clock' /\ clock + 1 \in Nat BY <1>2
  <1>4. /\ \A n : n \in 1..clock => n \in 1..clock' /\ n # clock + 1 /\ n # 0
        /\ \A n \in Nat : n <= clock => n <= clock' /\ n # clock + 1
    BY <1>2, <1>3
  <1> DEFINE v == rows[r].val
             u == IF rows[r].uid = 0 THEN clock + 1 ELSE rows[r].uid
  <1>5. rows[r].uid \in Nat /\ rows[r].uid <= clock /\ v \in 1..clock /\ v \in Nat
    BY <1>1, <1>2 DEF Inv, RowsInv, RowFcns
  <1>6. u \in Nat /\ u # 0 /\ u <= clock' /\ u \in 1..clock'
    <2>1. CASE rows[r].uid = 0 BY <1>2, <1>3, <2>1
    <2>2. CASE rows[r].uid # 0 BY <1>2, <1>3, <1>5, <2>2
    <2>. QED BY <2>1, <2>2
  <1>7. rows' = [rows EXCEPT ![r].uid = u] BY <1>1, <1>2 DEF WithUid, RowFcns
  <1> HIDE DEF u
  <1>8. /\ rows' \in RowFcns
        /\ \A s \in Rows : /\ rows'[s].val = rows[s].val /\ rows'[s].id = rows[s].id
                           /\ rows'[s].uid = IF s = r THEN u ELSE rows[s].uid
                           /\ s # r => rows'[s] = rows[s]
    BY <1>1, <1>2, <1>6, <1>7 DEF RowFcns
  <1>9. \A s \in Rows : Kept(s)' <=> Kept(s)
    <2>1. rows'[r].val = v /\ v # 0 BY <1>1, <1>4, <1>5, <1>8
    <2>2. rows'[r] # NoRow BY <2>1 DEF NoRow
    <2>. QED BY <1>1, <1>8, <2>2 DEF Kept
  <1>10. rows'[r].uid = u BY <1>1, <1>8
  <1> HIDE DEF v
  <1>11. /\ cards' \in CardFcns
         /\ \A j \in Stamps : IsLive(j)' =>
              \/ IsLive(j) /\ cards'[j].uid = cards[j].uid /\ cards'[j].val = cards[j].val
              \/ j = clock + 1 /\ cards'[j].uid = u /\ cards'[j].val = v /\ clock' = clock + 1
         /\ cards' # cards => cards'[clock + 1].uid = u
    <2>1. CASE cards' = cards BY <1>2, <2>1 DEF IsLive
    <2>2. CASE clock' = clock + 1 /\ cards' = Added(clock + 1, v, u, "live")
      <3>1. /\ cards' \in CardFcns
            /\ \A j \in Stamps : /\ cards'[j].state = IF j = clock + 1 THEN "live" ELSE cards[j].state
                                 /\ cards'[j].uid = IF j = clock + 1 THEN u ELSE cards[j].uid
                                 /\ cards'[j].val = IF j = clock + 1 THEN v ELSE cards[j].val
        BY <1>1, <1>2, <1>5, <1>6, <2>2, AddedFields
      <3>. QED BY <1>1, <2>2, <3>1 DEF IsLive
    <2>. QED BY <1>10, <2>1, <2>2 DEF v
  <1>12. \A j \in Stamps : IsLive(j) => /\ cards[j].uid \in 1..clock /\ cards[j].val \in 1..clock /\ j <= clock /\ j \in Nat
                                        /\ cards[j].uid # u /\ Names(cards[j].val, cards[j].uid)
    <2> SUFFICES ASSUME NEW j \in Stamps, IsLive(j)
                 PROVE  /\ cards[j].uid \in 1..clock /\ cards[j].val \in 1..clock /\ j <= clock /\ j \in Nat
                        /\ cards[j].uid # u /\ Names(cards[j].val, cards[j].uid)
      OBVIOUS
    <2>1. cards[j].uid \in 1..clock /\ cards[j].val \in 1..clock /\ j <= clock BY DEF Inv, CardsInv
    <2>2. cards[j].uid # rows[r].uid BY <1>1 DEF Uncarded
    <2>3. cards[j].uid # u BY <1>4, <2>1, <2>2 DEF u
    <2>. QED BY <2>1, <2>3, Numbers DEF Names
  <1>13. CardsInv'
    <2>1. ASSUME NEW j \in Stamps, IsLive(j)'
          PROVE  cards'[j].val \in 1..clock' /\ cards'[j].uid \in 1..clock' /\ j <= clock'
      <3>1. CASE IsLive(j) /\ cards'[j].uid = cards[j].uid /\ cards'[j].val = cards[j].val BY <1>4, <1>12, <3>1
      <3>2. CASE j = clock + 1 /\ cards'[j].uid = u /\ cards'[j].val = v /\ clock' = clock + 1
        BY <1>2, <1>4, <1>5, <1>6, <3>2
      <3>. QED BY <1>11, <2>1, <3>1, <3>2
    <2>2. \A i, j \in Stamps : IsLive(i)' /\ IsLive(j)' /\ cards'[i].uid = cards'[j].uid => i = j
      BY <1>11, <1>12 DEF Inv, CardsInv
    <2>. QED BY <1>1, <2>1, <2>2 DEF CardsInv
  <1>14. RowsInv'
    <2>1. ASSUME NEW s \in Rows, Kept(s)
          PROVE  /\ rows'[s].val \in 1..clock' /\ rows'[s].uid <= clock' /\ rows'[s].id <= clock'
                 /\ rows'[s].id # 0 => rows'[s].uid # 0
      <3>1. rows[s].val \in 1..clock /\ rows[s].uid <= clock /\ rows[s].id <= clock /\ (rows[s].id # 0 => rows[s].uid # 0)
        BY <2>1 DEF Inv, RowsInv
      <3>2. rows[s].uid \in Nat /\ rows[s].id \in Nat BY <1>2, Numbers DEF RowFcns
      <3>. QED BY <1>4, <1>6, <1>8, <3>1, <3>2
    <2>2. ASSUME NEW s \in Rows, Kept(s), rows'[s].id # 0, cards'[rows'[s].id].state = "live"
          PROVE  cards'[rows'[s].id].uid = rows'[s].uid
      <3>1. rows'[s].id = rows[s].id /\ rows[s].id \in Stamps /\ s # r BY <1>1, <1>2, <1>8, <2>2 DEF RowFcns, Ids
      <3>2. rows[s].id <= clock /\ rows[s].id \in Nat BY <2>2, <3>1, Numbers DEF Inv, RowsInv
      <3>3. rows[s].id # clock + 1 BY <1>4, <3>2
      <3>4. IsLive(rows[s].id) /\ cards'[rows[s].id].uid = cards[rows[s].id].uid BY <1>11, <2>2, <3>1, <3>3 DEF IsLive
      <3>. QED BY <1>8, <2>2, <3>1, <3>4 DEF Inv, RowsInv
    <2>3. \A s \in Rows : Kept(s) /\ rows[s].uid = u => s = r
      <3> SUFFICES ASSUME NEW s \in Rows, Kept(s), rows[s].uid = u PROVE s = r OBVIOUS
      <3>1. rows[s].uid \in Nat /\ rows[s].uid <= clock BY <1>2 DEF RowFcns, Inv, RowsInv
      <3>2. u # clock + 1 BY <1>4, <3>1
      <3>3. u = rows[r].uid BY <3>2 DEF u
      <3>. QED BY <1>1, <3>3 DEF Inv, RowsInv
    <2>4. \A s, t \in Rows : Kept(s)' /\ Kept(t)' /\ rows'[s].uid = rows'[t].uid => s = t
      BY <1>8, <1>9, <2>3 DEF Inv, RowsInv
    <2>. QED BY <1>1, <1>9, <2>1, <2>2, <2>4 DEF RowsInv, IsLive
  <1>15. \A w \in Nat : Names(v, w) => w = rows[r].uid
    <2>1. Names(v, rows[r].uid) BY <1>1 DEF Names, v
    <2>. QED BY <1>5, <2>1 DEF Inv, Binding
  <1>16. ASSUME NEW x \in Nat, NEW w \in Nat, Names(x, w)'
         PROVE  IF x = v THEN w = u ELSE Names(x, w)
    <2>1. ASSUME NEW i \in Stamps, IsLive(i)', cards'[i].val = x, cards'[i].uid = w PROVE IF x = v THEN w = u ELSE Names(x, w)
      <3>1. CASE i = clock + 1 /\ w = u /\ x = v BY <3>1
      <3>2. CASE IsLive(i) /\ w = cards[i].uid /\ x = cards[i].val
        <4>1. Names(x, w) /\ w \in 1..clock /\ w # u BY <1>12, <3>2
        <4>2. x # v
          <5> SUFFICES ASSUME x = v PROVE FALSE OBVIOUS
          <5>1. w = rows[r].uid BY <1>15, <4>1
          <5>2. w # 0 BY <1>4, <4>1
          <5>. QED BY <4>1, <5>1, <5>2 DEF u
        <4>. QED BY <4>1, <4>2
      <3>. QED BY <1>11, <2>1, <3>1, <3>2
    <2>2. ASSUME NEW s \in Rows, Kept(s), rows'[s].val = x, rows'[s].uid = w PROVE IF x = v THEN w = u ELSE Names(x, w)
      <3>1. CASE s = r BY <1>8, <2>2, <3>1 DEF v
      <3>2. CASE s # r
        <4>1. rows[s].val = x /\ rows[s].uid = w BY <1>8, <2>2, <3>2
        <4>2. Names(x, w) BY <2>2, <4>1 DEF Names
        <4>3. x # v
          <5> SUFFICES ASSUME x = v PROVE FALSE OBVIOUS
          <5>1. rows[s].uid = rows[r].uid BY <1>15, <4>1, <4>2
          <5>. QED BY <1>1, <2>2, <3>2, <5>1 DEF Inv, RowsInv
        <4>. QED BY <4>2, <4>3
      <3>. QED BY <3>1, <3>2
    <2>. QED BY <1>9, <1>16, <2>1, <2>2 DEF Names
  <1>17. Binding' BY <1>16 DEF Inv, Binding
  <1>18. Unpushed(rows') = Unpushed(rows) BY <1>8, <1>9 DEF Unpushed, Stored, Kept
  <1>19. \A s \in op.todo \ {r}, i \in Stamps : IsLive(i)' => cards'[i].uid # rows'[s].uid
    <2>1. ASSUME NEW s \in op.todo \ {r}, NEW i \in Stamps, IsLive(i)' PROVE cards'[i].uid # rows'[s].uid
      <3>1. s \in Rows /\ Kept(s) /\ s # r BY <1>1, <2>1 DEF Unpushed, Stored, Kept
      <3>2. rows'[s].uid = rows[s].uid /\ rows'[s].uid # rows'[r].uid
        BY <1>1, <1>8, <1>9, <1>14, <3>1 DEF RowsInv
      <3>. QED BY <1>1, <1>10, <1>11, <2>1, <3>2 DEF Uncarded
    <2>. QED BY <2>1
  <1>. QED BY <1>3, <1>6, <1>8, <1>10, <1>11, <1>13, <1>14, <1>17, <1>18, <1>19

\* The next contact is given its UID and then its card.
LEMMA DeferredStep ==
    ASSUME Keyed, Inv, DeferredCreate
    PROVE  Inv'
  <1> DEFINE r == Min(op.todo)
  <1>1. /\ op.pc = "deferred" /\ provider' = provider /\ budget' = budget /\ clock' = clock + 1
        /\ rows' = WithUid(r) /\ cards' = Added(clock + 1, rows[r].val, rows'[r].uid, "live")
        /\ op'.pc = "attach" /\ op'.row = r /\ op'.id = clock + 1 /\ op'.todo = op.todo \ {r}
    BY DEF DeferredCreate
  <1>2. /\ r \in op.todo /\ r \in Unpushed(rows) /\ r \in Rows /\ Kept(r) /\ provider = "jmap" /\ clock + 1 \in Stamps
        /\ r \in Owing /\ op.todo \subseteq Unpushed(rows)
    BY <1>1, NextDeferred
  <1> HIDE DEF r
  <1>3. /\ cards' \in CardFcns /\ rows' \in RowFcns /\ clock' \in Nat
        /\ CardsInv' /\ RowsInv' /\ Binding'
        /\ rows'[r].uid # 0 /\ Unpushed(rows') = Unpushed(rows)
        /\ \A s \in op.todo \ {r}, i \in Stamps : IsLive(i)' => cards'[i].uid # rows'[s].uid
    BY <1>1, UidGiven DEF r
  <1>4. clock \in Nat /\ budget \in Nat /\ cards \in CardFcns
    BY EventsAssumption DEF Inv, TypeInv, CardFcns
  <1>5. OpInv'
    <2>1. op'.id <= clock' BY <1>1, <1>4
    <2>2. cards'[op'.id].uid = rows'[op'.row].uid
      BY <1>1, <1>2, <1>4 DEF Added, CardFcns
    <2>3. Uncarded(op.todo)' BY <1>1, <1>3 DEF Uncarded
    <2>4. op'.row \in Unpushed(rows') /\ op'.todo \subseteq Unpushed(rows') \ {op'.row} BY <1>1, <1>2, <1>3
    <2>. QED BY <1>1, <1>2, <1>3, <2>1, <2>2, <2>3, <2>4 DEF OpInv
  <1>6. TypeInv' BY <1>1, <1>3 DEF CardFcns, RowFcns, Inv, TypeInv
  <1>7. ClockInv'
    <2>1. Owing' = Owing \ {r} /\ Request = 0 /\ Request' = 0
      BY <1>1, <1>2, <1>3 DEF Owing, Request
    <2>2. IsFiniteSet(Owing) /\ Cardinality(Owing) \in Nat BY OwingFinite DEF Inv
    <2>3. Cardinality(Owing') = Cardinality(Owing) - 1 BY <1>2, <2>1, <2>2, FS_RemoveElement
    <2>. QED BY <1>1, <1>4, <2>1, <2>2, <2>3, EventsAssumption DEF Inv, ClockInv
  <1>. QED BY <1>3, <1>5, <1>6, <1>7 DEF Inv

\* The same, interrupted: by a failure before the card is created or by the loss
\* of the answer after.
LEMMA DeferredCut ==
    ASSUME Keyed, Inv, op.pc = "deferred", NEW r, r = Min(op.todo), rows' = WithUid(r), provider' = provider,
           clock' \in {clock, clock + 1}, rows[r].uid = 0 => clock' = clock + 1, op' = Idle,
           \/ cards' = cards
           \/ clock' = clock + 1 /\ cards' = Added(clock + 1, rows[r].val, rows'[r].uid, "live"),
           budget > 0, budget' = budget - 1
    PROVE  Inv'
  <1>1. op'.pc = "idle" BY DEF Idle
  <1>2. /\ cards' \in CardFcns /\ rows' \in RowFcns /\ clock' \in Nat
        /\ CardsInv' /\ RowsInv' /\ Binding' /\ Unpushed(rows') = Unpushed(rows)
    BY <1>1, UidGiven
  <1>3. clock \in Nat /\ budget \in Nat BY EventsAssumption DEF Inv, TypeInv
  <1>4. OpInv' BY <1>1 DEF OpInv
  <1>5. TypeInv'
    <2>1. budget' \in 0..Events BY <1>3, EventsAssumption DEF Inv, TypeInv
    <2>. QED BY <1>2, <2>1 DEF CardFcns, RowFcns, Inv, TypeInv
  <1>6. ClockInv'
    <2>1. Owing' = Owing /\ Request = 0 /\ Request' = 0 BY <1>1, <1>2 DEF Owing, Request
    <2>2. Cardinality(Owing) \in Nat /\ clock' <= clock + 1 BY <1>3, OwingFinite DEF Inv
    <2>. QED BY <1>2, <1>3, <2>1, <2>2, EventsAssumption DEF Inv, ClockInv
  <1>. QED BY <1>2, <1>4, <1>5, <1>6 DEF Inv

\* The id of the created card is stored.
LEMMA AttachStep ==
    ASSUME Keyed, Inv, Attach
    PROVE  Inv'
  <1> DEFINE r == op.row
  <1>1. /\ op.pc = "attach" /\ provider' = provider /\ cards' = cards /\ clock' = clock /\ budget' = budget
        /\ rows' = [rows EXCEPT ![r].id = op.id]
        /\ op' = IF op.todo = {} THEN Idle ELSE [pc |-> "deferred", todo |-> op.todo]
    BY DEF Attach
  <1>2. /\ provider = "jmap" /\ op.id \in Stamps /\ op.id <= clock /\ op.id # 0
        /\ r \in Unpushed(rows) /\ rows[r].uid # 0 /\ op.todo \subseteq Unpushed(rows) \ {r} /\ Uncarded(op.todo)
        /\ IsLive(op.id) => cards[op.id].uid = rows[r].uid
    BY <1>1, Numbers DEF Inv, OpInv, Keyed
  <1>3. clock \in Nat /\ rows \in RowFcns BY DEF Inv, TypeInv, RowFcns
  <1>4. r \in Rows /\ Kept(r) BY <1>2 DEF Unpushed, Stored, Kept
  <1> HIDE DEF r
  <1>5. /\ rows' \in RowFcns
        /\ \A s \in Rows : /\ rows'[s].val = rows[s].val /\ rows'[s].uid = rows[s].uid
                           /\ rows'[s].id = IF s = r THEN op.id ELSE rows[s].id
                           /\ s # r => rows'[s] = rows[s]
    BY <1>1, <1>2, <1>3, <1>4 DEF RowFcns, Ids
  <1>6. \A s \in Rows : Kept(s)' <=> Kept(s)
    <2>1. rows'[r].id = op.id BY <1>4, <1>5
    <2>2. rows'[r] # NoRow BY <1>2, <2>1 DEF NoRow
    <2>. QED BY <1>4, <1>5, <2>2 DEF Kept
  <1>7. RowStep
    <2>1. \A s \in Rows : Kept(s) => Names(rows[s].val, rows[s].uid) BY DEF Names
    <2>2. \A s \in Rows : Kept(s) =>
            /\ rows'[s].val \in 1..clock /\ rows'[s].uid <= clock /\ rows'[s].id <= clock
            /\ rows'[s].id # 0 => rows'[s].uid # 0
            /\ rows'[s].id # 0 /\ IsLive(rows'[s].id) => cards[rows'[s].id].uid = rows'[s].uid
      BY <1>2, <1>5 DEF Inv, RowsInv
    <2>3. \A s, t \in Rows : Kept(s)' /\ Kept(t)' /\ rows'[s].uid = rows'[t].uid => s = t
      BY <1>5, <1>6 DEF Inv, RowsInv
    <2>. QED BY <1>1, <1>2, <1>5, <1>6, <2>1, <2>2, <2>3 DEF RowStep
  <1>8. \A s \in Rows : Kept(s)' => rows'[s].val # clock + 1 BY <1>3, <1>5, <1>6 DEF Inv, RowsInv
  <1>9. op'.pc \in {"idle", "deferred"} /\ (op'.pc = "deferred" => op'.todo = op.todo /\ op.todo # {})
    BY <1>1 DEF Idle
  <1>10. CardsInv' /\ RowsInv' /\ Binding' BY <1>1, <1>7, <1>8, <1>9, RowStepKeeps
  <1>11. Unpushed(rows') = Unpushed(rows) \ {r}
    <2>1. \A s \in Rows : s \in Unpushed(rows') <=> s \in Unpushed(rows) /\ s # r
      BY <1>2, <1>5, <1>6 DEF Unpushed, Stored, Kept
    <2>2. Unpushed(rows) \subseteq Rows /\ Unpushed(rows') \subseteq Rows BY DEF Unpushed, Stored
    <2>. QED BY <2>1, <2>2
  <1>12. OpInv'
    <2>1. ASSUME op'.pc = "deferred" PROVE Uncarded(op.todo)'
      <3>1. \A s \in op.todo : s \in Rows BY <1>2 DEF Unpushed, Stored
      <3>. QED BY <1>1, <1>2, <1>5, <1>9, <2>1, <3>1 DEF Uncarded, IsLive
    <2>. QED BY <1>1, <1>2, <1>9, <1>11, <2>1 DEF OpInv
  <1>13. TypeInv' BY <1>1, <1>3, <1>5 DEF RowFcns, Inv, TypeInv
  <1>14. ClockInv'
    <2>1. Owing' = Owing /\ Request = 0 /\ Request' = 0
      BY <1>1, <1>2, <1>9, <1>11 DEF Owing, Request, r
    <2>. QED BY <1>1, <2>1 DEF Inv, ClockInv
  <1>. QED BY <1>10, <1>12, <1>13, <1>14 DEF Inv

\* A failure leaves what was committed, or goes on to the compensation.
LEMMA FailStep ==
    ASSUME Keyed, Inv, Fail
    PROVE  Inv'
  <1>1. /\ budget > 0 /\ budget' = budget - 1 /\ provider' = provider /\ cards' = cards
        /\ rows' = (IF op.pc = "deferred" THEN WithUid(Min(op.todo)) ELSE rows)
        /\ clock' = IF op.pc = "deferred" /\ rows' # rows THEN clock + 1 ELSE clock
    BY DEF Fail, Keyed
  <1>2. CASE op.pc = "deferred"
    <2>1. op' = Idle BY <1>2 DEF Fail
    <2>2. ASSUME rows[Min(op.todo)].uid = 0 PROVE clock' = clock + 1
      <3> DEFINE r == Min(op.todo)
      <3>1. r \in Rows /\ rows \in RowFcns /\ clock \in Nat BY <1>2, NextDeferred DEF Inv, TypeInv, RowFcns
      <3> HIDE DEF r
      <3>2. rows' = [rows EXCEPT ![r].uid = clock + 1] BY <1>1, <1>2, <2>2, <3>1 DEF WithUid, RowFcns, r
      <3>3. rows'[r].uid = clock + 1 BY <3>1, <3>2 DEF RowFcns
      <3>4. clock + 1 # 0 BY <3>1
      <3>5. rows' # rows BY <2>2, <3>3, <3>4 DEF r
      <3>. QED BY <1>1, <1>2, <3>5
    <2>. QED BY <1>1, <1>2, <2>1, <2>2, DeferredCut
  <1>3. CASE op.pc # "deferred"
    <2>1. op'.pc \in {"idle", "undo"} BY DEF Fail, Idle
    <2>2. op'.pc = "undo" => op'.id \in Stamps BY DEF Fail, Idle, Inv, OpInv
    <2>. QED BY <1>1, <1>3, <2>1, <2>2, Settle
  <1>. QED BY <1>2, <1>3

\* An answer is lost: the server has done its part, the program has not.
LEMMA LostStep ==
    ASSUME Keyed, Inv, AnswerLost
    PROVE  Inv'
  <1>1. budget > 0 /\ budget' = budget - 1 /\ provider' = provider /\ op' = Idle BY DEF AnswerLost
  <1>2. CASE op.pc = "push" /\ Accepted /\ Served /\ UNCHANGED rows BY <1>1, <1>2, ServedKeeps
  <1>3. CASE /\ op.pc = "deferred"
             /\ rows' = WithUid(Min(op.todo))
             /\ cards' = Added(clock + 1, rows[Min(op.todo)].val, rows'[Min(op.todo)].uid, "live")
             /\ clock' = clock + 1
    BY <1>1, <1>3, DeferredCut
  <1>. QED BY <1>2, <1>3 DEF AnswerLost

-----------------------------------------------------------------------------
(* The listing is applied *)

RowSet == [val : Nat, id : Ids, uid : Nat, etag : Nat]

\* A card's row is the row with its UID, also when it is found by the id.
LEMMA MatchIs ==
    ASSUME Keyed, Inv, op.pc = "apply", NEW i \in DOMAIN op.seen
    PROVE  Match(rows, i, op.seen[i]) = {r \in Rows : Kept(r) /\ rows[r].uid = op.seen[i].uid}
  <1> DEFINE c == op.seen[i]
             M == {r \in Rows : Kept(r) /\ rows[r].uid = c.uid}
  <1>1. SeenInv(op.seen) BY DEF Inv, OpInv
  <1>2. clock \in Nat BY DEF Inv, TypeInv
  <1>3. c.uid # 0 BY <1>1, <1>2 DEF SeenInv
  <1>4. Named(rows, c.uid) = M BY <1>3 DEF Named, Stored, Kept
  <1>5. \A r \in Holders(rows, i) : r \in M BY <1>1 DEF SeenInv, Holders, Stored, Kept
  <1>6. \A r, s \in M : r = s BY DEF Inv, RowsInv
  <1>7. Holders(rows, i) # {} => Holders(rows, i) = M BY <1>5, <1>6
  <1> HIDE DEF M, c
  <1>8. Match(rows, i, c) = M BY <1>4, <1>7 DEF Match, Keyed
  <1>. QED BY <1>8 DEF M, c

\* A patched row takes the card's contents and id, or stays.
LEMMA PatchedIs ==
    ASSUME provider \in {"jmap", "carddav"}, NEW row \in RowSet, NEW i \in Stamps, NEW c, c.val \in Nat, c.uid \in Nat, row.uid = c.uid
    PROVE  \/ Patched(row, i, c) = row
           \/ /\ Patched(row, i, c) \in RowSet /\ Patched(row, i, c).val = c.val
              /\ Patched(row, i, c).id = i /\ Patched(row, i, c).uid = c.uid
  <1> DEFINE one == [row EXCEPT !.val = c.val]
             two == [one EXCEPT !.id = i]
  <1>1. one \in RowSet /\ one.val = c.val /\ one.uid = c.uid BY DEF RowSet
  <1>2. two = [row EXCEPT !.val = c.val, !.id = i] BY DEF RowSet
  <1> HIDE DEF one
  <1>3. two \in RowSet /\ two.val = c.val /\ two.uid = c.uid /\ two.id = i
    BY <1>1 DEF RowSet, Ids
  <1> HIDE DEF two
  <1>4. CASE provider = "jmap"
    <2>1. Patched(row, i, c) = [two EXCEPT !.uid = c.uid] BY <1>2, <1>4 DEF Patched, RowSet
    <2>. QED BY <1>3, <2>1 DEF RowSet
  <1>5. CASE provider = "carddav"
    <2>1. \/ Patched(row, i, c) = row
          \/ Patched(row, i, c) = [two EXCEPT !.etag = c.val]
      BY <1>2, <1>5 DEF Patched, RowSet
    <2>. QED BY <1>3, <2>1 DEF RowSet
  <1>. QED BY <1>4, <1>5

\* A new row is the card's.
LEMMA NewRowIs ==
    ASSUME provider \in {"jmap", "carddav"}, NEW i \in Stamps, NEW c, c.val \in Nat, c.uid \in Nat
    PROVE  /\ NewRow(i, c) \in RowSet /\ NewRow(i, c).val = c.val /\ NewRow(i, c).id = i
           /\ NewRow(i, c).uid = c.uid
  <1> DEFINE one == [NoRow EXCEPT !.val = c.val]
             two == [one EXCEPT !.id = i]
             three == [two EXCEPT !.uid = c.uid]
             etag == IF provider = "carddav" THEN c.val ELSE 0
  <1>0. etag \in Nat OBVIOUS
  <1>1. one = [val |-> c.val, id |-> 0, uid |-> 0, etag |-> 0] BY DEF NoRow
  <1>5. NewRow(i, c) = [three EXCEPT !.etag = etag] BY DEF NewRow, NoRow
  <1> HIDE DEF one, etag
  <1>2. two = [val |-> c.val, id |-> i, uid |-> 0, etag |-> 0] BY <1>1
  <1> HIDE DEF two
  <1>3. three = [val |-> c.val, id |-> i, uid |-> c.uid, etag |-> 0] BY <1>2
  <1> HIDE DEF three
  <1>6. NewRow(i, c) = [val |-> c.val, id |-> i, uid |-> c.uid, etag |-> etag] BY <1>3, <1>5
  <1>. QED BY <1>0, <1>6 DEF RowSet, Ids

\* A new row is put into one slot; the other rows stay.
LEMMA InsertedIs ==
    ASSUME NEW rs, NEW new
    PROVE  \E slot : \A r \in Rows : \/ Inserted(rs, new)[r] = rs[r]
                                     \/ \E n \in new : slot[n] = r /\ Inserted(rs, new)[r] = n
  <1> DEFINE slots == Injection(new, Rows \ Stored(rs))
             slot == CHOOSE f \in slots : TRUE
  <1>1. Inserted(rs, new) = [r \in Rows |-> IF slots # {} /\ \E n \in new : slot[n] = r
                                            THEN CHOOSE n \in new : slot[n] = r ELSE rs[r]]
    BY DEF Inserted
  <1> HIDE DEF slots, slot
  <1>2. ASSUME NEW r \in Rows
        PROVE  \/ Inserted(rs, new)[r] = rs[r]
               \/ \E n \in new : slot[n] = r /\ Inserted(rs, new)[r] = n
    BY <1>1
  <1>. QED BY <1>2

\* What a listing, or a part of one, makes of a row, where cards are matched by
\* their UIDs: the row stays, a card meets it, or a card that meets none is put
\* into it.
LEMMA UpsertedIs ==
    ASSUME provider \in {"jmap", "carddav"}, rows \in [Rows -> RowSet], NEW seen, NEW mine, NEW first,
           first \subseteq DOMAIN seen,
           \A i \in DOMAIN seen :
             /\ i \in Stamps /\ seen[i].val \in Nat /\ seen[i].uid \in Nat
             /\ Match(rows, i, seen[i]) = {r \in Rows : Kept(r) /\ rows[r].uid = seen[i].uid}
    PROVE  \E slot : \A r \in Rows :
             \/ Upserted(rows, seen, mine, first)[r] = rows[r]
             \/ \E i \in DOMAIN seen :
                  /\ Kept(r) /\ rows[r].uid = seen[i].uid /\ Upserted(rows, seen, mine, first)[r] \in RowSet
                  /\ Upserted(rows, seen, mine, first)[r].val = seen[i].val
                  /\ Upserted(rows, seen, mine, first)[r].id = i
                  /\ Upserted(rows, seen, mine, first)[r].uid = seen[i].uid
             \/ \E i \in DOMAIN seen :
                  /\ i \notin first \/ \A s \in Rows : Kept(s) => rows[s].uid # seen[i].uid
                  /\ Upserted(rows, seen, mine, first)[r] = NewRow(i, seen[i]) /\ slot[NewRow(i, seen[i])] = r
  <1> DEFINE up == Upserted(rows, seen, mine, first)
             rowOf(r) == {i \in first : r \in mine \cap Match(rows, i, seen[i])}
             new == {i \in DOMAIN seen : i \notin first \/ Match(rows, i, seen[i]) = {}}
             patched == [r \in Rows |-> IF rowOf(r) = {} THEN rows[r]
                                        ELSE LET i == CHOOSE i \in rowOf(r) : TRUE
                                             IN Patched(rows[r], i, seen[i])]
             added == {NewRow(i, seen[i]) : i \in new}
             Met(x, r, i) == /\ Kept(r) /\ rows[r].uid = seen[i].uid /\ x \in RowSet
                             /\ x.val = seen[i].val /\ x.id = i /\ x.uid = seen[i].uid
             Unmet(i) == i \notin first \/ \A s \in Rows : Kept(s) => rows[s].uid # seen[i].uid
  <1>1. up = Inserted(patched, added) BY DEF Upserted
  <1>2. \A i \in DOMAIN seen : /\ Match(rows, i, seen[i]) = {r \in Rows : Kept(r) /\ rows[r].uid = seen[i].uid}
                               /\ i \in Stamps /\ seen[i].val \in Nat /\ seen[i].uid \in Nat
    OBVIOUS
  <1>3. ASSUME NEW r \in Rows
        PROVE  patched[r] = rows[r] \/ \E i \in DOMAIN seen : Met(patched[r], r, i)
    <2>1. CASE rowOf(r) = {} BY <2>1
    <2>2. CASE rowOf(r) # {}
      <3> DEFINE i == CHOOSE i \in rowOf(r) : TRUE
      <3>1. i \in rowOf(r) BY <2>2
      <3>2. patched[r] = Patched(rows[r], i, seen[i]) BY <2>2
      <3>3. i \in DOMAIN seen /\ r \in Match(rows, i, seen[i]) BY <3>1
      <3> HIDE DEF i, patched
      <3>4. Kept(r) /\ rows[r].uid = seen[i].uid BY <1>2, <3>3
      <3>5. rows[r] \in RowSet OBVIOUS
      <3>6. i \in Stamps /\ seen[i].val \in Nat /\ seen[i].uid \in Nat BY <1>2, <3>3
      <3>7. \/ patched[r] = rows[r]
            \/ /\ patched[r] \in RowSet /\ patched[r].val = seen[i].val
               /\ patched[r].id = i /\ patched[r].uid = seen[i].uid
        BY <3>2, <3>4, <3>5, <3>6, PatchedIs
      <3>. QED BY <3>3, <3>4, <3>7
    <2>. QED BY <2>1, <2>2
  <1>4. \A n \in added : \E i \in DOMAIN seen : n = NewRow(i, seen[i]) /\ Unmet(i) BY <1>2
  <1> HIDE DEF patched, added, Met, Unmet, up
  <1>5. PICK slot : \A r \in Rows : \/ up[r] = patched[r]
                                    \/ \E n \in added : slot[n] = r /\ up[r] = n
    BY <1>1, InsertedIs
  <1>6. ASSUME NEW r \in Rows
        PROVE  \/ up[r] = rows[r]
               \/ \E i \in DOMAIN seen : Met(up[r], r, i)
               \/ \E i \in DOMAIN seen : Unmet(i) /\ up[r] = NewRow(i, seen[i]) /\ slot[NewRow(i, seen[i])] = r
    <2>1. CASE up[r] = patched[r] BY <1>3, <2>1
    <2>2. ASSUME NEW n \in added, slot[n] = r, up[r] = n
          PROVE  \E i \in DOMAIN seen : Unmet(i) /\ up[r] = NewRow(i, seen[i]) /\ slot[NewRow(i, seen[i])] = r
      <3>1. PICK i \in DOMAIN seen : n = NewRow(i, seen[i]) /\ Unmet(i) BY <1>4
      <3>. QED BY <2>2, <3>1
    <2>. QED BY <1>5, <2>1, <2>2
  <1>. QED BY <1>6 DEF Met, Unmet, up

\* No listing empties a row.
LEMMA KeptAfter ==
    ASSUME provider \in {"jmap", "carddav"}, rows \in [Rows -> RowSet], NEW seen, NEW mine, NEW first,
           first \subseteq DOMAIN seen,
           \A i \in DOMAIN seen :
             /\ i \in Stamps /\ seen[i].val \in Nat /\ seen[i].val # 0 /\ seen[i].uid \in Nat
             /\ Match(rows, i, seen[i]) = {r \in Rows : Kept(r) /\ rows[r].uid = seen[i].uid},
           NEW r \in Rows, Kept(r)
    PROVE  Upserted(rows, seen, mine, first)[r] # NoRow
  <1> DEFINE up == Upserted(rows, seen, mine, first)
  <1>1. NoRow.val = 0 BY DEF NoRow
  <1>2. \A i \in DOMAIN seen : seen[i].val # 0 /\ NewRow(i, seen[i]).val = seen[i].val BY NewRowIs
  <1>3. \/ up[r] = rows[r]
        \/ \E i \in DOMAIN seen : up[r].val = seen[i].val
        \/ \E i \in DOMAIN seen : up[r] = NewRow(i, seen[i])
    BY UpsertedIs
  <1> HIDE DEF up
  <1>4. ASSUME NEW i \in DOMAIN seen, up[r].val = seen[i].val PROVE up[r] # NoRow BY <1>1, <1>2, <1>4
  <1>5. ASSUME NEW i \in DOMAIN seen, up[r] = NewRow(i, seen[i]) PROVE up[r] # NoRow BY <1>1, <1>2, <1>5
  <1>6. up[r] = rows[r] => up[r] # NoRow BY DEF Kept
  <1>. QED BY <1>3, <1>4, <1>5, <1>6 DEF up

\* The application, with its removals, leaves the rows in order.
LEMMA Applied ==
    ASSUME Keyed, Inv, op.pc = "apply", NEW mine, NEW gone,
           rows' = Without(Upserted(rows, op.seen, mine, DOMAIN op.seen), gone),
           clock' = clock, provider' = provider
    PROVE  /\ RowStep
           /\ \A r \in Rows : Kept(r)' => rows'[r].val # clock + 1
           /\ \A r \in Rows : Kept(r)' /\ rows'[r].id = 0 => Kept(r) /\ rows'[r] = rows[r]
  <1> DEFINE seen == op.seen
             up == Upserted(rows, seen, mine, DOMAIN seen)
  <1>2. rows' = [r \in Rows |-> IF r \in gone THEN NoRow ELSE up[r]] BY DEF Without
  <1>3. clock \in Nat /\ rows \in [Rows -> RowSet] /\ SeenInv(seen) BY DEF Inv, TypeInv, OpInv, RowSet
  <1>1. PICK slot : \A r \in Rows :
             \/ up[r] = rows[r]
             \/ \E i \in DOMAIN seen :
                  /\ Kept(r) /\ rows[r].uid = seen[i].uid /\ up[r] \in RowSet
                  /\ up[r].val = seen[i].val /\ up[r].id = i /\ up[r].uid = seen[i].uid
             \/ \E i \in DOMAIN seen :
                  /\ \A s \in Rows : Kept(s) => rows[s].uid # seen[i].uid
                  /\ up[r] = NewRow(i, seen[i]) /\ slot[NewRow(i, seen[i])] = r
    <2>1. \A i \in DOMAIN seen :
             /\ i \in Stamps /\ seen[i].val \in Nat /\ seen[i].uid \in Nat
             /\ Match(rows, i, seen[i]) = {r \in Rows : Kept(r) /\ rows[r].uid = seen[i].uid}
      BY <1>3, MatchIs DEF SeenInv
    <2>. QED BY <1>3, <2>1, UpsertedIs DEF Keyed
  <1> HIDE DEF up, seen
  <1>4. \A i \in DOMAIN seen :
          /\ i \in Stamps /\ i # 0 /\ i <= clock /\ seen[i].val \in 1..clock /\ seen[i].uid \in 1..clock
          /\ seen[i].val \in Nat /\ seen[i].uid \in Nat /\ seen[i].uid # 0
          /\ IsLive(i) => cards[i].uid = seen[i].uid
          /\ Names(seen[i].val, seen[i].uid)
    <2> SUFFICES ASSUME NEW i \in DOMAIN seen
                 PROVE  /\ i \in Stamps /\ i # 0 /\ i <= clock /\ seen[i].val \in 1..clock /\ seen[i].uid \in 1..clock
                        /\ seen[i].val \in Nat /\ seen[i].uid \in Nat /\ seen[i].uid # 0
                        /\ IsLive(i) => cards[i].uid = seen[i].uid
                        /\ Names(seen[i].val, seen[i].uid)
      OBVIOUS
    <2>1. i \in DOMAIN op.seen /\ seen[i] = op.seen[i] BY DEF seen
    <2>2. /\ i \in Stamps /\ i <= clock /\ seen[i].val \in 1..clock /\ seen[i].uid \in 1..clock
          /\ IsLive(i) => cards[i].uid = seen[i].uid
      BY <1>3, <2>1 DEF SeenInv
    <2>3. Names(seen[i].val, seen[i].uid) BY <2>1 DEF Names
    <2>. QED BY <1>3, <2>2, <2>3, Numbers
  <1>5. \A i \in DOMAIN seen : /\ NewRow(i, seen[i]) \in RowSet /\ NewRow(i, seen[i]).val = seen[i].val
                               /\ NewRow(i, seen[i]).id = i /\ NewRow(i, seen[i]).uid = seen[i].uid
    BY <1>4, NewRowIs DEF Keyed
  <1>6. \A i, j \in DOMAIN seen : seen[i].uid = seen[j].uid => i = j BY <1>3 DEF SeenInv
  \* The three ways a row can be there afterwards.
  <1>7. ASSUME NEW r \in Rows, Kept(r)'
        PROVE  \/ Kept(r) /\ rows'[r] = rows[r]
               \/ \E i \in DOMAIN seen :
                    /\ Kept(r) /\ rows[r].uid = seen[i].uid /\ rows'[r] \in RowSet
                    /\ rows'[r].val = seen[i].val /\ rows'[r].id = i /\ rows'[r].uid = seen[i].uid
               \/ \E i \in DOMAIN seen :
                    /\ \A s \in Rows : Kept(s) => rows[s].uid # seen[i].uid
                    /\ rows'[r] = NewRow(i, seen[i]) /\ slot[NewRow(i, seen[i])] = r
    <2>1. rows'[r] = up[r] BY <1>2, <1>7 DEF Kept
    <2>. QED BY <1>1, <1>7, <2>1 DEF Kept
  <1>8. \A r \in Rows : Kept(r)' =>
          \/ Kept(r) /\ rows'[r] = rows[r]
          \/ \E i \in DOMAIN seen : /\ rows'[r] \in RowSet
               /\ rows'[r].val = seen[i].val /\ rows'[r].id = i /\ rows'[r].uid = seen[i].uid
    BY <1>5, <1>7
  <1>9. rows' \in RowFcns
    <2>1. NoRow \in RowSet BY DEF NoRow, RowSet, Ids
    <2>2. \A r \in Rows : rows'[r] \in RowSet BY <1>3, <1>8, <2>1 DEF Kept
    <2>. QED BY <1>2, <2>2 DEF RowFcns, RowSet
  <1>10. \A s, t \in Rows : Kept(s)' /\ Kept(t)' /\ rows'[s].uid = rows'[t].uid => s = t
    <2> SUFFICES ASSUME NEW s \in Rows, NEW t \in Rows, Kept(s)', Kept(t)', rows'[s].uid = rows'[t].uid PROVE s = t
      OBVIOUS
    <2>1. ASSUME NEW r \in Rows, Kept(r)'
          PROVE  \/ Kept(r) /\ rows'[r].uid = rows[r].uid
                 \/ \E i \in DOMAIN seen :
                      /\ \A q \in Rows : Kept(q) => rows[q].uid # seen[i].uid
                      /\ rows'[r].uid = seen[i].uid /\ slot[NewRow(i, seen[i])] = r
      BY <1>5, <1>7, <2>1
    <2>2. CASE Kept(s) /\ rows'[s].uid = rows[s].uid /\ Kept(t) /\ rows'[t].uid = rows[t].uid
      BY <2>2 DEF Inv, RowsInv
    <2>. QED BY <1>6, <2>1, <2>2
  <1>11. RowStep
    <2>1. ASSUME NEW r \in Rows, Kept(r)'
          PROVE  /\ rows'[r].val \in 1..clock /\ rows'[r].uid <= clock /\ rows'[r].id <= clock
                 /\ rows'[r].id # 0 => rows'[r].uid # 0
                 /\ rows'[r].id # 0 /\ IsLive(rows'[r].id) => cards[rows'[r].id].uid = rows'[r].uid
                 /\ Names(rows'[r].val, rows'[r].uid)
      <3>1. CASE Kept(r) /\ rows'[r] = rows[r]
        <4>1. Names(rows[r].val, rows[r].uid) BY <3>1 DEF Names
        <4>. QED BY <3>1, <4>1 DEF Inv, RowsInv
      <3>2. ASSUME NEW i \in DOMAIN seen, rows'[r].val = seen[i].val, rows'[r].id = i, rows'[r].uid = seen[i].uid
            PROVE  /\ rows'[r].val \in 1..clock /\ rows'[r].uid <= clock /\ rows'[r].id <= clock
                   /\ rows'[r].id # 0 => rows'[r].uid # 0
                   /\ rows'[r].id # 0 /\ IsLive(rows'[r].id) => cards[rows'[r].id].uid = rows'[r].uid
                   /\ Names(rows'[r].val, rows'[r].uid)
        <4>1. seen[i].uid <= clock BY <1>3, <1>4
        <4>. QED BY <1>4, <3>2, <4>1
      <3>. QED BY <1>8, <2>1, <3>1, <3>2
    <2>. QED BY <1>9, <1>10, <2>1 DEF RowStep
  <1>12. \A r \in Rows : Kept(r)' => rows'[r].val # clock + 1
    <2>1. \A n \in 1..clock : n # clock + 1 BY <1>3
    <2>. QED BY <1>11, <2>1 DEF RowStep
  <1>13. \A r \in Rows : Kept(r)' /\ rows'[r].id = 0 => Kept(r) /\ rows'[r] = rows[r] BY <1>4, <1>8
  <1>. QED BY <1>11, <1>12, <1>13

\* The end of a sync: idle, or the deferred creates.
LEMMA AppliedKeeps ==
    ASSUME Keyed, Inv, op.pc = "apply", NEW mine, NEW gone,
           rows' = Without(Upserted(rows, op.seen, mine, DOMAIN op.seen), gone),
           clock' = clock, provider' = provider, cards' = cards,
           \/ op'.pc = "idle"
           \/ /\ op'.pc = "deferred" /\ op'.todo = Unpushed(rows') /\ op'.todo # {}
              /\ \A r \in Unpushed(rows'), i \in DOMAIN op.seen : rows'[r].uid # op.seen[i].uid,
           budget' = budget \/ (budget > 0 /\ budget' = budget - 1)
    PROVE  Inv'
  <1>1. /\ RowStep
        /\ \A r \in Rows : Kept(r)' => rows'[r].val # clock + 1
        /\ \A r \in Rows : Kept(r)' /\ rows'[r].id = 0 => Kept(r) /\ rows'[r] = rows[r]
    BY Applied
  <1>2. clock \in Nat /\ budget \in Nat /\ SeenInv(op.seen) BY EventsAssumption DEF Inv, TypeInv, OpInv
  <1>3. CardsInv' /\ RowsInv' /\ Binding' BY <1>1, RowStepKeeps
  <1>4. Unpushed(rows') \subseteq Rows /\ \A r \in Unpushed(rows') : Kept(r) /\ rows'[r] = rows[r] /\ rows[r].id = 0
    BY <1>1 DEF Unpushed, Stored, Kept
  <1>5. OpInv'
    <2>1. CASE op'.pc = "idle" BY <2>1 DEF OpInv
    <2>2. CASE op'.pc = "deferred"
      <3>1. Uncarded(op.todo)'
        <4> SUFFICES ASSUME NEW r \in Unpushed(rows'), NEW i \in Stamps, IsLive(i), cards[i].uid = rows'[r].uid PROVE FALSE
          BY <2>2 DEF Uncarded, IsLive
        <4>1. r \in Rows /\ Kept(r) /\ rows'[r] = rows[r] BY <1>4
        <4>2. PICK j \in DOMAIN op.seen : op.seen[j].uid = cards[i].uid BY <1>2, <4>1 DEF SeenInv
        <4>. QED BY <2>2, <4>2
      <3>. QED BY <2>2, <3>1 DEF OpInv
    <2>. QED BY <2>1, <2>2
  <1>6. TypeInv'
    <2>1. budget' \in 0..Events BY <1>2, EventsAssumption DEF Inv, TypeInv
    <2>. QED BY <1>1, <1>2, <2>1 DEF RowStep, RowFcns, Inv, TypeInv
  <1>7. ClockInv'
    <2>1. Owing' \subseteq Owing BY <1>4 DEF Owing, Unpushed, Stored, Kept
    <2>2. Request = 0 /\ Request' = 0 BY DEF Request
    <2>3. Cardinality(Owing') <= Cardinality(Owing) /\ Cardinality(Owing') \in Nat /\ Cardinality(Owing) \in Nat
      BY <2>1, OwingFinite, FS_Subset, FS_CardinalityType DEF Inv
    <2>. QED BY <1>2, <2>2, <2>3, EventsAssumption DEF Inv, ClockInv
  <1>. QED BY <1>3, <1>5, <1>6, <1>7 DEF Inv

\* The listing is applied, or refused as ambiguous.
LEMMA ApplyStep ==
    ASSUME Keyed, Inv, SnapshotApply
    PROVE  Inv'
  <1>1. /\ op.pc = "apply" /\ provider' = provider /\ cards' = cards /\ clock' = clock /\ budget' = budget
        /\ provider # "graph" /\ provider # "carddav"
    BY DEF SnapshotApply, Keyed
  <1> DEFINE mine == Stored(rows)
             after == Reconciled(rows, op.seen, mine, DOMAIN op.seen)
  <1>5. RowPicks(rows) = {mine} /\ CardPicks(op.seen) = {DOMAIN op.seen}
    BY <1>1 DEF RowPicks, CardPicks, Picks
  <1>2. IF Ambiguous(rows, after, op.seen)
        THEN op' = Idle /\ rows' = rows
        ELSE /\ rows' = after
             /\ op' = IF provider = "jmap" /\ Unpushed(after) # {}
                      THEN [pc |-> "deferred", todo |-> Unpushed(after)] ELSE Idle
    BY <1>1, <1>5 DEF SnapshotApply
  <1>3. CASE Ambiguous(rows, after, op.seen)
    <2>1. op'.pc = "idle" /\ rows' = rows BY <1>2, <1>3 DEF Idle
    <2>. QED BY <1>1, <2>1, Settle
  <1>4. CASE ~Ambiguous(rows, after, op.seen)
    <2>1. rows' = Without(Upserted(rows, op.seen, mine, DOMAIN op.seen), Orphans(rows, op.seen, mine))
      BY <1>2, <1>4 DEF Reconciled
    <2>2. rows' = after BY <1>2, <1>4
    <2> HIDE DEF after, mine
    <2>3. \A r \in Unpushed(rows'), i \in DOMAIN op.seen : rows'[r].uid # op.seen[i].uid
      BY <1>4, <2>2 DEF Ambiguous, Keyed
    <2>4. \/ op'.pc = "idle"
          \/ /\ op'.pc = "deferred" /\ op'.todo = Unpushed(rows') /\ op'.todo # {}
             /\ \A r \in Unpushed(rows'), i \in DOMAIN op.seen : rows'[r].uid # op.seen[i].uid
      BY <1>2, <1>4, <2>2, <2>3 DEF Idle
    <2>. QED BY <1>1, <2>1, <2>4, AppliedKeeps
  <1>. QED BY <1>3, <1>4

-----------------------------------------------------------------------------
(* The invariant *)

\* An earlier version's book, or an empty one, is in order.
LEMMA InitKeyed == Init => KeyedInv
  <1> SUFFICES ASSUME Init, Keyed PROVE Inv BY DEF KeyedInv, Inv
  <1>1. clock = 2 /\ budget \in 0..Events /\ op.pc = "idle" BY DEF Init, Idle
  <1>2. 1 \in Stamps /\ 1 \in Rows BY EventsAssumption DEF Stamps, Rows
  <1>3. /\ cards \in CardFcns
        /\ \A i \in Stamps : IsLive(i) <=> i = 1
        /\ cards[1].val = 1 /\ cards[1].uid = 1
    <2> DEFINE card == [state |-> "live", val |-> 1, uid |-> 1, rev |-> 1, prev |-> {}]
    <2>1. cards = [i \in Stamps |-> IF i = 1 THEN card ELSE NoCard] BY DEF Init, Keyed
    <2>2. card.state = "live" /\ card.val = 1 /\ card.uid = 1 /\ NoCard.state = "none" BY DEF NoCard
    <2>3. /\ card \in [state : {"none", "live", "dead"}, val : Nat, uid : Nat, rev : Nat, prev : {{}}]
          /\ NoCard \in [state : {"none", "live", "dead"}, val : Nat, uid : Nat, rev : Nat, prev : {{}}]
      BY DEF NoCard
    <2> HIDE DEF card
    <2>. QED BY <1>2, <2>1, <2>2, <2>3 DEF CardFcns, IsLive
  <1>4. PICK row \in {NoRow, [val |-> 2, id |-> 0, uid |-> 0, etag |-> 0]} :
          rows = [r \in Rows |-> IF r = 1 THEN row ELSE NoRow]
    <2>1. PICK old \in {<<>>, Legacy(provider, cards[1].uid)} :
            rows = [r \in Rows |-> IF r \in DOMAIN old THEN old[r] ELSE NoRow]
      BY DEF Init
    <2>2. CASE old = <<>>
      <3>1. DOMAIN old = {} BY <2>2
      <3>2. rows = [r \in Rows |-> IF r = 1 THEN NoRow ELSE NoRow] BY <2>1, <3>1
      <3>. QED BY <3>2
    <2>3. CASE old = Legacy(provider, cards[1].uid)
      <3>1. old = <<[val |-> 2, id |-> 0, uid |-> 0, etag |-> 0]>> BY <2>3 DEF Legacy, Keyed
      <3>2. DOMAIN old = {1} /\ old[1] = [val |-> 2, id |-> 0, uid |-> 0, etag |-> 0] BY <3>1
      <3>3. rows = [r \in Rows |-> IF r = 1 THEN [val |-> 2, id |-> 0, uid |-> 0, etag |-> 0] ELSE NoRow]
        BY <2>1, <3>2
      <3>. QED BY <3>3
    <2>. QED BY <2>1, <2>2, <2>3
  <1>5. rows \in RowFcns
    <2>1. row \in [val : Nat, id : Ids, uid : Nat, etag : Nat] BY <1>2, <1>4 DEF NoRow, Ids
    <2>2. NoRow \in [val : Nat, id : Ids, uid : Nat, etag : Nat] BY DEF NoRow, Ids
    <2>. QED BY <1>4, <2>1, <2>2 DEF RowFcns
  <1>6. \A r \in Rows : Kept(r) => r = 1 /\ rows[r] = row BY <1>4 DEF Kept
  <1>7. TypeInv BY <1>1, <1>3, <1>5, EventsAssumption DEF TypeInv, CardFcns, RowFcns
  <1>8. CardsInv BY <1>1, <1>3 DEF CardsInv
  <1>9. RowsInv
    <2>1. ASSUME NEW r \in Rows, Kept(r)
          PROVE  /\ rows[r].val \in 1..clock /\ rows[r].uid <= clock /\ rows[r].id <= clock
                 /\ rows[r].id # 0 => rows[r].uid # 0
                 /\ rows[r].id # 0 /\ IsLive(rows[r].id) => cards[rows[r].id].uid = rows[r].uid
      <3>1. rows[r] = [val |-> 2, id |-> 0, uid |-> 0, etag |-> 0] BY <1>4, <1>6, <2>1 DEF Kept
      <3>. QED BY <1>1, <3>1
    <2>. QED BY <1>6, <2>1 DEF RowsInv
  <1>10. OpInv BY <1>1 DEF OpInv
  <1>11. Binding
    <2>1. \A v, u : Names(v, u) => (v = 1 /\ u = 1) \/ (v = 2 /\ u = 0)
      <3> SUFFICES ASSUME NEW v, NEW u, Names(v, u) PROVE (v = 1 /\ u = 1) \/ (v = 2 /\ u = 0) OBVIOUS
      <3>1. ASSUME NEW r \in Rows, Kept(r), rows[r].val = v, rows[r].uid = u PROVE (v = 1 /\ u = 1) \/ (v = 2 /\ u = 0)
        <4>1. row # NoRow /\ v = row.val /\ u = row.uid BY <1>6, <3>1 DEF Kept
        <4>. QED BY <1>4, <4>1
      <3>. QED BY <1>1, <1>3, <3>1 DEF Names
    <2>. QED BY <2>1 DEF Binding
  <1>12. ClockInv
    <2>1. Owing \subseteq {1} BY <1>6 DEF Owing, Unpushed, Stored, Kept
    <2>2. Cardinality({1}) = 1 /\ IsFiniteSet({1}) BY FS_Singleton
    <2>3. Cardinality(Owing) <= 1 /\ Cardinality(Owing) \in Nat BY <2>1, <2>2, FS_Subset, FS_CardinalityType
    <2>4. Request = 0 BY <1>1 DEF Request
    <2>. QED BY <1>1, <2>3, <2>4, EventsAssumption DEF ClockInv
  <1>. QED BY <1>7, <1>8, <1>9, <1>10, <1>11, <1>12 DEF Inv

\* Every step of the book preserves it, whoever takes it and whatever fails.
THEOREM ContactsInductive == KeyedInv /\ [Next]_vars => KeyedInv'
  <1> SUFFICES ASSUME KeyedInv, [Next]_vars, Keyed' PROVE Inv' BY DEF KeyedInv, Inv
  <1>1. provider' = provider
    BY DEF Next, vars, OtherChange, Tick, Command, Continue, PushAnswered, Persist, Undo, SnapshotApply,
           DeferredCreate, Attach, GoogleMerge, Sync, SnapshotList, GoogleList, GraphPage,
           ListShort, CardDavCut, Fail, AnswerLost
  <1>2. Keyed /\ Inv BY <1>1 DEF Keyed, KeyedInv, Inv
  <1>3. CASE UNCHANGED vars BY <1>2, <1>3, SameState DEF vars
  <1>4. CASE OtherChange BY <1>2, <1>4, OtherStep
  <1>5. CASE Tick BY <1>2, <1>5, TickStep
  <1>6. CASE Command
    <2>1. CASE Create BY <1>2, <1>6, <2>1, CreateStep
    <2>2. ASSUME NEW r \in Stored(rows), Update(r) \/ Delete(r) PROVE Inv'
      BY <1>2, <1>6, <2>2, UpdateStep, DeleteStep
    <2>. QED BY <1>6, <2>1, <2>2 DEF Command
  <1>7. CASE Continue
    <2>1. ~GoogleMerge /\ ~GraphPage BY <1>2 DEF GoogleMerge, GraphPage, Inv, OpInv
    <2>. QED BY <1>2, <1>7, <2>1, PushStep, PersistStep, UndoStep, ApplyStep, DeferredStep, AttachStep DEF Continue
  <1>8. CASE Sync
    <2>1. ~GoogleList BY <1>2 DEF GoogleList, Keyed
    <2>. QED BY <1>2, <1>8, <2>1, ListStep DEF Sync
  <1>9. ~CardDavCut /\ ~ListShort BY <1>2 DEF CardDavCut, ListShort, Keyed
  <1>10. CASE Fail BY <1>2, <1>10, FailStep
  <1>11. CASE AnswerLost BY <1>2, <1>11, LostStep
  <1>. QED BY <1>3, <1>4, <1>5, <1>6, <1>7, <1>8, <1>9, <1>10, <1>11 DEF Next

-----------------------------------------------------------------------------
(* The second part is about the providers that know a contact by its card's  *)
(* id only (Google and Graph), where ids change, new cards are not readable  *)
(* at once and earlier versions left duplicate ids.  What is proved is that  *)
(* a sync removes no row of a living contact.                                *)

ById == provider \in {"google", "graph"}

States == {"none", "live", "hidden", "dead", "moved"}
IdCards == [Stamps -> [state : States, val : Nat, uid : Nat, rev : Nat, prev : SUBSET Stamps]]

GoogleType == [token : Nat, absent : [Stamps -> 0..2], recoveries : Int]

IdType ==
    /\ clock \in Nat /\ budget \in 0..Events /\ cards \in IdCards /\ rows \in RowFcns
    /\ google \in GoogleType

\* A former name belongs to one card, which took it over while it was live; ids
\* come from the clock.
Aliases ==
    /\ \A i \in Stamps : cards[i].state # "none" => i <= clock
    /\ \A i, n \in Stamps : n \in cards[i].prev => cards[n].state = "moved" /\ cards[i].state \in {"live", "dead"}
    /\ \A i, j, n \in Stamps : n \in cards[i].prev /\ n \in cards[j].prev => i = j
    /\ \A n \in Stamps : cards[n].state = "moved" => \E j \in Stamps : n \in cards[j].prev
    /\ provider = "graph" => \A i \in Stamps : cards[i].state \notin {"hidden", "moved"}

\* Contents are given stamps, never empty, so that a row that lost its id is
\* still a row.
Filled ==
    /\ \A i \in Stamps : cards[i].state \in {"live", "hidden"} => cards[i].val \in 1..clock
    /\ \A r \in Rows : rows[r].id <= clock /\ (Kept(r) => rows[r].val \in 1..clock)

\* An absence that counts is of a contact that had its time to appear.
Absent == \A i \in Stamps : /\ google.absent[i] # 0 => i <= clock
                            /\ google.absent[i] = 2 => cards[i].state # "hidden"

\* A deleted contact, under its last or an earlier name.
GoneName(n) == cards[n].state = "dead" \/ \E j \in Stamps : cards[j].state = "dead" /\ n \in cards[j].prev

IdOp ==
    /\ op.pc \in {"idle", "push", "persist", "undo", "page", "apply", "lookup"}
    /\ op.pc \in {"push", "persist"} =>
         /\ op.kind \in {"create", "update", "delete"} /\ op.row \in Rows
         /\ op.id \in Ids /\ op.id <= clock
         /\ op.kind # "delete" => Kept(op.row)
         /\ op.kind # "create" \/ op.pc = "persist" => op.id # 0
    /\ op.pc = "undo" => op.id \in Stamps
    /\ op.pc = "page" =>
         /\ provider = "graph" /\ DOMAIN op.seen \subseteq Stamps /\ op.at \in Nat /\ op.at <= clock
         /\ \A i \in DOMAIN op.seen : i <= clock /\ op.seen[i].val \in 1..clock
         /\ (\E i \in Stamps : Since(i)) \/ DOMAIN op.seen \subseteq Live
    /\ op.pc = "apply" =>
         /\ provider = "graph" /\ DOMAIN op.seen \subseteq Stamps
         /\ \A i \in DOMAIN op.seen : i <= clock /\ op.seen[i].val \in 1..clock
         /\ \/ op.torn
            \/ \A r \in Rows : rows[r].id # 0 /\ IsLive(rows[r].id) => rows[r].id \in DOMAIN op.seen
    /\ op.pc = "lookup" =>
         /\ provider = "google" /\ op.goal \in Nat
         /\ DOMAIN op.listed \subseteq Stamps /\ \A i \in DOMAIN op.listed : i <= clock
         /\ op.deleted \subseteq Stamps /\ \A n \in op.deleted : GoneName(n)

\* Every card to be created or to become readable has its stamps.
Hidden == {i \in Stamps : cards[i].state = "hidden"}
Asked == IF op.pc = "push" THEN 2 ELSE IF op.pc = "undo" THEN 1 ELSE 0
IdClock == clock + 3 * budget + Asked + Cardinality(Hidden) <= 3 + 3 * Events

IdInv == IdType /\ Aliases /\ Filled /\ Absent /\ IdOp /\ IdClock

\* A name stands for a card that took no other name.
LEMMA IdResolve ==
    ASSUME IdType, Aliases, NEW i \in Stamps
    PROVE  /\ Resolve(i) \in Stamps /\ cards[Resolve(i)].state # "moved"
           /\ cards[i].state = "moved" => i \in cards[Resolve(i)].prev
           /\ cards[i].state # "moved" => Resolve(i) = i
           /\ Exists(Resolve(i)) <=> cards[Resolve(i)].state \in {"live", "hidden"}
           /\ Readable(Resolve(i)) <=> cards[Resolve(i)].state = "live"
  <1>1. CASE cards[i].state # "moved"
    <2>1. Resolve(i) = i BY <1>1 DEF Resolve
    <2>. QED BY <1>1, <2>1, Numbers DEF Exists, Readable
  <1>2. CASE cards[i].state = "moved"
    <2>1. Resolve(i) = CHOOSE j \in Stamps : i \in cards[j].prev BY <1>2 DEF Resolve
    <2>2. \E j \in Stamps : i \in cards[j].prev BY <1>2 DEF Aliases
    <2>3. Resolve(i) \in Stamps /\ i \in cards[Resolve(i)].prev BY <2>1, <2>2
    <2>4. cards[Resolve(i)].state \in {"live", "dead"} BY <2>3 DEF Aliases
    <2>. QED BY <1>2, <2>3, <2>4, Numbers DEF Exists, Readable
  <1>. QED BY <1>1, <1>2

\* An edit changes contents only.
LEMMA IdWritten ==
    ASSUME cards \in IdCards, clock \in Nat, NEW i \in Stamps, NEW v \in Nat
    PROVE  /\ Written(i, v) \in IdCards
           /\ \A j \in Stamps : /\ Written(i, v)[j].state = cards[j].state /\ Written(i, v)[j].prev = cards[j].prev
                                /\ Written(i, v)[j].val = IF j = i THEN v ELSE cards[j].val
           /\ Written(i, v)[i].rev = clock + 1
  <1> DEFINE one == [cards EXCEPT ![i].val = v]
  <1>1. one \in IdCards BY DEF IdCards
  <1>2. \A j \in Stamps : /\ one[j].state = cards[j].state /\ one[j].prev = cards[j].prev
                          /\ one[j].val = IF j = i THEN v ELSE cards[j].val
    BY DEF IdCards
  <1>3. Written(i, v) = [one EXCEPT ![i].rev = clock + 1] BY DEF Written, IdCards
  <1> HIDE DEF one
  <1>4. clock + 1 \in Nat OBVIOUS
  <1>5. Written(i, v) \in IdCards BY <1>1, <1>3, <1>4 DEF IdCards
  <1>6. \A j \in Stamps : /\ Written(i, v)[j].state = one[j].state /\ Written(i, v)[j].prev = one[j].prev
                          /\ Written(i, v)[j].val = one[j].val
    BY <1>1, <1>3, <1>4 DEF IdCards
  <1>7. Written(i, v)[i].rev = clock + 1 BY <1>1, <1>3, <1>4 DEF IdCards
  <1>. QED BY <1>2, <1>5, <1>6, <1>7

\* A removed card is dead and keeps its former names.
LEMMA IdRemoved ==
    ASSUME cards \in IdCards, clock \in Nat, NEW i \in Stamps
    PROVE  /\ Removed(i) \in IdCards
           /\ \A j \in Stamps : /\ Removed(i)[j].state = IF j = i THEN "dead" ELSE cards[j].state
                                /\ Removed(i)[j].prev = cards[j].prev /\ Removed(i)[j].val = cards[j].val
           /\ Removed(i)[i].rev = clock + 1
  <1> DEFINE one == [cards EXCEPT ![i].state = "dead"]
  <1>1. one \in IdCards BY DEF IdCards, States
  <1>2. \A j \in Stamps : /\ one[j].state = IF j = i THEN "dead" ELSE cards[j].state
                          /\ one[j].prev = cards[j].prev /\ one[j].val = cards[j].val
    BY DEF IdCards
  <1>3. Removed(i) = [one EXCEPT ![i].rev = clock + 1] BY DEF Removed, IdCards
  <1> HIDE DEF one
  <1>4. clock + 1 \in Nat OBVIOUS
  <1>5. Removed(i) \in IdCards BY <1>1, <1>3, <1>4 DEF IdCards
  <1>6. \A j \in Stamps : /\ Removed(i)[j].state = one[j].state /\ Removed(i)[j].prev = one[j].prev
                          /\ Removed(i)[j].val = one[j].val
    BY <1>1, <1>3, <1>4 DEF IdCards
  <1>7. Removed(i)[i].rev = clock + 1 BY <1>1, <1>3, <1>4 DEF IdCards
  <1>. QED BY <1>2, <1>5, <1>6, <1>7

\* An added card has no former name.
LEMMA IdAdded ==
    ASSUME cards \in IdCards, clock \in Nat, NEW i \in Stamps, NEW v \in Nat, NEW u \in Nat, NEW st \in {"live", "hidden"}
    PROVE  /\ Added(i, v, u, st) \in IdCards
           /\ \A j \in Stamps : /\ Added(i, v, u, st)[j].state = IF j = i THEN st ELSE cards[j].state
                                /\ Added(i, v, u, st)[j].prev = IF j = i THEN {} ELSE cards[j].prev
                                /\ Added(i, v, u, st)[j].val = IF j = i THEN v ELSE cards[j].val
           /\ Added(i, v, u, st)[i].rev = clock + 1
  <1> DEFINE c == [state |-> st, val |-> v, uid |-> u, rev |-> clock + 1, prev |-> {}]
  <1>1. c \in [state : States, val : Nat, uid : Nat, rev : Nat, prev : SUBSET Stamps] BY DEF States
  <1>2. Added(i, v, u, st) = [cards EXCEPT ![i] = c] BY DEF Added
  <1>0. c.state = st /\ c.val = v /\ c.prev = {} /\ c.rev = clock + 1 OBVIOUS
  <1> HIDE DEF c
  <1>3. Added(i, v, u, st) \in IdCards BY <1>1, <1>2 DEF IdCards
  <1>4. \A j \in Stamps : Added(i, v, u, st)[j] = IF j = i THEN c ELSE cards[j] BY <1>2 DEF IdCards
  <1>. QED BY <1>0, <1>3, <1>4

\* A renamed Google contact keeps its contents; its old name becomes an alias.
RenamedGoogle(i) ==
    [cards EXCEPT ![clock + 1] = [cards[i] EXCEPT !.rev = clock + 1, !.prev = cards[i].prev \cup {i}],
                  ![i] = [NoCard EXCEPT !.state = "moved"]]

\* A renamed card takes its former names along, and the old name is one of them.
LEMMA IdRenamed ==
    ASSUME cards \in IdCards, clock \in Nat, NEW i \in Stamps, clock + 1 \in Stamps, i # clock + 1
    PROVE  /\ RenamedGoogle(i) \in IdCards
           /\ \A j \in Stamps :
                IF j = i THEN RenamedGoogle(i)[j].state = "moved" /\ RenamedGoogle(i)[j].prev = {}
                ELSE IF j = clock + 1
                THEN /\ RenamedGoogle(i)[j].state = cards[i].state /\ RenamedGoogle(i)[j].val = cards[i].val
                     /\ RenamedGoogle(i)[j].prev = cards[i].prev \cup {i} /\ RenamedGoogle(i)[j].rev = clock + 1
                ELSE RenamedGoogle(i)[j] = cards[j]
  <1> DEFINE new == [cards[i] EXCEPT !.rev = clock + 1, !.prev = cards[i].prev \cup {i}]
             old == [NoCard EXCEPT !.state = "moved"]
             C == [state : States, val : Nat, uid : Nat, rev : Nat, prev : SUBSET Stamps]
  <1>1. new \in C /\ new.state = cards[i].state /\ new.val = cards[i].val /\ new.prev = cards[i].prev \cup {i}
        /\ new.rev = clock + 1
    <2> DEFINE c == cards[i]
               p == cards[i].prev \cup {i}
    <2>1. c \in C /\ clock + 1 \in Nat /\ p \in SUBSET Stamps BY DEF IdCards
    <2> HIDE DEF c, p
    <2> DEFINE d == [c EXCEPT !.rev = clock + 1]
    <2>2. d \in C /\ d.state = c.state /\ d.val = c.val /\ d.rev = clock + 1 BY <2>1
    <2>3. new = [d EXCEPT !.prev = p] BY <2>1 DEF c, p
    <2> HIDE DEF d, new
    <2>4. new \in C /\ new.state = d.state /\ new.val = d.val /\ new.prev = p /\ new.rev = d.rev BY <2>1, <2>2, <2>3
    <2>. QED BY <2>2, <2>4 DEF c, p
  <1>2. old \in C /\ old.state = "moved" /\ old.prev = {} BY DEF NoCard, States
  <1>3. RenamedGoogle(i) = [cards EXCEPT ![clock + 1] = new, ![i] = old] BY DEF RenamedGoogle
  <1> HIDE DEF new, old
  <1>4. RenamedGoogle(i) = [j \in Stamps |-> IF j = i THEN old ELSE IF j = clock + 1 THEN new ELSE cards[j]]
    BY <1>3 DEF IdCards
  <1>5. RenamedGoogle(i) \in IdCards BY <1>1, <1>2, <1>4 DEF IdCards
  <1>. QED BY <1>1, <1>2, <1>4, <1>5

-----------------------------------------------------------------------------
(* Changes of the server's cards *)

\* A card is edited, removed, shown or added.
IdStep ==
    /\ cards' \in IdCards /\ clock' \in {clock, clock + 1}
    /\ \A i \in Stamps :
         \/ cards'[i].state = cards[i].state /\ cards'[i].prev = cards[i].prev
         \/ /\ cards[i].state \in {"live", "hidden"} /\ cards'[i].prev = cards[i].prev
            /\ cards'[i].state \in {"live", "dead"}
         \/ /\ i = clock + 1 /\ clock' = clock + 1 /\ cards'[i].prev = {}
            /\ cards'[i].state = "live" \/ (provider = "google" /\ cards'[i].state = "hidden")
    /\ \A i \in Stamps : cards'[i].state \in {"live", "hidden"} => cards'[i].val \in 1..clock'
    /\ cards' = cards \/ \E i \in Stamps : cards'[i].rev = clock + 1

\* What every change of the cards leaves true: names lead to the same contact,
\* the dead stay dead, only new cards are not readable, and the position of the
\* change is on a card.
IdMove ==
    /\ cards' \in IdCards /\ clock' \in {clock, clock + 1} /\ Aliases'
    /\ \A i \in Stamps : cards'[i].state \in {"live", "hidden"} => cards'[i].val \in 1..clock'
    /\ \A i \in Stamps : i <= clock /\ cards[i].state # "hidden" => cards'[i].state # "hidden"
    /\ \A i \in Stamps : i <= clock /\ cards'[i].state = "live" => cards[i].state \in {"live", "hidden"}
    /\ \A n \in Stamps : GoneName(n) => GoneName(n)'
    /\ cards' = cards \/ \E i \in Stamps : cards'[i].rev = clock + 1

\* Such a change is a move.
LEMMA IdStepMoves ==
    ASSUME IdInv, IdStep, provider' = provider
    PROVE  IdMove
  <1>1. clock \in Nat /\ clock' \in Nat /\ clock <= clock' BY DEF IdInv, IdType, IdStep
  <1>2. \A i \in Stamps : i \in Nat BY Numbers
  <1>3. \A n \in Nat : n <= clock => n <= clock' /\ n # clock + 1 BY <1>1
  <1>4. \A i \in Stamps : cards[i].state # "none" => i # clock + 1 /\ i <= clock' BY <1>2, <1>3 DEF IdInv, Aliases
  <1>5. clock + 1 <= clock + 1 BY <1>1
  <1>6. \A i, n \in Stamps : n \in cards'[i].prev => n \in cards[i].prev BY DEF IdStep
  <1>7. \A n \in Stamps : cards[n].state \in {"dead", "moved"} => cards'[n].state = cards[n].state /\ cards'[n].prev = cards[n].prev
    BY <1>4 DEF IdStep
  <1>8. Aliases'
    <2>1. \A i \in Stamps : cards'[i].state # "none" => i <= clock' BY <1>4, <1>5 DEF IdStep
    <2>2. ASSUME NEW i \in Stamps, NEW n \in Stamps, n \in cards'[i].prev
          PROVE  cards'[n].state = "moved" /\ cards'[i].state \in {"live", "dead"}
      <3>1. n \in cards[i].prev BY <1>6, <2>2
      <3>2. cards[n].state = "moved" /\ cards[i].state \in {"live", "dead"} BY <3>1 DEF IdInv, Aliases
      <3>3. cards'[i].state \in {"live", "dead"} BY <1>4, <3>2 DEF IdStep
      <3>. QED BY <1>7, <3>2, <3>3
    <2>3. \A i, j, n \in Stamps : n \in cards'[i].prev /\ n \in cards'[j].prev => i = j
      BY <1>6 DEF IdInv, Aliases
    <2>4. ASSUME NEW n \in Stamps, cards'[n].state = "moved" PROVE \E j \in Stamps : n \in cards'[j].prev
      <3>1. cards[n].state = "moved" BY <2>4 DEF IdStep
      <3>2. PICK j \in Stamps : n \in cards[j].prev BY <3>1 DEF IdInv, Aliases
      <3>3. cards[j].state \in {"live", "dead"} BY <3>2 DEF IdInv, Aliases
      <3>4. j # clock + 1 BY <1>4, <3>3
      <3>5. cards'[j].prev = cards[j].prev BY <3>4 DEF IdStep
      <3>. QED BY <3>2, <3>5
    <2>5. provider = "graph" => \A i \in Stamps : cards'[i].state \notin {"hidden", "moved"}
      BY DEF IdStep, IdInv, Aliases
    <2>. QED BY <2>1, <2>2, <2>3, <2>4, <2>5 DEF Aliases
  <1>9. \A i \in Stamps : i <= clock /\ cards[i].state # "hidden" => cards'[i].state # "hidden"
    BY <1>2, <1>3 DEF IdStep
  <1>10. \A i \in Stamps : i <= clock /\ cards'[i].state = "live" => cards[i].state \in {"live", "hidden"}
    BY <1>2, <1>3 DEF IdStep
  <1>11. \A n \in Stamps : GoneName(n) => GoneName(n)' BY <1>7 DEF GoneName
  <1>. QED BY <1>8, <1>9, <1>10, <1>11 DEF IdStep, IdMove

\* A Google contact gets a new name.
LEMMA RenameMoves ==
    ASSUME IdInv, provider = "google", provider' = provider, NEW i \in Stamps, cards[i].state = "live",
           clock + 1 \in Stamps, cards' = RenamedGoogle(i), clock' = clock + 1
    PROVE  IdMove /\ \A j \in Stamps : cards'[j].state = "hidden" => cards[j].state = "hidden"
  <1>1. clock \in Nat /\ clock' \in Nat /\ cards \in IdCards BY DEF IdInv, IdType
  <1>2. /\ \A j \in Stamps : j \in Nat
        /\ \A n \in Nat : n <= clock => n <= clock' /\ n # clock + 1
        /\ \A n : n \in 1..clock => n \in 1..clock'
        /\ clock + 1 <= clock'
    BY <1>1, Numbers
  <1>3. \A j \in Stamps : cards[j].state # "none" => j # clock + 1 /\ j <= clock' BY <1>2 DEF IdInv, Aliases
  <1>4. i # clock + 1 BY <1>3
  <1>5. /\ cards' \in IdCards
        /\ \A j \in Stamps :
             IF j = i THEN cards'[j].state = "moved" /\ cards'[j].prev = {}
             ELSE IF j = clock + 1
             THEN /\ cards'[j].state = "live" /\ cards'[j].val = cards[i].val
                  /\ cards'[j].prev = cards[i].prev \cup {i} /\ cards'[j].rev = clock + 1
             ELSE cards'[j] = cards[j]
    BY <1>1, <1>4, IdRenamed
  <1>6. \A j, n \in Stamps : n \in cards'[j].prev =>
          \/ j = clock + 1 /\ (n = i \/ n \in cards[i].prev)
          \/ j # clock + 1 /\ j # i /\ n \in cards[j].prev
    BY <1>5
  <1>7. \A n \in Stamps : cards[n].state \in {"dead", "moved"} => cards'[n] = cards[n] BY <1>3, <1>5
  <1>8. Aliases'
    <2>1. \A j \in Stamps : cards'[j].state # "none" => j <= clock' BY <1>2, <1>3, <1>5
    <2>2. ASSUME NEW j \in Stamps, NEW n \in Stamps, n \in cards'[j].prev
          PROVE  cards'[n].state = "moved" /\ cards'[j].state \in {"live", "dead"}
      <3>1. CASE j = clock + 1 /\ n = i BY <1>4, <1>5, <3>1
      <3>2. CASE j = clock + 1 /\ n \in cards[i].prev
        <4>1. cards[n].state = "moved" BY <3>2 DEF IdInv, Aliases
        <4>. QED BY <1>4, <1>5, <1>7, <3>2, <4>1
      <3>3. CASE j # clock + 1 /\ j # i /\ n \in cards[j].prev
        <4>1. cards[n].state = "moved" /\ cards[j].state \in {"live", "dead"} BY <3>3 DEF IdInv, Aliases
        <4>. QED BY <1>5, <1>7, <3>3, <4>1
      <3>. QED BY <1>6, <2>2, <3>1, <3>2, <3>3
    <2>3. \A j, k, n \in Stamps : n \in cards'[j].prev /\ n \in cards'[k].prev => j = k
      <3>1. \A k \in Stamps : i \notin cards[k].prev BY DEF IdInv, Aliases
      <3>. QED BY <1>6, <3>1 DEF IdInv, Aliases
    <2>4. ASSUME NEW n \in Stamps, cards'[n].state = "moved" PROVE \E j \in Stamps : n \in cards'[j].prev
      <3>1. CASE n = i BY <1>4, <1>5, <3>1
      <3>2. CASE n # i
        <4>1. cards[n].state = "moved" BY <1>5, <2>4, <3>2
        <4>2. PICK j \in Stamps : n \in cards[j].prev BY <4>1 DEF IdInv, Aliases
        <4>3. cards[j].state \in {"live", "dead"} BY <4>2 DEF IdInv, Aliases
        <4>4. j # clock + 1 BY <1>3, <4>3
        <4>5. CASE j = i BY <1>4, <1>5, <4>2, <4>5
        <4>6. CASE j # i BY <1>5, <4>2, <4>4, <4>6
        <4>. QED BY <4>5, <4>6
      <3>. QED BY <3>1, <3>2
    <2>. QED BY <2>1, <2>2, <2>3, <2>4 DEF Aliases
  <1>9. \A j \in Stamps : cards'[j].state \in {"live", "hidden"} => cards'[j].val \in 1..clock' BY <1>2, <1>4, <1>5 DEF IdInv, Filled
  <1>10. \A j \in Stamps : cards'[j].state = "hidden" => cards[j].state = "hidden" BY <1>5
  <1>11. \A j \in Stamps : j <= clock /\ cards'[j].state = "live" => cards[j].state \in {"live", "hidden"}
    BY <1>2, <1>5
  <1>12. ASSUME NEW n \in Stamps, GoneName(n) PROVE GoneName(n)' BY <1>7, <1>12 DEF GoneName
  <1>13. cards'[clock + 1].rev = clock + 1 BY <1>4, <1>5
  <1>. QED BY <1>5, <1>8, <1>9, <1>10, <1>11, <1>12, <1>13 DEF IdMove

\* There are finitely many stamps.
LEMMA HiddenFinite ==
    /\ IsFiniteSet(Hidden) /\ Cardinality(Hidden) \in Nat
    /\ (Hidden # {} => Cardinality(Hidden) > 0)
    /\ \A S : S \subseteq Stamps => IsFiniteSet(S) /\ Cardinality(S) \in Nat
    /\ \A S, T : S \subseteq T /\ T \subseteq Stamps => Cardinality(S) <= Cardinality(T)
  <1>1. IsFiniteSet(Stamps)
    <2>1. 1 \in Int /\ 3 + 3 * Events \in Int BY EventsAssumption
    <2>. QED BY <2>1, FS_Interval DEF Stamps
  <1>2. \A S : S \subseteq Stamps => IsFiniteSet(S) /\ Cardinality(S) \in Nat BY <1>1, FS_Subset, FS_CardinalityType
  <1>3. Hidden \subseteq Stamps BY DEF Hidden
  <1>4. IsFiniteSet(Hidden) /\ Cardinality(Hidden) \in Nat BY <1>2, <1>3
  <1>5. Hidden # {} => Cardinality(Hidden) > 0 BY <1>4, FS_EmptySet
  <1>6. \A S, T : S \subseteq T /\ T \subseteq Stamps => Cardinality(S) <= Cardinality(T) BY <1>2, FS_Subset
  <1>. QED BY <1>2, <1>4, <1>5, <1>6

\* A stamp is left for whoever may take one.
LEMMA IdStampLeft ==
    ASSUME IdInv, budget > 0 \/ Asked > 0 \/ Hidden # {}
    PROVE  clock + 1 \in Stamps
  <1>1. Cardinality(Hidden) \in Nat /\ (Hidden # {} => Cardinality(Hidden) > 0) BY HiddenFinite
  <1>2. clock \in Nat /\ budget \in Nat /\ Asked \in {0, 1, 2} BY EventsAssumption DEF IdInv, IdType, Asked
  <1>3. clock + 1 <= 3 + 3 * Events /\ clock + 1 \in Nat /\ clock + 1 # 0
    BY <1>1, <1>2, EventsAssumption DEF IdInv, IdClock
  <1>. QED BY <1>3, Numbers

\* The rest of the invariant over a change of cards.
LEMMA IdMoveKeeps ==
    ASSUME ById, IdInv, IdMove, rows' = rows, provider' = provider, google'.absent = google.absent
    PROVE  /\ Filled' /\ Absent'
           /\ op' = op => IdOp'
           /\ clock \in Nat /\ clock' \in Nat /\ clock <= clock' /\ clock' <= clock + 1
  <1>1. clock \in Nat /\ clock' \in Nat /\ clock <= clock' /\ clock' <= clock + 1 BY DEF IdInv, IdType, IdMove
  <1>2. /\ \A n \in Nat : n <= clock => n <= clock'
        /\ \A n : n \in 1..clock => n \in 1..clock'
        /\ Stamps \subseteq Nat /\ Ids \subseteq Nat
    BY <1>1, Numbers
  <1>3. \A r \in Rows : rows[r].id \in Ids BY DEF IdInv, IdType, RowFcns
  <1>4. Filled' BY <1>2, <1>3 DEF IdMove, IdInv, Filled, Kept
  <1>5. Absent' BY <1>2 DEF IdMove, IdInv, Absent
  <1>6. ASSUME op' = op PROVE IdOp'
    <2>1. op.pc \in {"push", "persist"} => op.id <= clock' BY <1>2 DEF IdInv, IdOp
    <2>2. ASSUME op.pc = "apply"
          PROVE  /\ \A i \in DOMAIN op.seen : i <= clock' /\ op.seen[i].val \in 1..clock'
                 /\ \/ op.torn
                    \/ \A r \in Rows : rows[r].id # 0 /\ IsLive(rows[r].id)' => rows[r].id \in DOMAIN op.seen
      <3>1. DOMAIN op.seen \subseteq Stamps /\ provider = "graph" BY <2>2 DEF IdInv, IdOp
      <3>2. ASSUME ~op.torn, NEW r \in Rows, rows[r].id # 0, IsLive(rows[r].id)' PROVE rows[r].id \in DOMAIN op.seen
        <4>1. rows[r].id \in Stamps /\ rows[r].id <= clock BY <1>3, <3>2 DEF Ids, IdInv, Filled
        <4>2. cards[rows[r].id].state \in {"live", "hidden"} BY <3>2, <4>1 DEF IdMove, IsLive
        <4>3. cards[rows[r].id].state # "hidden" BY <3>1, <4>1 DEF IdInv, Aliases
        <4>. QED BY <2>2, <3>2, <4>2, <4>3 DEF IdInv, IdOp, IsLive
      <3>. QED BY <1>2, <2>2, <3>1, <3>2 DEF IdInv, IdOp
    <2>3. ASSUME op.pc = "lookup"
          PROVE  (\A i \in DOMAIN op.listed : i <= clock') /\ \A n \in op.deleted : GoneName(n)'
      BY <1>2, <2>3 DEF IdInv, IdOp, IdMove
    <2>4. ASSUME op.pc = "page"
          PROVE  /\ op.at <= clock'
                 /\ \A i \in DOMAIN op.seen : i <= clock' /\ op.seen[i].val \in 1..clock'
                 /\ (\E i \in Stamps : Since(i)') \/ DOMAIN op.seen \subseteq Live'
      <3>1. /\ DOMAIN op.seen \subseteq Stamps /\ op.at \in Nat /\ op.at <= clock
            /\ \A i \in DOMAIN op.seen : i <= clock /\ op.seen[i].val \in 1..clock
            /\ (\E i \in Stamps : Since(i)) \/ DOMAIN op.seen \subseteq Live
        BY <2>4 DEF IdInv, IdOp
      <3>2. clock + 1 > op.at BY <1>1, <3>1
      <3>3. CASE cards' = cards BY <1>2, <1>6, <3>1, <3>3 DEF Since, Live
      <3>4. CASE \E i \in Stamps : cards'[i].rev = clock + 1 BY <1>2, <1>6, <3>1, <3>2, <3>4 DEF Since
      <3>. QED BY <3>3, <3>4 DEF IdMove
    <2>. QED BY <1>6, <2>1, <2>2, <2>3, <2>4 DEF IdInv, IdOp, Kept
  <1>. QED BY <1>1, <1>4, <1>5, <1>6

\* The invariant speaks of these only.
LEMMA IdSame ==
    ASSUME IdInv, UNCHANGED vars
    PROVE  IdInv'
  <1>1. /\ provider' = provider /\ clock' = clock /\ cards' = cards /\ rows' = rows /\ google' = google
        /\ op' = op /\ budget' = budget
    BY DEF vars
  <1>2. IdType' /\ Aliases' /\ Filled' /\ Absent' BY <1>1 DEF IdInv, IdType, Aliases, Filled, Absent, Kept
  <1>3. IdOp' /\ IdClock' BY <1>1 DEF IdInv, IdOp, IdClock, GoneName, Hidden, Asked, Kept, IsLive, Since, Live
  <1>. QED BY <1>2, <1>3 DEF IdInv

\* Other clients create, edit, delete and rename cards.
LEMMA IdOtherStep ==
    ASSUME ById, IdInv, OtherChange
    PROVE  IdInv'
  <1>1. /\ budget > 0 /\ budget' = budget - 1 /\ provider' = provider /\ rows' = rows /\ op' = op /\ google' = google
        /\ clock' = clock + 1
    BY DEF OtherChange, OtherCreates, OtherEdits, OtherDeletes, OtherRenames, ById
  <1>2. clock \in Nat /\ clock + 1 \in Nat /\ clock + 1 # 0 /\ clock + 1 \in Stamps /\ cards \in IdCards /\ budget \in Nat
    BY <1>1, IdStampLeft, EventsAssumption DEF IdInv, IdType
  <1>7. \A n : n \in 1..clock => n \in 1..clock' BY <1>1, <1>2
  <1>3. IdMove /\ Hidden' \subseteq Hidden
    <2>1. CASE OtherCreates
      <3>1. cards' = Added(clock + 1, clock + 1, clock + 1, "live") BY <2>1 DEF OtherCreates, ById
      <3>2. /\ cards' \in IdCards
            /\ \A j \in Stamps : /\ cards'[j].state = IF j = clock + 1 THEN "live" ELSE cards[j].state
                                 /\ cards'[j].prev = IF j = clock + 1 THEN {} ELSE cards[j].prev
                                 /\ cards'[j].val = IF j = clock + 1 THEN clock + 1 ELSE cards[j].val
            /\ cards'[clock + 1].rev = clock + 1
        BY <1>2, <3>1, IdAdded
      <3>4. IdStep BY <1>1, <1>2, <3>2 DEF IdStep, IdInv, Filled
      <3>5. Hidden' \subseteq Hidden BY <3>2 DEF Hidden
      <3>. QED BY <1>1, <3>4, <3>5, IdStepMoves
    <2>2. ASSUME NEW i \in Live, OtherEdits(i) PROVE IdMove /\ Hidden' \subseteq Hidden
      <3>1. cards' = Written(i, clock + 1) /\ i \in Stamps BY <2>2 DEF OtherEdits, Live
      <3>2. /\ cards' \in IdCards
            /\ \A j \in Stamps : /\ cards'[j].state = cards[j].state /\ cards'[j].prev = cards[j].prev
                                 /\ cards'[j].val = IF j = i THEN clock + 1 ELSE cards[j].val
            /\ cards'[i].rev = clock + 1
        BY <1>2, <3>1, IdWritten
      <3>3. IdStep BY <1>1, <1>2, <3>1, <3>2 DEF IdStep, IdInv, Filled
      <3>4. Hidden' \subseteq Hidden BY <3>2 DEF Hidden
      <3>. QED BY <1>1, <3>3, <3>4, IdStepMoves
    <2>3. ASSUME NEW i \in Live, OtherDeletes(i) PROVE IdMove /\ Hidden' \subseteq Hidden
      <3>1. cards' = Removed(i) /\ i \in Stamps /\ cards[i].state = "live" BY <2>3 DEF OtherDeletes, Live
      <3>2. /\ cards' \in IdCards
            /\ \A j \in Stamps : /\ cards'[j].state = IF j = i THEN "dead" ELSE cards[j].state
                                 /\ cards'[j].prev = cards[j].prev /\ cards'[j].val = cards[j].val
            /\ cards'[i].rev = clock + 1
        BY <1>2, <3>1, IdRemoved
      <3>3. IdStep BY <1>1, <1>2, <1>7, <3>1, <3>2 DEF IdStep, IdInv, Filled
      <3>4. Hidden' \subseteq Hidden BY <3>2 DEF Hidden
      <3>. QED BY <1>1, <3>3, <3>4, IdStepMoves
    <2>4. ASSUME NEW i \in Live, OtherRenames(i) PROVE IdMove /\ Hidden' \subseteq Hidden
      <3>1. provider = "google" /\ i \in Stamps /\ cards[i].state = "live" BY <2>4 DEF OtherRenames, ById, Live
      <3>2. cards' = RenamedGoogle(i) BY <2>4, <3>1 DEF OtherRenames, RenamedGoogle
      <3>. QED BY <1>1, <1>2, <3>1, <3>2, RenameMoves DEF Hidden
    <2>. QED BY <2>1, <2>2, <2>3, <2>4 DEF OtherChange
  <1>4. Filled' /\ Absent' /\ IdOp' BY <1>1, <1>3, IdMoveKeeps
  <1>5. IdType'
    <2>1. budget' \in 0..Events BY <1>1, <1>2, EventsAssumption DEF IdInv, IdType
    <2>. QED BY <1>1, <1>2, <1>3, <2>1 DEF IdMove, IdInv, IdType
  <1>6. IdClock'
    <2>1. Hidden \subseteq Stamps /\ Hidden' \subseteq Stamps BY DEF Hidden
    <2>2. Cardinality(Hidden') <= Cardinality(Hidden) /\ Cardinality(Hidden) \in Nat /\ Cardinality(Hidden') \in Nat
      BY <1>3, <2>1, HiddenFinite
    <2>3. Asked' = Asked /\ Asked \in {0, 1, 2} BY <1>1 DEF Asked
    <2>. QED BY <1>1, <1>2, <2>2, <2>3, EventsAssumption DEF IdInv, IdClock
  <1>. QED BY <1>3, <1>4, <1>5, <1>6 DEF IdInv, IdMove

\* What was hidden is shown, and absences become old.
LEMMA IdTickStep ==
    ASSUME ById, IdInv, Tick
    PROVE  IdInv'
  <1>1. /\ budget' = budget /\ provider' = provider /\ rows' = rows /\ op' = op
        /\ clock' = IF Hidden = {} THEN clock ELSE clock + 1
    BY DEF Tick, Hidden
  <1>0. /\ cards' = [i \in Stamps |-> IF i \in Hidden THEN [cards[i] EXCEPT !.state = "live", !.rev = clock + 1]
                                      ELSE cards[i]]
        /\ google' = [google EXCEPT !.absent = [i \in Stamps |-> IF google.absent[i] = 1 THEN 2 ELSE google.absent[i]]]
    BY DEF Tick, Hidden, IdInv, IdType
  <1>2. clock \in Nat /\ clock + 1 \in Nat /\ cards \in IdCards /\ budget \in Nat
    BY EventsAssumption DEF IdInv, IdType
  <1>3. ASSUME NEW i \in Stamps
        PROVE  /\ cards'[i] \in [state : States, val : Nat, uid : Nat, rev : Nat, prev : SUBSET Stamps]
               /\ cards'[i].prev = cards[i].prev /\ cards'[i].val = cards[i].val
               /\ cards'[i].state = IF cards[i].state = "hidden" THEN "live" ELSE cards[i].state
               /\ i \in Hidden => cards'[i].rev = clock + 1
    <2> DEFINE c == cards[i]
               C == [state : States, val : Nat, uid : Nat, rev : Nat, prev : SUBSET Stamps]
    <2>1. c \in C BY <1>2 DEF IdCards
    <2>2. CASE i \notin Hidden
      <3>1. cards'[i] = c BY <1>0, <2>2
      <3>. QED BY <2>1, <2>2, <3>1 DEF Hidden
    <2>3. CASE i \in Hidden
      <3>1. cards'[i] = [c EXCEPT !.state = "live", !.rev = clock + 1] BY <1>0, <2>3
      <3> HIDE DEF c
      <3> DEFINE one == [c EXCEPT !.state = "live"]
      <3>2. one \in C /\ one.state = "live" /\ one.prev = c.prev /\ one.val = c.val BY <2>1 DEF States
      <3>3. cards'[i] = [one EXCEPT !.rev = clock + 1] BY <2>1, <3>1
      <3> HIDE DEF one
      <3>4. /\ cards'[i] \in C /\ cards'[i].state = "live" /\ cards'[i].prev = c.prev /\ cards'[i].val = c.val
            /\ cards'[i].rev = clock + 1
        BY <1>2, <3>2, <3>3
      <3>. QED BY <2>3, <3>4 DEF c, Hidden
    <2>. QED BY <2>2, <2>3
  <1>7. clock' \in Nat /\ clock <= clock' BY <1>1, <1>2
  <1>8. /\ \A n \in Nat : n <= clock => n <= clock'
        /\ \A n : n \in 1..clock => n \in 1..clock'
        /\ Stamps \subseteq Nat /\ Ids \subseteq Nat
    BY <1>2, <1>7, Numbers
  <1>4. IdStep
    <2>1. cards' \in IdCards BY <1>0, <1>3 DEF IdCards
    <2>2. \A i \in Stamps : cards'[i].state \in {"live", "hidden"} => cards'[i].val \in 1..clock'
      BY <1>3, <1>8 DEF IdInv, Filled
    <2>3. cards' = cards \/ \E i \in Stamps : cards'[i].rev = clock + 1
      <3>1. CASE Hidden = {} BY <1>0, <1>2, <3>1 DEF IdCards
      <3>2. CASE Hidden # {} BY <1>3, <3>2 DEF Hidden
      <3>. QED BY <3>1, <3>2
    <2>. QED BY <1>1, <1>3, <2>1, <2>2, <2>3 DEF IdStep
  <1>5. IdMove BY <1>1, <1>4, IdStepMoves
  <1>6. /\ google' \in GoogleType
        /\ \A i \in Stamps : google'.absent[i] # 0 => google.absent[i] # 0
    <2> DEFINE a == [i \in Stamps |-> IF google.absent[i] = 1 THEN 2 ELSE google.absent[i]]
    <2>1. google \in GoogleType BY DEF IdInv, IdType
    <2>2. a \in [Stamps -> 0..2] BY <2>1 DEF GoogleType
    <2>3. \A i \in Stamps : a[i] # 0 => google.absent[i] # 0 OBVIOUS
    <2>4. google' = [google EXCEPT !.absent = a] BY <1>0
    <2> HIDE DEF a
    <2>5. google' \in GoogleType /\ google'.absent = a BY <2>1, <2>2, <2>4 DEF GoogleType
    <2>6. \A i \in Stamps : google'.absent[i] = a[i] BY <2>5
    <2>. QED BY <2>3, <2>5, <2>6
  <1>9. Absent' BY <1>3, <1>6, <1>8 DEF IdInv, Absent
  <1>10. Filled'
    <2>1. \A r \in Rows : rows[r].id \in Nat BY <1>8 DEF IdInv, IdType, RowFcns
    <2>. QED BY <1>1, <1>4, <1>8, <2>1 DEF IdStep, IdInv, Filled, Kept
  <1>11. IdOp'
    <2>1. op.pc \in {"push", "persist"} => op.id <= clock' BY <1>8 DEF IdInv, IdOp
    <2>2. ASSUME op.pc = "apply"
          PROVE  /\ \A i \in DOMAIN op.seen : i <= clock' /\ op.seen[i].val \in 1..clock'
                 /\ \/ op.torn
                    \/ \A r \in Rows : rows[r].id # 0 /\ IsLive(rows[r].id)' => rows[r].id \in DOMAIN op.seen
      <3>1. DOMAIN op.seen \subseteq Stamps /\ provider = "graph" BY <2>2 DEF IdInv, IdOp
      <3>2. Hidden = {} BY <3>1 DEF Hidden, IdInv, Aliases
      <3>3. cards' = cards BY <1>0, <1>2, <3>2 DEF IdCards
      <3>4. \A r \in Rows : IsLive(rows[r].id)' => IsLive(rows[r].id) BY <1>1, <3>3 DEF IsLive
      <3>5. \A i \in DOMAIN op.seen : i <= clock /\ i \in Nat /\ op.seen[i].val \in 1..clock BY <1>8, <2>2, <3>1 DEF IdInv, IdOp
      <3>6. op.torn \/ \A r \in Rows : rows[r].id # 0 /\ IsLive(rows[r].id) => rows[r].id \in DOMAIN op.seen
        BY <2>2 DEF IdInv, IdOp
      <3>. QED BY <1>8, <3>4, <3>5, <3>6
    <2>3. ASSUME op.pc = "lookup"
          PROVE  (\A i \in DOMAIN op.listed : i <= clock') /\ \A n \in op.deleted : GoneName(n)'
      BY <1>5, <1>8, <2>3 DEF IdInv, IdOp, IdMove
    <2>4. ASSUME op.pc = "page"
          PROVE  /\ op.at <= clock'
                 /\ \A i \in DOMAIN op.seen : i <= clock' /\ op.seen[i].val \in 1..clock'
                 /\ (\E i \in Stamps : Since(i)') \/ DOMAIN op.seen \subseteq Live'
      <3>1. /\ DOMAIN op.seen \subseteq Stamps /\ provider = "graph" /\ op.at \in Nat /\ op.at <= clock
            /\ \A i \in DOMAIN op.seen : i <= clock /\ op.seen[i].val \in 1..clock
            /\ (\E i \in Stamps : Since(i)) \/ DOMAIN op.seen \subseteq Live
        BY <2>4 DEF IdInv, IdOp
      <3>2. Hidden = {} BY <3>1 DEF Hidden, IdInv, Aliases
      <3>3. cards' = cards BY <1>0, <1>2, <3>2 DEF IdCards
      <3>. QED BY <1>1, <1>8, <3>1, <3>3 DEF Since, Live
    <2>. QED BY <1>1, <2>1, <2>2, <2>3, <2>4 DEF IdInv, IdOp, Kept
  <1>12. IdClock'
    <2>1. Hidden' = {} BY <1>3 DEF Hidden
    <2>2. Cardinality(Hidden') = 0 BY <2>1, FS_EmptySet
    <2>3. Cardinality(Hidden) \in Nat /\ (Hidden # {} => Cardinality(Hidden) > 0) BY HiddenFinite
    <2>4. Asked' = Asked /\ Asked \in Nat BY <1>1 DEF Asked
    <2>5. clock' <= clock + Cardinality(Hidden) BY <1>1, <1>2, <2>3
    <2>6. clock + 3 * budget + Asked + Cardinality(Hidden) <= 3 + 3 * Events BY DEF IdInv, IdClock
    <2>7. clock' + 3 * budget' + Asked' + Cardinality(Hidden') <= 3 + 3 * Events
      BY <1>1, <1>2, <1>7, <2>2, <2>3, <2>4, <2>5, <2>6, EventsAssumption
    <2>. QED BY <2>7 DEF IdClock
  <1>13. IdType' BY <1>1, <1>4, <1>6, <1>7 DEF IdStep, IdInv, IdType
  <1>. QED BY <1>5, <1>9, <1>10, <1>11, <1>12, <1>13 DEF IdInv, IdMove

-----------------------------------------------------------------------------
(* Steps that leave the server's cards alone *)

\* Absences that are not touched stay in order.
LEMMA IdAbsent ==
    ASSUME IdInv, cards' = cards, clock' \in {clock, clock + 1}, google'.absent = google.absent
    PROVE  Absent'
  <1>1. clock \in Nat /\ clock' \in Nat BY DEF IdInv, IdType
  <1>2. Stamps \subseteq Nat /\ \A n \in Nat : n <= clock => n <= clock' BY <1>1, Numbers
  <1>. QED BY <1>2 DEF IdInv, Absent

\* The table, the absences and the operation under way change.
LEMMA IdRowStep ==
    ASSUME ById, IdInv, cards' = cards, provider' = provider, clock' \in {clock, clock + 1}, rows' \in RowFcns,
           \A r \in Rows : rows'[r].id <= clock' /\ (rows'[r] # NoRow => rows'[r].val \in 1..clock'),
           google' \in GoogleType, Absent', IdOp', budget' \in 0..Events,
           clock' + 3 * budget' + Asked' <= clock + 3 * budget + Asked
    PROVE  IdInv'
  <1>1. clock \in Nat /\ clock' \in Nat BY DEF IdInv, IdType
  <1>2. /\ \A n \in Nat : n <= clock => n <= clock'
        /\ \A n : n \in 1..clock => n \in 1..clock'
        /\ Stamps \subseteq Nat
    BY <1>1, Numbers
  <1>3. IdType' BY <1>1 DEF IdInv, IdType
  <1>4. Aliases' BY <1>2 DEF IdInv, Aliases
  <1>5. Filled' BY <1>2 DEF IdInv, Filled, Kept
  <1>6. IdClock'
    <2>1. Hidden' = Hidden /\ Cardinality(Hidden) \in Nat BY HiddenFinite DEF Hidden
    <2>2. Asked \in Nat /\ Asked' \in Nat BY DEF Asked
    <2>3. budget \in Nat /\ budget' \in Nat BY EventsAssumption DEF IdInv, IdType
    <2>4. clock + 3 * budget + Asked + Cardinality(Hidden) <= 3 + 3 * Events BY DEF IdInv, IdClock
    <2>5. \A a, b, c \in Nat : a <= b /\ b + c <= 3 + 3 * Events => a + c <= 3 + 3 * Events BY EventsAssumption
    <2>6. clock' + 3 * budget' + Asked' \in Nat /\ clock + 3 * budget + Asked \in Nat
      <3>1. \A a, b, c \in Nat : a + 3 * b + c \in Nat OBVIOUS
      <3>. QED BY <1>1, <2>2, <2>3, <3>1
    <2>7. clock' + 3 * budget' + Asked' + Cardinality(Hidden') <= 3 + 3 * Events
      BY <2>1, <2>4, <2>5, <2>6
    <2>. QED BY <2>7 DEF IdClock
  <1>. QED BY <1>3, <1>4, <1>5, <1>6 DEF IdInv

\* Counting recoveries leaves the rest of Google's state.
LEMMA PendingIs ==
    ASSUME IdInv, NEW n \in Int
    PROVE  Pending(n) \in GoogleType /\ Pending(n).absent = google.absent
  <1>1. google \in GoogleType BY DEF IdInv, IdType
  <1> DEFINE m == IF provider = "google" THEN google.recoveries + n ELSE google.recoveries
  <1>2. m \in Int BY <1>1 DEF GoogleType
  <1>3. Pending(n) = [google EXCEPT !.recoveries = m] BY <1>1 DEF Pending, GoogleType
  <1> HIDE DEF m
  <1>. QED BY <1>1, <1>2, <1>3 DEF GoogleType

\* The local transaction of a command, and the push that follows it.
LEMMA IdCommand ==
    ASSUME ById, IdInv, op = Idle, budget > 0, budget' = budget - 1, provider' = provider, cards' = cards,
           clock' \in {clock, clock + 1}, rows' \in RowFcns,
           \A r \in Rows : rows'[r].id <= clock' /\ (rows'[r] # NoRow => rows'[r].val \in 1..clock'),
           google' \in {google, Pending(1)},
           \/ op'.pc = "idle"
           \/ /\ op'.pc = "push" /\ op'.kind \in {"create", "update", "delete"} /\ op'.row \in Rows
              /\ op'.id \in Ids /\ op'.id <= clock'
              /\ op'.kind # "delete" => rows'[op'.row] # NoRow
              /\ op'.kind # "create" => op'.id # 0
    PROVE  IdInv'
  <1>1. google' \in GoogleType /\ google'.absent = google.absent
    <2>1. google \in GoogleType BY DEF IdInv, IdType
    <2>2. Pending(1) \in GoogleType /\ Pending(1).absent = google.absent BY PendingIs
    <2>. QED BY <2>1, <2>2
  <1>2. Absent' BY <1>1, IdAbsent
  <1>3. IdOp'
    <2>1. CASE op'.pc = "idle" BY <2>1 DEF IdOp
    <2>2. CASE op'.pc = "push" BY <2>2 DEF IdOp, Kept
    <2>. QED BY <2>1, <2>2
  <1>4. clock \in Nat /\ budget \in Nat /\ budget' \in 0..Events BY EventsAssumption DEF IdInv, IdType
  <1>5. Asked = 0 /\ Asked' \in {0, 1, 2} BY DEF Asked, Idle
  <1>6. clock' + 3 * budget' + Asked' <= clock + 3 * budget + Asked BY <1>4, <1>5
  <1>. QED BY <1>1, <1>2, <1>3, <1>4, <1>6, IdRowStep

\* The stamps in rows, once more time has passed.
LEMMA RowStamps ==
    ASSUME IdInv, clock' \in {clock, clock + 1}
    PROVE  \A r \in Rows : /\ rows[r].id <= clock' /\ rows[r].id \in Ids /\ rows[r].val \in Nat
                           /\ rows[r] # NoRow => rows[r].val \in 1..clock'
  <1>1. clock \in Nat /\ clock' \in Nat BY DEF IdInv, IdType
  <1>2. /\ \A n \in Nat : n <= clock => n <= clock'
        /\ \A n : n \in 1..clock => n \in 1..clock'
        /\ Ids \subseteq Nat
    BY <1>1, Numbers
  <1>3. \A r \in Rows : rows[r].id \in Ids /\ rows[r].val \in Nat BY DEF IdInv, IdType, RowFcns
  <1>. QED BY <1>2, <1>3 DEF IdInv, Filled, Kept

\* create_contact.
LEMMA IdCreateStep ==
    ASSUME ById, IdInv, Command, Create
    PROVE  IdInv'
  <1> DEFINE r == Min(Rows \ Stored(rows))
             row == [NoRow EXCEPT !.val = clock + 1, !.uid = clock + 1]
  <1>1. /\ budget > 0 /\ budget' = budget - 1 /\ provider' = provider /\ cards' = cards
        /\ clock' = clock + 1 /\ rows' = [rows EXCEPT ![r] = row] /\ op' = PushOf(r, row) /\ op = Idle
        /\ google' = Pending(1)
    BY DEF Command, Create
  <1>2. clock \in Nat /\ rows \in RowFcns BY DEF IdInv, IdType
  <1>3. r \in Rows
    <2>1. Rows \ Stored(rows) \subseteq Nat /\ Rows \ Stored(rows) # {} BY Numbers DEF Create, Stored
    <2>2. r \in Rows \ Stored(rows) BY <2>1, MinIn
    <2>. QED BY <2>2
  <1>4. row = [val |-> clock + 1, id |-> 0, uid |-> clock + 1, etag |-> 0]
    <2> DEFINE one == [NoRow EXCEPT !.val = clock + 1]
    <2>0. one = [val |-> clock + 1, id |-> 0, uid |-> 0, etag |-> 0] BY DEF NoRow
    <2>5. row = [one EXCEPT !.uid = clock + 1] BY DEF NoRow
    <2> HIDE DEF one
    <2>. QED BY <2>0, <2>5
  <1> HIDE DEF r, row
  <1>5. row.val = clock + 1 /\ row.id = 0 /\ row \in [val : Nat, id : Ids, uid : Nat, etag : Nat] /\ row # NoRow
    <2>1. clock + 1 \in Nat /\ clock + 1 # 0 BY <1>2
    <2>2. NoRow.val = 0 BY DEF NoRow
    <2>. QED BY <1>4, <2>1, <2>2 DEF Ids
  <1>6. rows' \in RowFcns /\ \A s \in Rows : rows'[s] = IF s = r THEN row ELSE rows[s]
    BY <1>1, <1>2, <1>3, <1>5 DEF RowFcns
  <1>7. clock + 1 \in 1..clock' /\ 0 <= clock' /\ clock' \in {clock, clock + 1} BY <1>1, <1>2
  <1>8. \A s \in Rows : rows'[s].id <= clock' /\ (rows'[s] # NoRow => rows'[s].val \in 1..clock')
    BY <1>5, <1>6, <1>7, RowStamps
  <1>9. op'.pc = "push" /\ op'.kind = "create" /\ op'.row = r /\ op'.id = 0
    BY <1>1, <1>5, PushIs DEF Push, ById
  <1>10. rows'[op'.row] # NoRow /\ 0 \in Ids BY <1>3, <1>5, <1>6, <1>9 DEF Ids
  <1>. QED BY <1>1, <1>3, <1>6, <1>7, <1>8, <1>9, <1>10, IdCommand

\* update_contact.
LEMMA IdUpdateStep ==
    ASSUME ById, IdInv, Command, NEW r \in Stored(rows), Update(r)
    PROVE  IdInv'
  <1>1. /\ budget > 0 /\ budget' = budget - 1 /\ provider' = provider /\ cards' = cards
        /\ op' = PushOf(r, rows[r]) /\ op = Idle /\ google' = Pending(1)
    BY DEF Command, Update
  <1>2. clock \in Nat /\ rows \in RowFcns BY DEF IdInv, IdType
  <1>3. r \in Rows /\ rows[r] # NoRow BY DEF Stored
  <1>4. rows[r].val \in 1..clock BY <1>3 DEF IdInv, Filled, Kept
  <1>5. PICK v \in {rows[r].val, clock + 1} :
           rows' = [rows EXCEPT ![r].val = v] /\ clock' = IF v > clock THEN v ELSE clock
    BY DEF Update
  <1>6. v \in 1..clock' /\ v \in Nat /\ clock' \in {clock, clock + 1} /\ v # 0 BY <1>2, <1>4, <1>5
  <1>7. /\ rows' \in RowFcns /\ rows'[r].val = v /\ rows'[r].id = rows[r].id
        /\ \A s \in Rows : s # r => rows'[s] = rows[s]
    BY <1>2, <1>3, <1>5, <1>6 DEF RowFcns
  <1>8. rows'[r] # NoRow BY <1>6, <1>7 DEF NoRow
  <1>9. \A s \in Rows : rows'[s].id <= clock' /\ (rows'[s] # NoRow => rows'[s].val \in 1..clock')
    BY <1>6, <1>7, RowStamps
  <1>10. rows[r].id \in Ids /\ rows[r].id <= clock' BY <1>3, <1>6, RowStamps
  <1>11. /\ op'.pc = "push" /\ op'.row = r /\ op'.id = rows[r].id
         /\ (op'.kind = "update" /\ rows[r].id # 0) \/ op'.kind = "create"
    BY <1>1, PushIs DEF Push, ById
  <1>. QED BY <1>1, <1>3, <1>6, <1>7, <1>8, <1>9, <1>10, <1>11, IdCommand

\* delete_contact.
LEMMA IdDeleteStep ==
    ASSUME ById, IdInv, Command, NEW r \in Stored(rows), Delete(r)
    PROVE  IdInv'
  <1>1. /\ budget > 0 /\ budget' = budget - 1 /\ provider' = provider /\ cards' = cards
        /\ clock' = clock /\ op = Idle /\ rows' = [rows EXCEPT ![r] = NoRow]
        /\ op' = (IF DeleteRemote(r) THEN Push("delete", r, rows[r].id) ELSE Idle)
        /\ google' \in {google, Pending(1)}
    BY DEF Command, Delete
  <1>2. clock \in Nat /\ rows \in RowFcns BY DEF IdInv, IdType
  <1>3. r \in Rows BY DEF Stored
  <1>4. NoRow \in [val : Nat, id : Ids, uid : Nat, etag : Nat] /\ NoRow.id = 0 BY DEF NoRow, Ids
  <1>5. rows' \in RowFcns /\ \A s \in Rows : rows'[s] = IF s = r THEN NoRow ELSE rows[s]
    BY <1>1, <1>2, <1>3, <1>4 DEF RowFcns
  <1>6. 0 <= clock' /\ clock' \in {clock, clock + 1} BY <1>1, <1>2
  <1>7. \A s \in Rows : rows'[s].id <= clock' /\ (rows'[s] # NoRow => rows'[s].val \in 1..clock')
    BY <1>4, <1>5, <1>6, RowStamps
  <1>8. rows[r].id \in Ids /\ rows[r].id <= clock' BY <1>3, <1>6, RowStamps
  <1>9. \/ op'.pc = "idle"
        \/ op'.pc = "push" /\ op'.row = r /\ op'.id = rows[r].id /\ op'.kind = "delete" /\ rows[r].id # 0
    BY <1>1 DEF Idle, Push, DeleteRemote
  <1>. QED BY <1>1, <1>3, <1>5, <1>6, <1>7, <1>8, <1>9, IdCommand

-----------------------------------------------------------------------------
(* The push and what follows it *)

\* The server deletes a card that is there.
LEMMA IdRemoves ==
    ASSUME ById, IdInv, NEW i \in Stamps, Exists(i), cards' = Removed(i), clock' = clock + 1, provider' = provider
    PROVE  IdMove /\ Hidden' \subseteq Hidden
  <1>1. clock \in Nat /\ cards \in IdCards BY DEF IdInv, IdType
  <1>2. /\ cards' \in IdCards
        /\ \A j \in Stamps : /\ cards'[j].state = IF j = i THEN "dead" ELSE cards[j].state
                             /\ cards'[j].prev = cards[j].prev /\ cards'[j].val = cards[j].val
        /\ cards'[i].rev = clock + 1
    BY <1>1, IdRemoved
  <1>3. cards[i].state \in {"live", "hidden"} BY DEF Exists
  <1>4. \A n : n \in 1..clock => n \in 1..clock' BY <1>1
  <1>5. IdStep BY <1>2, <1>3, <1>4 DEF IdStep, IdInv, Filled
  <1>. QED BY <1>2, <1>5, IdStepMoves DEF Hidden

\* What the server does with a pushed change.
LEMMA IdServed ==
    ASSUME ById, IdInv, op.pc = "push", Accepted, Served, provider' = provider
    PROVE  /\ IdMove /\ Target \in Stamps /\ Target <= clock'
           /\ Hidden' \subseteq Hidden \cup {clock + 1}
  <1>1. /\ op.kind \in {"create", "update", "delete"} /\ op.row \in Rows /\ op.id \in Ids
        /\ op.kind # "delete" => Kept(op.row)
        /\ op.kind # "create" => op.id # 0
    BY DEF IdInv, IdOp
  <1>2. clock \in Nat /\ cards \in IdCards /\ rows \in RowFcns BY DEF IdInv, IdType
  <1>3. clock + 1 \in Stamps
    <2>1. Asked > 0 BY DEF Asked
    <2>. QED BY <2>1, IdStampLeft
  <1>4. clock' = IF cards' = cards THEN clock ELSE clock + 1 BY DEF Served
  <1>5. /\ \A n : n \in 1..clock => n \in 1..clock'
        /\ \A n \in Nat : n <= clock => n <= clock' /\ n # clock + 1
        /\ Stamps \subseteq Nat /\ clock + 1 # 0
    BY <1>2, <1>4, Numbers
  <1>6. \A i \in Stamps : cards[i].state # "none" => i <= clock' /\ i # clock + 1 BY <1>5 DEF IdInv, Aliases
  <1>7. CASE op.kind = "delete"
    <2>1. op.id \in Stamps BY <1>1, <1>7 DEF Ids
    <2>2. Target = Resolve(op.id) /\ Target \in Stamps BY <1>7, <2>1, IdResolve DEF Target, IdInv
    <2>3. Exists(Target) BY <1>7, <2>2 DEF Accepted
    <2>4. cards[Target].state \in {"live", "hidden"} BY <2>3 DEF Exists
    <2>5. cards' = Removed(Target) BY <1>7 DEF Served
    <2>6. cards' # cards
      <3>1. cards'[Target].state = "dead" BY <1>2, <2>2, <2>5, IdRemoved
      <3>. QED BY <2>4, <3>1
    <2>7. IdMove /\ Hidden' \subseteq Hidden BY <1>4, <2>2, <2>3, <2>5, <2>6, IdRemoves
    <2>. QED BY <1>6, <2>2, <2>4, <2>7
  <1>8. CASE op.kind # "delete"
    <2> DEFINE v == rows[op.row].val
               u == rows[op.row].uid
    <2>1. v \in 1..clock' /\ v \in 1..clock /\ v \in Nat /\ u \in Nat
      <3>1. v \in 1..clock BY <1>1, <1>8 DEF IdInv, Filled
      <3>2. v \in Nat /\ u \in Nat BY <1>1, <1>2 DEF RowFcns
      <3>. QED BY <1>5, <3>1, <3>2
    <2>2. Served => IF Exists(Target) THEN cards' = cards \/ cards' = Written(Target, v)
                    ELSE cards' = Added(Target, v, u, "live")
                         \/ (provider = "google" /\ cards' = Added(Target, v, u, "hidden"))
      BY <1>8 DEF Served
    <2> HIDE DEF v, u
    <2>3. CASE op.kind = "update"
      <3>1. op.id \in Stamps BY <1>1, <2>3 DEF Ids
      <3>2. Target = Resolve(op.id) /\ Target \in Stamps
        <4>1. provider # "carddav" BY DEF ById
        <4>. QED BY <2>3, <3>1, <4>1, IdResolve DEF Target, IdInv
      <3>3. Readable(Target)
        <4>1. CASE provider = "google" BY <2>3, <3>2, <4>1 DEF Accepted, GoogleAccepts
        <4>2. CASE provider = "graph" BY <2>3, <3>2, <4>2 DEF Accepted
        <4>. QED BY <4>1, <4>2 DEF ById
      <3>4. Exists(Target) /\ cards[Target].state = "live" BY <3>3 DEF Readable, Exists
      <3>5. CASE cards' = cards
        <4>1. IdStep BY <1>2, <1>4, <1>5, <3>5 DEF IdStep, IdInv, Filled
        <4>. QED BY <1>6, <3>2, <3>4, <3>5, <4>1, IdStepMoves DEF Hidden
      <3>6. CASE cards' = Written(Target, v)
        <4>1. /\ cards' \in IdCards
              /\ \A j \in Stamps : /\ cards'[j].state = cards[j].state /\ cards'[j].prev = cards[j].prev
                                   /\ cards'[j].val = IF j = Target THEN v ELSE cards[j].val
              /\ cards'[Target].rev = clock + 1
          BY <1>2, <2>1, <3>2, <3>6, IdWritten
        <4>2. IdStep BY <1>4, <1>5, <2>1, <3>2, <4>1 DEF IdStep, IdInv, Filled
        <4>. QED BY <1>6, <3>2, <3>4, <4>1, <4>2, IdStepMoves DEF Hidden
      <3>. QED BY <2>2, <3>4, <3>5, <3>6
    <2>4. CASE op.kind = "create"
      <3>1. Target = clock + 1 BY <2>4 DEF Target, ById
      <3>2. cards[clock + 1].state = "none" /\ ~Exists(Target) BY <1>3, <1>6, <3>1 DEF Exists
      <3>3. PICK st \in {"live", "hidden"} : cards' = Added(clock + 1, v, u, st) /\ (st = "hidden" => provider = "google")
        BY <2>2, <3>1, <3>2
      <3>4. /\ cards' \in IdCards
            /\ \A j \in Stamps : /\ cards'[j].state = IF j = clock + 1 THEN st ELSE cards[j].state
                                 /\ cards'[j].prev = IF j = clock + 1 THEN {} ELSE cards[j].prev
                                 /\ cards'[j].val = IF j = clock + 1 THEN v ELSE cards[j].val
            /\ cards'[clock + 1].rev = clock + 1
        <4>1. CASE st = "live"
          <5>1. cards' = Added(clock + 1, v, u, "live") BY <3>3, <4>1
          <5>2. /\ cards' \in IdCards
                /\ \A j \in Stamps : /\ cards'[j].state = IF j = clock + 1 THEN "live" ELSE cards[j].state
                                     /\ cards'[j].prev = IF j = clock + 1 THEN {} ELSE cards[j].prev
                                     /\ cards'[j].val = IF j = clock + 1 THEN v ELSE cards[j].val
                /\ cards'[clock + 1].rev = clock + 1
            BY <1>2, <1>3, <2>1, <5>1, IdAdded
          <5>. QED BY <4>1, <5>2
        <4>2. CASE st = "hidden" BY <1>2, <1>3, <2>1, <3>3, <4>2, IdAdded
        <4>. QED BY <4>1, <4>2
      <3>5. cards' # cards BY <1>3, <3>2, <3>4
      <3>6. clock' = clock + 1 /\ clock + 1 <= clock' BY <1>2, <1>4, <3>5
      <3>7. IdStep BY <1>3, <1>5, <2>1, <3>3, <3>4, <3>6 DEF IdStep, IdInv, Filled
      <3>. QED BY <1>3, <3>1, <3>4, <3>6, <3>7, IdStepMoves DEF Hidden
    <2>. QED BY <1>1, <1>8, <2>3, <2>4
  <1>. QED BY <1>7, <1>8

\* A change of cards that ends a request.
LEMMA IdAnswer ==
    ASSUME ById, IdInv, IdMove, provider' = provider, rows' = rows, google' = google,
           Hidden' \subseteq Hidden \cup {clock + 1},
           Asked = 2 \/ (Asked = 1 /\ Hidden' \subseteq Hidden),
           \/ op'.pc = "idle"
           \/ /\ op'.pc = "persist" /\ op.pc = "push" /\ op'.kind = op.kind /\ op'.row = op.row
              /\ op'.id \in Stamps /\ op'.id <= clock',
           budget' = budget \/ (budget > 0 /\ budget' = budget - 1)
    PROVE  IdInv'
  <1>1. Filled' /\ Absent' /\ clock \in Nat /\ clock' \in Nat /\ clock' <= clock + 1 BY IdMoveKeeps
  <1>2. budget \in Nat /\ budget' \in 0..Events /\ budget' \in Nat /\ budget' <= budget
    BY EventsAssumption DEF IdInv, IdType
  <1>3. IdType' BY <1>1, <1>2 DEF IdMove, IdInv, IdType
  <1>4. IdOp'
    <2>1. CASE op'.pc = "idle" BY <2>1 DEF IdOp
    <2>2. CASE op'.pc = "persist"
      <3>1. /\ op'.kind \in {"create", "update", "delete"} /\ op'.row \in Rows
            /\ op'.kind # "delete" => Kept(op.row)
        BY <2>2 DEF IdInv, IdOp
      <3>2. op'.id # 0 /\ op'.id \in Ids BY <2>2, Numbers DEF Ids
      <3>. QED BY <2>2, <3>1, <3>2 DEF IdOp, Kept
    <2>. QED BY <2>1, <2>2
  <1>5. IdClock'
    <2>1. Asked' = 0 BY DEF Asked
    <2>2. Cardinality(Hidden) \in Nat /\ IsFiniteSet(Hidden) /\ Hidden \subseteq Stamps /\ Hidden' \subseteq Stamps
      BY HiddenFinite DEF Hidden
    <2>3. /\ IsFiniteSet(Hidden \cup {clock + 1}) /\ Cardinality(Hidden \cup {clock + 1}) \in Nat
          /\ Cardinality(Hidden \cup {clock + 1}) <= Cardinality(Hidden) + 1
      <3>1. /\ IsFiniteSet(Hidden \cup {clock + 1})
            /\ \/ Cardinality(Hidden \cup {clock + 1}) = Cardinality(Hidden)
               \/ Cardinality(Hidden \cup {clock + 1}) = Cardinality(Hidden) + 1
        BY <2>2, FS_AddElement
      <3>. QED BY <2>2, <3>1
    <2>4. Cardinality(Hidden') \in Nat /\ Cardinality(Hidden') <= Cardinality(Hidden) + 1
      <3>1. Cardinality(Hidden') <= Cardinality(Hidden \cup {clock + 1}) /\ Cardinality(Hidden') \in Nat
        BY <2>3, FS_Subset, FS_CardinalityType
      <3>. QED BY <2>2, <2>3, <3>1
    <2>5. Asked = 1 => Cardinality(Hidden') <= Cardinality(Hidden) BY <2>2, HiddenFinite
    <2>6. clock + 3 * budget + Asked + Cardinality(Hidden) <= 3 + 3 * Events BY DEF IdInv, IdClock
    <2>7. clock' + 3 * budget' + Asked' + Cardinality(Hidden') <= 3 + 3 * Events
      <3>1. \A k, c, d, b, e, a, h, g \in Nat :
              /\ c <= d + 1 /\ b <= e /\ d + 3 * e + a + h <= k
              /\ (a = 2 /\ g <= h + 1) \/ (a = 1 /\ g <= h)
              => c + 3 * b + 0 + g <= k
        OBVIOUS
      <3>2. 3 + 3 * Events \in Nat /\ Asked \in Nat BY EventsAssumption DEF Asked
      <3>. QED BY <1>1, <1>2, <2>1, <2>2, <2>4, <2>5, <2>6, <3>1, <3>2
    <2>. QED BY <2>7 DEF IdClock
  <1>. QED BY <1>1, <1>3, <1>4, <1>5 DEF IdInv, IdMove

\* The repair takes ids away, never a row.
LEMMA RepairedIs ==
    ASSUME rows \in RowFcns, \A r \in Rows : rows[r] # NoRow => rows[r].val # 0
    PROVE  /\ Repaired(rows) \in RowFcns
           /\ \A r \in Rows : /\ Repaired(rows)[r].id \in {0, rows[r].id} /\ Repaired(rows)[r].val = rows[r].val
                              /\ Repaired(rows)[r] = NoRow <=> rows[r] = NoRow
  <1>1. \A r \in Rows : Repaired(rows)[r] \in {rows[r], [rows[r] EXCEPT !.id = 0]} BY DEF Repaired
  <1>2. NoRow.val = 0 /\ NoRow.id = 0 /\ 0 \in Ids BY DEF NoRow, Ids
  <1>3. ASSUME NEW r \in Rows
        PROVE  /\ Repaired(rows)[r] \in [val : Nat, id : Ids, uid : Nat, etag : Nat]
               /\ Repaired(rows)[r].id \in {0, rows[r].id} /\ Repaired(rows)[r].val = rows[r].val
               /\ Repaired(rows)[r] = NoRow <=> rows[r] = NoRow
    <2> DEFINE row == rows[r]
               new == Repaired(rows)[r]
    <2>1. row \in [val : Nat, id : Ids, uid : Nat, etag : Nat] BY DEF RowFcns
    <2>2. new = row \/ new = [row EXCEPT !.id = 0] BY <1>1
    <2>3. row # NoRow => row.val # 0 OBVIOUS
    <2>4. row = NoRow => new = row
      <3>1. row = NoRow => rows[r].id = 0 BY <1>2
      <3>. QED BY <3>1 DEF Repaired
    <2> HIDE DEF row, new
    <2>5. /\ new \in [val : Nat, id : Ids, uid : Nat, etag : Nat] /\ new.id \in {0, row.id} /\ new.val = row.val
      BY <1>2, <2>1, <2>2
    <2>6. new = NoRow <=> row = NoRow BY <1>2, <2>3, <2>4, <2>5
    <2>. QED BY <2>5, <2>6 DEF row, new
  <1>4. Repaired(rows) \in RowFcns
    <2>1. Repaired(rows) = [r \in Rows |-> Repaired(rows)[r]] BY DEF Repaired
    <2>. QED BY <1>3, <2>1 DEF RowFcns
  <1>. QED BY <1>3, <1>4

\* A command or sync ends, or goes on to its compensation, and the server's cards
\* stay.
LEMMA IdSettle ==
    ASSUME ById, IdInv, cards' = cards, clock' = clock, provider' = provider, google' = google,
           rows' = rows \/ (rows' = Repaired(rows) /\ op'.pc # "persist"),
           \/ op'.pc = "idle"
           \/ op'.pc = "undo" /\ op'.id \in Stamps /\ budget > 0 /\ budget' = budget - 1
           \/ /\ op'.pc = "persist" /\ op.pc = "push" /\ op.kind = "delete" /\ op'.kind = "delete"
              /\ op'.row = op.row /\ op'.id = op.id,
           budget' = budget \/ (budget > 0 /\ budget' = budget - 1)
    PROVE  IdInv'
  <1>1. clock \in Nat /\ budget \in Nat /\ budget' \in 0..Events /\ budget' \in Nat /\ google' \in GoogleType /\ rows \in RowFcns
    BY EventsAssumption DEF IdInv, IdType
  <1>2. Absent' BY IdAbsent
  <1>3. IdOp' BY DEF IdInv, IdOp
  <1>4. clock' + 3 * budget' + Asked' <= clock + 3 * budget + Asked
    <2>1. Asked \in Nat /\ (Asked' = 0 \/ (Asked' = 1 /\ budget' = budget - 1)) BY DEF Asked
    <2>. QED BY <1>1, <2>1
  <1>5. clock' \in {clock, clock + 1} OBVIOUS
  <1>6. \A r \in Rows : /\ rows[r].id <= clock' /\ rows[r].id \in Ids /\ rows[r].val \in Nat
                        /\ rows[r] # NoRow => rows[r].val \in 1..clock'
    BY <1>5, RowStamps
  <1>7. rows' \in RowFcns /\ \A r \in Rows : rows'[r].id <= clock' /\ (rows'[r] # NoRow => rows'[r].val \in 1..clock')
    <2>1. CASE rows' = rows BY <1>1, <1>6, <2>1
    <2>2. CASE rows' = Repaired(rows)
      <3>1. \A r \in Rows : rows[r] # NoRow => rows[r].val # 0 BY <1>1, <1>6
      <3>2. 0 <= clock' BY <1>1
      <3>. QED BY <1>1, <1>6, <2>2, <3>1, <3>2, RepairedIs
    <2>. QED BY <2>1, <2>2
  <1>. QED BY <1>1, <1>2, <1>3, <1>4, <1>5, <1>7, IdRowStep

\* The push is answered: done, or refused.
LEMMA IdPushStep ==
    ASSUME ById, IdInv, PushAnswered
    PROVE  IdInv'
  <1>1. op.pc = "push" /\ provider' = provider /\ rows' = rows /\ budget' = budget /\ google' = google
    BY DEF PushAnswered
  <1>2. CASE Accepted /\ Served /\ op' = [pc |-> "persist", kind |-> op.kind, row |-> op.row, id |-> Target]
    <2>1. Served /\ op' = [pc |-> "persist", kind |-> op.kind, row |-> op.row, id |-> Target] BY <1>2
    <2>2. op'.pc = "persist" /\ op'.kind = op.kind /\ op'.row = op.row /\ op'.id = Target BY <2>1
    <2>3. /\ IdMove /\ Target \in Stamps /\ Target <= clock'
          /\ Hidden' \subseteq Hidden \cup {clock + 1}
      BY <1>1, <1>2, <2>1, IdServed
    <2>4. Asked = 2 BY <1>1 DEF Asked
    <2>. QED BY <1>1, <2>2, <2>3, <2>4, IdAnswer
  <1>3. CASE /\ cards' = cards /\ clock' = clock
             /\ op' = IF op.kind = "delete" /\ provider = "google"
                      THEN [pc |-> "persist", kind |-> "delete", row |-> op.row, id |-> op.id] ELSE Idle
    <2>1. \/ op'.pc = "idle"
          \/ op'.pc = "persist" /\ op.kind = "delete" /\ op'.kind = "delete" /\ op'.row = op.row /\ op'.id = op.id
      BY <1>3 DEF Idle
    <2>. QED BY <1>1, <1>3, <2>1, IdSettle
  <1>. QED BY <1>2, <1>3 DEF PushAnswered

\* The compensating delete.
LEMMA IdUndoStep ==
    ASSUME ById, IdInv, Undo
    PROVE  IdInv'
  <1>1. /\ op.pc = "undo" /\ provider' = provider /\ rows' = rows /\ budget' = budget /\ op'.pc = "idle"
        /\ google' = google
    BY DEF Undo, Idle
  <1>2. op.id \in Stamps BY <1>1 DEF IdInv, IdOp
  <1>3. Resolve(op.id) \in Stamps BY <1>2, IdResolve DEF IdInv
  <1>4. CASE ~Exists(Resolve(op.id))
    <2>1. cards' = cards /\ clock' = clock BY <1>4 DEF Undo
    <2>. QED BY <1>1, <2>1, IdSettle
  <1>5. CASE Exists(Resolve(op.id))
    <2>1. cards' = Removed(Resolve(op.id)) /\ clock' = clock + 1 BY <1>5 DEF Undo
    <2>2. IdMove /\ Hidden' \subseteq Hidden BY <1>1, <1>3, <1>5, <2>1, IdRemoves
    <2>3. Asked = 1 BY <1>1 DEF Asked
    <2>. QED BY <1>1, <2>2, <2>3, IdAnswer
  <1>. QED BY <1>4, <1>5

\* A failure ends the operation or goes on to the compensation.
LEMMA IdFailStep ==
    ASSUME ById, IdInv, Fail
    PROVE  IdInv'
  <1>1. op.pc \in {"idle", "push", "persist", "undo", "page", "apply", "lookup"} BY DEF IdInv, IdOp
  <1>2. /\ budget > 0 /\ budget' = budget - 1 /\ provider' = provider /\ cards' = cards /\ google' = google
        /\ clock' = clock /\ (rows' = rows \/ rows' = Repaired(rows))
    BY <1>1 DEF Fail
  <1>3. op'.pc = "idle" \/ (op'.pc = "undo" /\ op'.id = op.id /\ op.pc = "persist" /\ op.kind = "create")
    BY <1>1 DEF Fail, Idle
  <1>4. op'.pc = "undo" => op'.id \in Stamps BY <1>3 DEF IdInv, IdOp, Ids
  <1>. QED BY <1>2, <1>3, <1>4, IdSettle

\* An answer is lost.
LEMMA IdLostStep ==
    ASSUME ById, IdInv, AnswerLost
    PROVE  IdInv'
  <1>1. budget > 0 /\ budget' = budget - 1 /\ provider' = provider /\ op'.pc = "idle" /\ google' = google
    BY DEF AnswerLost, Idle
  <1>2. op.pc = "push" /\ Accepted /\ Served /\ rows' = rows BY DEF AnswerLost, IdInv, IdOp
  <1>3. IdMove /\ Hidden' \subseteq Hidden \cup {clock + 1} BY <1>1, <1>2, IdServed
  <1>4. Asked = 2 BY <1>2 DEF Asked
  <1>. QED BY <1>1, <1>2, <1>3, <1>4, IdAnswer

\* persist_pushed_metadata.
LEMMA IdPersistStep ==
    ASSUME ById, IdInv, Persist
    PROVE  IdInv'
  <1>1. /\ op.pc = "persist" /\ provider' = provider /\ cards' = cards /\ clock' = clock /\ budget' = budget
        /\ op'.pc = "idle" /\ google' = Pending(-1)
    BY DEF Persist, Idle
  <1>2. clock \in Nat /\ rows \in RowFcns /\ budget \in 0..Events BY DEF IdInv, IdType
  <1>3. google' \in GoogleType /\ google'.absent = google.absent BY <1>1, PendingIs
  <1>4. clock' \in {clock, clock + 1} BY <1>1
  <1>5. Absent' BY <1>1, <1>3, <1>4, IdAbsent
  <1>6. IdOp' BY <1>1 DEF IdOp
  <1>7. \A r \in Rows : /\ rows[r].id <= clock' /\ rows[r].id \in Ids /\ rows[r].val \in Nat
                        /\ rows[r] # NoRow => rows[r].val \in 1..clock'
    BY <1>4, RowStamps
  <1>8. rows' \in RowFcns /\ \A r \in Rows : rows'[r].id <= clock' /\ (rows'[r] # NoRow => rows'[r].val \in 1..clock')
    <2>1. CASE op.kind = "delete"
      <3>1. rows' = rows BY <2>1 DEF Persist
      <3>. QED BY <1>2, <1>7, <3>1
    <2>2. CASE op.kind # "delete"
      <3> DEFINE r == op.row
                 row == rows[r]
                 id == IF op.kind = "create" \/ provider = "google" THEN op.id ELSE row.id
                 etag == CASE provider = "google" -> row.val [] provider = "carddav" -> 0 [] OTHER -> row.etag
                 one == [row EXCEPT !.id = id]
                 two == Returned(row)
                 R == [val : Nat, id : Ids, uid : Nat, etag : Nat]
      <3>1. r \in Rows /\ row # NoRow /\ op.id \in Ids /\ op.id <= clock BY <1>1, <2>2 DEF IdInv, IdOp, Kept
      <3>2. row \in R BY <1>2, <3>1 DEF RowFcns
      <3>3. id \in Ids /\ etag \in Nat /\ id <= clock' BY <1>1, <1>7, <3>1, <3>2 DEF ById
      <3>4. two = [one EXCEPT !.etag = etag] BY <3>2 DEF Returned
      <3>5. rows' = [rows EXCEPT ![r] = two] BY <1>2, <2>2, <3>1 DEF Persist, RowFcns
      <3>6. row.val \in 1..clock' BY <1>7, <3>1
      <3> HIDE DEF id, etag, two
      <3>7. one \in R /\ one.val = row.val /\ one.id = id BY <3>2, <3>3
      <3> HIDE DEF one, row
      <3>8. two \in R /\ two.val = one.val /\ two.id = one.id BY <3>3, <3>4, <3>7
      <3> HIDE DEF r
      <3>9. rows' \in RowFcns /\ \A s \in Rows : rows'[s] = IF s = r THEN two ELSE rows[s]
        BY <1>2, <3>1, <3>5, <3>8 DEF RowFcns
      <3>. QED BY <1>7, <3>3, <3>6, <3>7, <3>8, <3>9
    <2>. QED BY <2>1, <2>2
  <1>9. clock' + 3 * budget' + Asked' <= clock + 3 * budget + Asked
    <2>1. Asked = 0 /\ Asked' = 0 BY <1>1 DEF Asked
    <2>. QED BY <1>1, <1>2, <2>1
  <1>10. budget' \in 0..Events BY <1>1, <1>2
  <1>. QED BY <1>1, <1>3, <1>4, <1>5, <1>6, <1>8, <1>9, <1>10, IdRowStep

-----------------------------------------------------------------------------
(* Syncs *)

\* A sync begins or goes on: nothing but the operation and the budget changes.
LEMMA IdBegin ==
    ASSUME ById, IdInv, op = Idle \/ op.pc = "page", op'.pc \in {"idle", "page", "apply", "lookup"}, IdOp', budget' \in 0..budget,
           cards' = cards, clock' = clock, provider' = provider, google' = google, rows' = rows
    PROVE  IdInv'
  <1>1. clock \in Nat /\ budget \in Nat /\ budget' \in 0..Events /\ budget' \in Nat /\ budget' <= budget
        /\ google' \in GoogleType /\ rows' \in RowFcns
    BY EventsAssumption DEF IdInv, IdType
  <1>2. Absent' BY IdAbsent
  <1>3. Asked = 0 /\ Asked' = 0 BY DEF Asked, Idle
  <1>4. clock' + 3 * budget' + Asked' <= clock + 3 * budget + Asked
    <2>1. \A c, b, e \in Nat : b <= e => c + 3 * b + 0 <= c + 3 * e + 0 OBVIOUS
    <2>. QED BY <1>1, <1>3, <2>1
  <1>5. \A r \in Rows : rows'[r].id <= clock' /\ (rows'[r] # NoRow => rows'[r].val \in 1..clock') BY RowStamps
  <1>. QED BY <1>1, <1>2, <1>4, <1>5, IdRowStep

\* Graph lists its contacts, or the first page of them.
LEMMA IdListStep ==
    ASSUME ById, IdInv, SnapshotList
    PROVE  IdInv'
  <1>1. /\ provider' = provider /\ cards' = cards /\ clock' = clock /\ budget' = budget /\ rows' = rows
        /\ op = Idle /\ provider = "graph" /\ google' = google
    BY DEF SnapshotList, ById
  <1>2. PICK first \in SUBSET Live :
          op' = IF first = Live THEN Listed(Listing(first), FALSE)
                ELSE [pc |-> "page", seen |-> Listing(first), at |-> clock]
    BY <1>1 DEF SnapshotList
  <1>3. op'.pc \in {"apply", "page"} /\ op'.seen = Listing(first) BY <1>2 DEF Listed
  <1>4. DOMAIN op'.seen = first /\ \A i \in first : op'.seen[i].val = cards[i].val BY <1>3 DEF Listing
  <1>5. \A i \in Live : i \in Stamps /\ i <= clock /\ cards[i].val \in 1..clock
    BY DEF Live, IdInv, Aliases, Filled
  <1>6. \A i \in DOMAIN op'.seen : i \in Stamps /\ i <= clock' /\ op'.seen[i].val \in 1..clock' BY <1>1, <1>4, <1>5
  <1>7. clock \in Nat BY DEF IdInv, IdType
  <1>8. CASE first = Live
    <2>1. op'.pc = "apply" BY <1>2, <1>8 DEF Listed
    <2>2. \A r \in Rows : rows'[r].id # 0 /\ IsLive(rows[r].id)' => rows'[r].id \in DOMAIN op'.seen
      <3>1. \A r \in Rows : rows[r].id # 0 => rows[r].id \in Stamps BY DEF IdInv, IdType, RowFcns, Ids
      <3>. QED BY <1>1, <1>4, <1>8, <3>1 DEF Live, IsLive
    <2>3. IdOp' BY <1>1, <1>6, <2>1, <2>2 DEF IdOp
    <2>. QED BY <1>1, <1>3, <1>7, <2>3, IdBegin, EventsAssumption DEF IdInv, IdType
  <1>9. CASE first # Live
    <2>1. op'.pc = "page" /\ op'.at = clock BY <1>2, <1>9
    <2>2. DOMAIN op'.seen \subseteq Live' BY <1>1, <1>4 DEF Live
    <2>3. op'.at <= clock' BY <1>1, <1>7, <2>1
    <2>4. IdOp' BY <1>1, <1>6, <1>7, <2>1, <2>2, <2>3 DEF IdOp
    <2>. QED BY <1>1, <1>3, <1>7, <2>4, IdBegin, EventsAssumption DEF IdInv, IdType
  <1>. QED BY <1>8, <1>9

\* When nothing changed since the first page, what the second skips is the first.
LEMMA PagesMeet ==
    ASSUME NEW skip \in Skipped, DOMAIN op.seen \subseteq Live, \A i \in Stamps : ~Since(i)
    PROVE  Live \subseteq DOMAIN op.seen \cup (Live \ skip)
  <1> DEFINE first == DOMAIN op.seen
             c == Cardinality(Live)
             d == Cardinality(first)
  <1>1. /\ skip \subseteq Live /\ Cardinality(skip) = Min({c, d})
        /\ \A i \in skip \ first, j \in (first \cap Live) \ skip : Since(i) \/ Since(j)
    BY DEF Skipped
  <1>2. Live \subseteq Stamps /\ first \subseteq Live BY DEF Live
  <1>3. IsFiniteSet(Live) /\ IsFiniteSet(skip) /\ c \in Nat /\ d \in Nat /\ d <= c
    BY <1>1, <1>2, HiddenFinite
  <1>4. skip \ first = {} \/ first \ skip = {} BY <1>1, <1>2
  <1> HIDE DEF first
  <1>5. Min({c, d}) = d BY <1>3 DEF Min
  <1> HIDE DEF c
  <1>6. first \subseteq skip => first = skip BY <1>1, <1>3, <1>5, FS_Subset
  <1>7. skip \subseteq first BY <1>4, <1>6
  <1>. QED BY <1>7 DEF first

\* The second page.
LEMMA IdPageStep ==
    ASSUME ById, IdInv, GraphPage
    PROVE  IdInv'
  <1>1. /\ provider' = provider /\ cards' = cards /\ clock' = clock /\ budget' = budget /\ rows' = rows
        /\ op.pc = "page" /\ google' = google
    BY DEF GraphPage
  <1>2. /\ provider = "graph" /\ DOMAIN op.seen \subseteq Stamps
        /\ \A i \in DOMAIN op.seen : i <= clock /\ op.seen[i].val \in 1..clock
        /\ (\E i \in Stamps : Since(i)) \/ DOMAIN op.seen \subseteq Live
    BY <1>1 DEF IdInv, IdOp
  <1>3. PICK skip \in Skipped :
          LET rest == Listing(Live \ skip)
              both == DOMAIN op.seen \cap DOMAIN rest
              all == [i \in DOMAIN op.seen \cup DOMAIN rest |-> IF i \in DOMAIN rest THEN rest[i] ELSE op.seen[i]]
          IN op' = IF both = {} THEN Listed(all, \E i \in Stamps : Since(i)) ELSE Idle
    BY DEF GraphPage
  <1> DEFINE rest == Listing(Live \ skip)
             all == [i \in DOMAIN op.seen \cup DOMAIN rest |-> IF i \in DOMAIN rest THEN rest[i] ELSE op.seen[i]]
  <1>4. op' = Listed(all, \E i \in Stamps : Since(i)) \/ op' = Idle BY <1>3
  <1>5. DOMAIN rest = Live \ skip /\ \A i \in DOMAIN rest : rest[i].val = cards[i].val BY DEF Listing
  <1>6. \A i \in Live : i \in Stamps /\ i <= clock /\ cards[i].val \in 1..clock
    BY DEF Live, IdInv, Aliases, Filled
  <1>7. \A i \in DOMAIN all : i \in Stamps /\ i <= clock /\ all[i].val \in 1..clock
    <2> HIDE DEF rest
    <2>. QED BY <1>2, <1>5, <1>6
  <1>8. DOMAIN all = DOMAIN op.seen \cup (Live \ skip) BY <1>5
  <1> HIDE DEF rest, all
  <1>9. CASE op' = Idle
    <2>1. op'.pc = "idle" BY <1>9 DEF Idle
    <2>2. IdOp' BY <2>1 DEF IdOp
    <2>. QED BY <1>1, <2>1, <2>2, IdBegin, EventsAssumption DEF IdInv, IdType
  <1>10. CASE op' = Listed(all, \E i \in Stamps : Since(i))
    <2>1. op'.pc = "apply" /\ op'.seen = all /\ (op'.torn <=> \E i \in Stamps : Since(i)) BY <1>10 DEF Listed
    <2>2. op'.torn \/ \A r \in Rows : rows'[r].id # 0 /\ IsLive(rows[r].id)' => rows'[r].id \in DOMAIN op'.seen
      <3>1. CASE \E i \in Stamps : Since(i) BY <2>1, <3>1
      <3>2. CASE \A i \in Stamps : ~Since(i)
        <4>1. Live \subseteq DOMAIN all BY <1>2, <1>8, <3>2, PagesMeet
        <4>2. \A r \in Rows : rows[r].id # 0 => rows[r].id \in Stamps BY DEF IdInv, IdType, RowFcns, Ids
        <4>. QED BY <1>1, <2>1, <4>1, <4>2 DEF Live, IsLive
      <3>. QED BY <3>1, <3>2
    <2>3. IdOp' BY <1>1, <1>2, <1>7, <2>1, <2>2 DEF IdOp
    <2>. QED BY <1>1, <2>1, <2>3, IdBegin, EventsAssumption DEF IdInv, IdType
  <1>. QED BY <1>4, <1>9, <1>10

\* Google lists what changed, and names the contacts that are gone.
LEMMA IdGoogleListStep ==
    ASSUME ById, IdInv, GoogleList
    PROVE  IdInv'
  <1>1. /\ provider' = provider /\ cards' = cards /\ clock' = clock /\ rows' = rows
        /\ op = Idle /\ provider = "google" /\ google' = google
    BY DEF GoogleList
  <1>2. budget \in Nat /\ clock \in Nat /\ cards \in IdCards BY EventsAssumption DEF IdInv, IdType
  <1>3. PICK from \in {0, Cursor} :
          /\ budget' = (IF from = Cursor THEN budget ELSE budget - 1) /\ budget' >= 0
          /\ op' = [pc |-> "lookup", full |-> from = 0, goal |-> clock,
                    listed |-> [i \in {i \in Live : cards[i].rev > from} |-> cards[i].prev],
                    deleted |-> IF from = 0 THEN {}
                                ELSE {i \in Stamps : cards[i].state = "dead" /\ cards[i].rev > from}
                                     \cup UNION {cards[i].prev : i \in {j \in Stamps : cards[j].state = "dead" /\ cards[j].rev > from}}]
    BY DEF GoogleList
  <1>4. budget' \in 0..budget BY <1>2, <1>3
  <1>5. op'.pc = "lookup" /\ op'.goal = clock /\ DOMAIN op'.listed \subseteq Live BY <1>3
  <1>6. \A n \in op'.deleted : n \in Stamps /\ GoneName(n)
    <2> DEFINE dead == {i \in Stamps : cards[i].state = "dead" /\ cards[i].rev > from}
    <2>1. op'.deleted \subseteq dead \cup UNION {cards[i].prev : i \in dead} BY <1>3
    <2>2. \A i \in dead : i \in Stamps /\ cards[i].state = "dead" /\ cards[i].prev \subseteq Stamps BY <1>2 DEF IdCards
    <2> HIDE DEF dead
    <2>3. \A n \in op'.deleted : n \in dead \/ \E j \in dead : n \in cards[j].prev BY <2>1
    <2>. QED BY <2>2, <2>3 DEF GoneName
  <1>7. \A i \in Live : i \in Stamps /\ i <= clock BY DEF Live, IdInv, Aliases
  <1>8. IdOp'
    <2>1. \A n \in op'.deleted : GoneName(n)' BY <1>1, <1>6 DEF GoneName
    <2>. QED BY <1>1, <1>2, <1>5, <1>6, <1>7, <2>1 DEF IdOp
  <1>. QED BY <1>1, <1>4, <1>5, <1>8, IdBegin

\* A row that may be stored: its id was given, and it has contents.
Sound(row) == row \in RowSet /\ row.id <= clock /\ (row # NoRow => row.val \in 1..clock)

\* New rows join sound ones.
LEMMA InsertedSound ==
    ASSUME clock \in Nat, NEW rs, \A r \in Rows : Sound(rs[r]), NEW new, \A n \in new : Sound(n) /\ n # NoRow
    PROVE  \A r \in Rows : Sound(Inserted(rs, new)[r]) /\ (Inserted(rs, new)[r] = NoRow => rs[r] = NoRow)
  <1>1. PICK slot : \A r \in Rows : \/ Inserted(rs, new)[r] = rs[r]
                                    \/ \E n \in new : slot[n] = r /\ Inserted(rs, new)[r] = n
    BY InsertedIs
  <1>. QED BY <1>1

\* A sync ends with sound rows.
LEMMA IdEnd ==
    ASSUME ById, IdInv, op.pc \in {"apply", "lookup"}, op'.pc = "idle", budget' = budget, cards' = cards, clock' = clock,
           provider' = provider, google' \in GoogleType, Absent', rows' = [r \in Rows |-> rows'[r]],
           \A r \in Rows : Sound(rows'[r])
    PROVE  IdInv'
  <1>1. rows' \in RowFcns BY DEF RowFcns, Sound, RowSet
  <1>2. budget' \in 0..Events /\ budget \in Nat /\ clock \in Nat BY EventsAssumption DEF IdInv, IdType
  <1>3. IdOp' BY DEF IdOp
  <1>4. Asked = 0 /\ Asked' = 0 BY DEF Asked
  <1>5. clock' + 3 * budget' + Asked' <= clock + 3 * budget + Asked BY <1>2, <1>4
  <1>6. \A r \in Rows : rows'[r].id <= clock' /\ (rows'[r] # NoRow => rows'[r].val \in 1..clock') BY DEF Sound
  <1>. QED BY <1>1, <1>2, <1>3, <1>5, <1>6, IdRowStep

\* The rows, and the repaired rows, are sound.
LEMMA RowsSound ==
    ASSUME IdInv
    PROVE  /\ \A r \in Rows : Sound(rows[r]) /\ Sound(Repaired(rows)[r])
           /\ \A r \in Rows : Repaired(rows)[r].id \in {0, rows[r].id} /\ (Repaired(rows)[r] = NoRow <=> rows[r] = NoRow)
  <1>1. clock \in Nat /\ rows \in RowFcns BY DEF IdInv, IdType
  <1>2. \A r \in Rows : rows[r].id <= clock /\ (rows[r] # NoRow => rows[r].val \in 1..clock) BY DEF IdInv, Filled, Kept
  <1>3. \A r \in Rows : rows[r] # NoRow => rows[r].val # 0 BY <1>1, <1>2
  <1>4. /\ Repaired(rows) \in RowFcns
        /\ \A r \in Rows : /\ Repaired(rows)[r].id \in {0, rows[r].id} /\ Repaired(rows)[r].val = rows[r].val
                           /\ Repaired(rows)[r] = NoRow <=> rows[r] = NoRow
    BY <1>1, <1>3, RepairedIs
  <1>5. 0 <= clock BY <1>1
  <1>6. \A r \in Rows : rows[r] \in RowSet /\ Repaired(rows)[r] \in RowSet BY <1>1, <1>4 DEF RowFcns, RowSet
  <1>. QED BY <1>2, <1>4, <1>5, <1>6 DEF Sound

\* Graph's listing makes sound rows of sound rows, and loses none.
LEMMA GraphUpserted ==
    ASSUME provider = "graph", clock \in Nat, NEW rs, \A r \in Rows : Sound(rs[r]),
           NEW seen, DOMAIN seen \subseteq Stamps, \A i \in DOMAIN seen : i <= clock /\ seen[i].val \in 1..clock,
           NEW mine, NEW first, first \subseteq DOMAIN seen
    PROVE  \A r \in Rows : /\ Sound(Upserted(rs, seen, mine, first)[r])
                           /\ Upserted(rs, seen, mine, first)[r] = NoRow => rs[r] = NoRow
  <1> DEFINE rowOf(r) == {i \in first : r \in mine \cap Match(rs, i, seen[i])}
             new == {i \in DOMAIN seen : i \notin first \/ Match(rs, i, seen[i]) = {}}
             patched == [r \in Rows |-> IF rowOf(r) = {} THEN rs[r]
                                        ELSE LET i == CHOOSE i \in rowOf(r) : TRUE
                                             IN Patched(rs[r], i, seen[i])]
             added == {NewRow(i, seen[i]) : i \in new}
  <1>1. Upserted(rs, seen, mine, first) = Inserted(patched, added) BY DEF Upserted
  <1>2. \A i \in DOMAIN seen : i \in Stamps /\ i <= clock /\ seen[i].val \in 1..clock /\ seen[i].val \in Nat /\ seen[i].val # 0
    OBVIOUS
  <1>3. ASSUME NEW row \in RowSet, NEW i \in DOMAIN seen
        PROVE  Sound(Patched(row, i, seen[i])) /\ Patched(row, i, seen[i]) # NoRow
    <2> DEFINE v == seen[i].val
               one == [row EXCEPT !.val = v]
               two == [one EXCEPT !.id = i]
    <2>1. v \in Nat /\ v \in 1..clock /\ i \in Stamps /\ i <= clock /\ v # 0 BY <1>2
    <2>2. Patched(row, i, seen[i]) = two BY DEF Patched, RowSet
    <2> HIDE DEF v
    <2>3. one \in RowSet /\ one.val = v BY <2>1 DEF RowSet
    <2> HIDE DEF one
    <2>4. two \in RowSet /\ two.val = v /\ two.id = i BY <2>1, <2>3 DEF RowSet, Ids
    <2> HIDE DEF two
    <2>5. two # NoRow BY <2>1, <2>4 DEF NoRow
    <2>. QED BY <2>1, <2>2, <2>4, <2>5 DEF Sound
  <1>4. ASSUME NEW i \in DOMAIN seen PROVE Sound(NewRow(i, seen[i])) /\ NewRow(i, seen[i]) # NoRow
    <2> DEFINE v == seen[i].val
               one == [NoRow EXCEPT !.val = v]
               two == [one EXCEPT !.id = i]
               three == [two EXCEPT !.uid = 0]
               four == [three EXCEPT !.etag = 0]
    <2>1. v \in Nat /\ v \in 1..clock /\ i \in Stamps /\ i <= clock /\ v # 0 BY <1>2
    <2>2. NewRow(i, seen[i]) = four BY DEF NewRow, NoRow
    <2>3. one = [val |-> v, id |-> 0, uid |-> 0, etag |-> 0] BY DEF NoRow
    <2> HIDE DEF v, one
    <2>4. two = [val |-> v, id |-> i, uid |-> 0, etag |-> 0] BY <2>3
    <2> HIDE DEF two
    <2>5. three = [val |-> v, id |-> i, uid |-> 0, etag |-> 0] BY <2>4
    <2> HIDE DEF three
    <2>6. four = [val |-> v, id |-> i, uid |-> 0, etag |-> 0] BY <2>5
    <2> HIDE DEF four
    <2>7. four \in RowSet /\ four.val = v /\ four.id = i BY <2>1, <2>6 DEF RowSet, Ids
    <2>8. four # NoRow BY <2>1, <2>7 DEF NoRow
    <2>. QED BY <2>1, <2>2, <2>7, <2>8 DEF Sound
  <1>5. ASSUME NEW r \in Rows PROVE Sound(patched[r]) /\ (patched[r] = NoRow => rs[r] = NoRow)
    <2>1. CASE rowOf(r) = {} BY <2>1
    <2>2. CASE rowOf(r) # {}
      <3> DEFINE i == CHOOSE i \in rowOf(r) : TRUE
      <3>1. i \in rowOf(r) BY <2>2
      <3>2. patched[r] = Patched(rs[r], i, seen[i]) BY <2>2
      <3>3. i \in DOMAIN seen BY <3>1
      <3> HIDE DEF i, patched
      <3>4. rs[r] \in RowSet BY DEF Sound
      <3>. QED BY <1>3, <3>2, <3>3, <3>4
    <2>. QED BY <2>1, <2>2
  <1>6. \A n \in added : Sound(n) /\ n # NoRow BY <1>4
  <1> HIDE DEF patched, added
  <1>7. \A r \in Rows : Sound(Inserted(patched, added)[r]) /\ (Inserted(patched, added)[r] = NoRow => patched[r] = NoRow)
    BY <1>5, <1>6, InsertedSound
  <1>. QED BY <1>1, <1>5, <1>7

\* A row whose contact is not on the server has no contact.
LEMMA NoContact ==
    ASSUME ById, NEW row, row.id \in Stamps, ~Exists(Resolve(row.id))
    PROVE  ContactOf(row) = {}
  BY DEF ContactOf, ById

\* Graph's listing is applied: a row goes when its card was not listed, and a card
\* that is still there was, unless something changed between the pages.
LEMMA IdApplyStep ==
    ASSUME ById, IdInv, SnapshotApply
    PROVE  /\ IdInv'
           /\ \A r \in Stored(rows) : rows[r].id # 0 /\ rows'[r] = NoRow => ContactOf(rows[r]) = {} \/ op.torn
  <1>1. /\ op.pc = "apply" /\ provider' = provider /\ cards' = cards /\ clock' = clock /\ budget' = budget
        /\ google' = google
    BY DEF SnapshotApply
  <1>2. /\ provider = "graph" /\ DOMAIN op.seen \subseteq Stamps
        /\ \A i \in DOMAIN op.seen : i <= clock /\ op.seen[i].val \in 1..clock
        /\ op.torn \/ \A r \in Rows : rows[r].id # 0 /\ IsLive(rows[r].id) => rows[r].id \in DOMAIN op.seen
    BY <1>1 DEF IdInv, IdOp
  <1> DEFINE rs == Repaired(rows)
             mine == Stored(rs)
             up == Upserted(rs, op.seen, mine, DOMAIN op.seen)
             gone == Orphans(rs, op.seen, mine)
  <1>13. RowPicks(rs) = {mine} /\ CardPicks(op.seen) = {DOMAIN op.seen} BY <1>2 DEF RowPicks, CardPicks, Picks
  <1>3. rows' = Without(up, gone) /\ op' = Idle
    BY <1>2, <1>13 DEF SnapshotApply, Ambiguous, Reconciled
  <1>4. clock \in Nat /\ google \in GoogleType BY DEF IdInv, IdType
  <1>5. /\ \A r \in Rows : Sound(rs[r]) /\ rs[r].id \in {0, rows[r].id} /\ (rs[r] = NoRow <=> rows[r] = NoRow)
    BY RowsSound
  <1> HIDE DEF rs
  <1>6. \A r \in Rows : Sound(up[r]) /\ (up[r] = NoRow => rs[r] = NoRow) BY <1>2, <1>4, <1>5, GraphUpserted
  <1>7. gone = {r \in Rows : /\ rs[r] # NoRow /\ rs[r].id # 0
                             /\ \A i \in DOMAIN op.seen : ~(rs[r] # NoRow /\ rs[r].id = i)}
    BY <1>2 DEF Orphans, Match, Holders, Stored
  <1>8. rows' = [r \in Rows |-> IF r \in gone THEN NoRow ELSE up[r]] BY <1>3 DEF Without
  <1> HIDE DEF up, gone
  <1>9. Sound(NoRow)
    <2>1. NoRow \in RowSet /\ NoRow.id = 0 BY DEF NoRow, RowSet, Ids
    <2>. QED BY <1>4, <2>1 DEF Sound
  <1>10. \A r \in Rows : Sound(rows'[r]) BY <1>6, <1>8, <1>9
  <1>11. IdInv'
    <2>1. Absent' BY <1>1, IdAbsent
    <2>2. op'.pc = "idle" BY <1>3 DEF Idle
    <2>3. rows' = [r \in Rows |-> rows'[r]] BY <1>8
    <2>. QED BY <1>1, <1>4, <1>10, <2>1, <2>2, <2>3, IdEnd
  <1>12. ASSUME ~op.torn, NEW r \in Stored(rows), rows[r].id # 0, rows'[r] = NoRow PROVE ContactOf(rows[r]) = {}
    <2>1. r \in Rows /\ rows[r] # NoRow BY DEF Stored
    <2>2. rs[r] # NoRow BY <1>5, <2>1
    <2>3. r \in gone BY <1>6, <1>8, <1>12, <2>1, <2>2
    <2>4. rs[r].id = rows[r].id /\ rows[r].id \notin DOMAIN op.seen BY <1>5, <1>7, <2>1, <2>3
    <2>5. rows[r].id \in Stamps BY <1>12, <2>1 DEF IdInv, IdType, RowFcns, Ids
    <2>6. cards[rows[r].id].state \notin {"live", "hidden", "moved"}
      <3>1. ~IsLive(rows[r].id) BY <1>2, <1>12, <2>1, <2>4
      <3>. QED BY <1>2, <2>5, <3>1 DEF IsLive, IdInv, Aliases
    <2>7. ~Exists(Resolve(rows[r].id)) BY <2>6 DEF Resolve, Exists
    <2>. QED BY <2>5, <2>7, NoContact
  <1>. QED BY <1>11, <1>12

\* Looked-up names were given, and an answer tells what the name stands for.
LEMMA FoundIs ==
    ASSUME ById, IdInv, op.pc = "lookup"
    PROVE  /\ DOMAIN Found = LookupNames
           /\ \A n \in LookupNames : /\ n \in Stamps /\ n <= clock
                                     /\ \/ Found[n] = Missing /\ ~Readable(Resolve(n))
                                        \/ Found[n] # Missing /\ Found[n].id = Resolve(n) /\ Readable(Resolve(n))
  <1>1. /\ DOMAIN op.listed \subseteq Stamps /\ \A i \in DOMAIN op.listed : i <= clock BY DEF IdInv, IdOp
  <1>2. \A n \in Known : n \in Stamps /\ n <= clock
    <2>1. \A r \in Rows : rows[r].id \in Ids /\ rows[r].id <= clock BY DEF IdInv, IdType, RowFcns, Filled
    <2>. QED BY <2>1 DEF Known, Stored, Ids
  <1>3. \A n \in LookupNames : n \in Stamps /\ n <= clock BY <1>1, <1>2 DEF LookupNames
  <1>4. ASSUME NEW n \in LookupNames
        PROVE  \/ Found[n] = Missing /\ ~Readable(Resolve(n))
               \/ Found[n] # Missing /\ Found[n].id = Resolve(n) /\ Readable(Resolve(n))
    <2>1. Found[n] = IF Readable(Resolve(n)) THEN [id |-> Resolve(n), val |-> cards[Resolve(n)].val] ELSE Missing
      BY DEF Found
    <2>2. CASE ~Readable(Resolve(n)) BY <2>1, <2>2
    <2>3. CASE Readable(Resolve(n))
      <3>1. Found[n].id = Resolve(n) BY <2>1, <2>3
      <3>2. Resolve(n) # 0 /\ Missing.id = 0 BY <2>3 DEF Readable, Missing
      <3>. QED BY <2>3, <3>1, <3>2
    <2>. QED BY <2>2, <2>3
  <1>5. DOMAIN Found = LookupNames BY DEF Found
  <1>. QED BY <1>3, <1>4, <1>5

\* The contacts found are on the server, and readable.
LEMMA AggregatesAre ==
    ASSUME ById, IdInv, op.pc = "lookup"
    PROVE  \A i \in DOMAIN Aggregates(Found) :
             /\ i \in Stamps /\ i <= clock
             /\ Aggregates(Found)[i].val = cards[i].val /\ cards[i].val \in 1..clock
  <1> DEFINE agg == Aggregates(Found)
  <1>1. DOMAIN agg = {Found[n].id : n \in DOMAIN Found} \ {0} /\ \A i \in DOMAIN agg : agg[i].val = cards[i].val
    BY DEF Aggregates
  <1> HIDE DEF agg
  <1>2. ASSUME NEW i \in DOMAIN agg PROVE i \in Stamps /\ cards[i].state = "live"
    <2>1. PICK n \in LookupNames : i = Found[n].id BY <1>1, FoundIs
    <2>2. i # 0 /\ Missing.id = 0 BY <1>1 DEF Missing
    <2>3. n \in Stamps /\ i = Resolve(n) /\ Readable(Resolve(n)) BY <2>1, <2>2, FoundIs
    <2>4. Resolve(n) \in Stamps BY <2>3, IdResolve DEF IdInv
    <2>. QED BY <2>3, <2>4 DEF Readable
  <1>3. \A i \in DOMAIN agg : i <= clock /\ cards[i].val \in 1..clock BY <1>2 DEF IdInv, Aliases, Filled
  <1>. QED BY <1>1, <1>2, <1>3 DEF agg

\* A delta makes sound rows of sound rows, and takes away what it deletes.
LEMMA GoogleRowsSound ==
    ASSUME clock \in Nat, NEW rs, \A r \in Rows : Sound(rs[r]),
           NEW agg, \A i \in DOMAIN agg : i \in Stamps /\ i <= clock /\ agg[i].val \in 1..clock,
           NEW deleted
    PROVE  /\ GoogleRows(rs, agg, deleted) = [r \in Rows |-> GoogleRows(rs, agg, deleted)[r]]
           /\ \A r \in Rows : /\ Sound(GoogleRows(rs, agg, deleted)[r])
                              /\ GoogleRows(rs, agg, deleted)[r] = NoRow => rs[r] = NoRow \/ rs[r].id \in deleted
  <1> DEFINE detail(r) == {i \in DOMAIN agg : r \in RowsOf(rs, agg, i)}
             patched == [r \in Rows |->
                           IF rs[r].id \in deleted THEN NoRow
                           ELSE IF detail(r) = {} THEN rs[r]
                           ELSE LET i == CHOOSE i \in detail(r) : TRUE
                                IN [rs[r] EXCEPT !.val = agg[i].val, !.id = i, !.etag = agg[i].val]]
             new == {i \in DOMAIN agg : RowsOf(rs, agg, i) = {}}
             added == {[val |-> agg[i].val, id |-> i, uid |-> 0, etag |-> agg[i].val] : i \in new}
  <1>1. GoogleRows(rs, agg, deleted) = Inserted(patched, added) BY DEF GoogleRows
  <1>2. \A i \in DOMAIN agg : i \in Stamps /\ i <= clock /\ agg[i].val \in 1..clock /\ agg[i].val \in Nat /\ agg[i].val # 0
    OBVIOUS
  <1>3. ASSUME NEW row \in RowSet, NEW i \in DOMAIN agg
        PROVE  LET out == [row EXCEPT !.val = agg[i].val, !.id = i, !.etag = agg[i].val]
               IN Sound(out) /\ out # NoRow
    <2> DEFINE v == agg[i].val
               one == [row EXCEPT !.val = v]
               two == [one EXCEPT !.id = i]
               three == [two EXCEPT !.etag = v]
               out == [row EXCEPT !.val = agg[i].val, !.id = i, !.etag = agg[i].val]
    <2>1. v \in Nat /\ v \in 1..clock /\ i \in Stamps /\ i <= clock /\ v # 0 BY <1>2
    <2>2. out = three BY DEF RowSet
    <2> HIDE DEF v, out
    <2>3. one \in RowSet /\ one.val = v BY <2>1 DEF RowSet
    <2> HIDE DEF one
    <2>4. two \in RowSet /\ two.val = v /\ two.id = i BY <2>1, <2>3 DEF RowSet, Ids
    <2> HIDE DEF two
    <2>5. three \in RowSet /\ three.val = v /\ three.id = i BY <2>1, <2>4 DEF RowSet
    <2> HIDE DEF three
    <2>6. three # NoRow BY <2>1, <2>5 DEF NoRow
    <2>7. Sound(out) /\ out # NoRow BY <2>1, <2>2, <2>5, <2>6 DEF Sound
    <2>. QED BY <2>7 DEF out
  <1>4. ASSUME NEW i \in DOMAIN agg
        PROVE  LET out == [val |-> agg[i].val, id |-> i, uid |-> 0, etag |-> agg[i].val]
               IN Sound(out) /\ out # NoRow
    <2> DEFINE v == agg[i].val
               out == [val |-> v, id |-> i, uid |-> 0, etag |-> v]
    <2>1. v \in Nat /\ v \in 1..clock /\ i \in Stamps /\ i <= clock /\ v # 0 BY <1>2
    <2> HIDE DEF v
    <2>2. out \in RowSet /\ out.val = v /\ out.id = i BY <2>1 DEF RowSet, Ids
    <2> HIDE DEF out
    <2>3. out # NoRow BY <2>1, <2>2 DEF NoRow
    <2>4. Sound(out) /\ out # NoRow BY <2>1, <2>2, <2>3 DEF Sound
    <2>. QED BY <2>4 DEF out, v
  <1>5. Sound(NoRow)
    <2>1. NoRow \in RowSet /\ NoRow.id = 0 BY DEF NoRow, RowSet, Ids
    <2>. QED BY <2>1 DEF Sound
  <1>6. ASSUME NEW r \in Rows
        PROVE  Sound(patched[r]) /\ (patched[r] = NoRow => rs[r] = NoRow \/ rs[r].id \in deleted)
    <2>1. CASE rs[r].id \in deleted BY <1>5, <2>1
    <2>2. CASE rs[r].id \notin deleted /\ detail(r) = {} BY <2>2
    <2>3. CASE rs[r].id \notin deleted /\ detail(r) # {}
      <3> DEFINE i == CHOOSE i \in detail(r) : TRUE
      <3>1. i \in detail(r) BY <2>3
      <3>2. patched[r] = [rs[r] EXCEPT !.val = agg[i].val, !.id = i, !.etag = agg[i].val] BY <2>3
      <3>3. i \in DOMAIN agg BY <3>1
      <3> HIDE DEF i, patched
      <3>4. rs[r] \in RowSet BY DEF Sound
      <3>. QED BY <1>3, <3>2, <3>3, <3>4, Zenon
    <2>. QED BY <2>1, <2>2, <2>3
  <1>7. \A n \in added : Sound(n) /\ n # NoRow BY <1>4
  <1> HIDE DEF patched, added
  <1>8. \A r \in Rows : Sound(Inserted(patched, added)[r]) /\ (Inserted(patched, added)[r] = NoRow => patched[r] = NoRow)
    BY <1>6, <1>7, InsertedSound
  <1>9. Inserted(patched, added) = [r \in Rows |-> Inserted(patched, added)[r]] BY DEF Inserted
  <1>. QED BY <1>1, <1>6, <1>8, <1>9

\* The later of a new absence and what was noted of it.
LEMMA MaxOfAbsence ==
    ASSUME NEW x \in 0..2
    PROVE  Max({1, x}) = IF x = 2 THEN 2 ELSE 1
  <1> DEFINE m == IF x = 2 THEN 2 ELSE 1
  <1>1. m \in {1, x} /\ \A y \in {1, x} : m >= y OBVIOUS
  <1>2. \A z \in {1, x} : (\A y \in {1, x} : z >= y) => z = m OBVIOUS
  <1> HIDE DEF m
  <1>3. Max({1, x}) = m BY <1>1, <1>2 DEF Max
  <1>. QED BY <1>3 DEF m

\* Google's delta is applied: a row goes when its contact was deleted, or was
\* missing twice and had its time to appear.
LEMMA IdMergeStep ==
    ASSUME ById, IdInv, GoogleMerge
    PROVE  /\ IdInv'
           /\ \A r \in Stored(rows) : rows[r].id # 0 /\ rows'[r] = NoRow => ContactOf(rows[r]) = {}
  <1>1. /\ op.pc = "lookup" /\ provider' = provider /\ cards' = cards /\ clock' = clock /\ budget' = budget
        /\ op'.pc = "idle"
    BY DEF GoogleMerge, Idle
  <1>2. clock \in Nat /\ google \in GoogleType BY DEF IdInv, IdType
  <1>3. op.goal \in Nat /\ op.deleted \subseteq Stamps /\ \A n \in op.deleted : GoneName(n)
    BY <1>1 DEF IdInv, IdOp
  <1> DEFINE agg == Aggregates(Found)
             rs == Repaired(rows)
             missing == {n \in DOMAIN Found : Found[n] = Missing}
             absent == missing \ AliasesOf(agg)
             settled == DOMAIN Found \cup AliasesOf(agg) \cup op.deleted
             gone == op.deleted \cup Confirmed(absent)
             noted == Absences(settled, absent)
  <1>4. \/ rows' = rows /\ google' = google
        \/ /\ rows' = GoogleRows(rs, agg, gone)
           /\ google' = [token |-> op.goal, absent |-> noted, recoveries |-> 0]
    BY DEF GoogleMerge
  <1>5. \A n \in absent : n \in Stamps /\ n <= clock /\ ~Readable(Resolve(n)) BY <1>1, FoundIs
  <1>6. \A i \in DOMAIN agg : i \in Stamps /\ i <= clock /\ agg[i].val \in 1..clock BY <1>1, AggregatesAre
  <1>7. /\ \A r \in Rows : Sound(rows[r]) /\ Sound(rs[r])
        /\ \A r \in Rows : rs[r].id \in {0, rows[r].id} /\ (rs[r] = NoRow <=> rows[r] = NoRow)
    BY RowsSound
  <1> HIDE DEF agg, rs, absent, settled
  <1>9. \A n \in gone : n \in op.deleted \/ (n \in absent /\ google.absent[n] = 2) BY DEF Confirmed
  <1> HIDE DEF gone
  <1>8. /\ GoogleRows(rs, agg, gone) = [r \in Rows |-> GoogleRows(rs, agg, gone)[r]]
        /\ \A r \in Rows : /\ Sound(GoogleRows(rs, agg, gone)[r])
                           /\ GoogleRows(rs, agg, gone)[r] = NoRow => rs[r] = NoRow \/ rs[r].id \in gone
    BY <1>2, <1>6, <1>7, GoogleRowsSound
  <1>10. /\ noted \in [Stamps -> 0..2]
         /\ \A i \in Stamps : /\ noted[i] # 0 => i \in absent \/ google.absent[i] # 0
                              /\ noted[i] = 2 => google.absent[i] = 2
    <2>1. noted = [i \in Stamps |->
                     IF i \in absent \ Confirmed(absent) THEN Max({1, google.absent[i]})
                     ELSE IF i \in Known \ (settled \cup absent) THEN google.absent[i] ELSE 0]
      BY DEF Absences
    <2>2. \A i \in Stamps : google.absent[i] \in 0..2 BY <1>2 DEF GoogleType
    <2>3. \A i \in Stamps : Max({1, google.absent[i]}) = IF google.absent[i] = 2 THEN 2 ELSE 1 BY <2>2, MaxOfAbsence
    <2> HIDE DEF noted
    <2>4. \A i \in Stamps : \/ noted[i] = Max({1, google.absent[i]}) /\ i \in absent
                            \/ noted[i] = google.absent[i]
                            \/ noted[i] = 0
      BY <2>1
    <2>5. ASSUME NEW i \in Stamps
          PROVE  /\ noted[i] \in 0..2 /\ (noted[i] # 0 => i \in absent \/ google.absent[i] # 0)
                 /\ noted[i] = 2 => google.absent[i] = 2
      <3> DEFINE a == google.absent[i]
                 m == IF a = 2 THEN 2 ELSE 1
      <3>1. a \in 0..2 /\ m \in 0..2 /\ (m = 2 => a = 2) BY <2>2
      <3>2. (noted[i] = m /\ i \in absent) \/ noted[i] = a \/ noted[i] = 0 BY <2>3, <2>4
      <3> HIDE DEF m
      <3>. QED BY <3>1, <3>2
    <2>6. noted = [i \in Stamps |-> noted[i]] BY <2>1
    <2>7. noted \in [Stamps -> 0..2] BY <2>5, <2>6
    <2>. QED BY <2>5, <2>7
  <1> HIDE DEF noted
  <1>11. google' \in GoogleType /\ Absent'
    <2>1. CASE google' = google BY <1>1, <1>2, <2>1, IdAbsent
    <2>2. CASE google' = [token |-> op.goal, absent |-> noted, recoveries |-> 0]
      <3>1. google' \in GoogleType /\ google'.absent = noted BY <1>3, <1>10, <2>2 DEF GoogleType
      <3>2. ASSUME NEW i \in Stamps
            PROVE  (noted[i] # 0 => i <= clock') /\ (noted[i] = 2 => cards'[i].state # "hidden")
        <4>1. google.absent[i] # 0 => i <= clock BY DEF IdInv, Absent
        <4>2. google.absent[i] = 2 => cards[i].state # "hidden" BY DEF IdInv, Absent
        <4>. QED BY <1>1, <1>5, <1>10, <4>1, <4>2
      <3>. QED BY <3>1, <3>2 DEF Absent
    <2>. QED BY <1>4, <2>1, <2>2
  <1>12. rows' = [r \in Rows |-> rows'[r]] /\ \A r \in Rows : Sound(rows'[r])
    <2>1. rows \in [Rows -> RowSet] BY DEF IdInv, IdType, RowFcns, RowSet
    <2>2. CASE rows' = rows BY <1>7, <2>1, <2>2
    <2>3. CASE rows' = GoogleRows(rs, agg, gone) BY <1>8, <2>3
    <2>. QED BY <1>4, <2>2, <2>3
  <1>13. IdInv' BY <1>1, <1>11, <1>12, IdEnd
  <1>14. ASSUME NEW r \in Stored(rows), rows[r].id # 0, rows'[r] = NoRow PROVE ContactOf(rows[r]) = {}
    <2> DEFINE n == rows[r].id
    <2>1. r \in Rows /\ rows[r] # NoRow BY DEF Stored
    <2>2. n \in Stamps BY <1>14, <2>1 DEF IdInv, IdType, RowFcns, Ids
    <2>3. rs[r] # NoRow /\ rows' # rows BY <1>7, <1>14, <2>1
    <2>4. rs[r].id \in gone BY <1>4, <1>8, <1>14, <2>1, <2>3
    <2>5. n \in gone
      <3>1. 0 \notin Stamps BY Numbers
      <3>2. rs[r].id # 0 BY <1>3, <1>5, <1>9, <2>4, <3>1
      <3>. QED BY <1>7, <2>1, <2>4, <3>2
    <2> HIDE DEF n
    <2>6. /\ Resolve(n) \in Stamps
          /\ cards[n].state = "moved" => n \in cards[Resolve(n)].prev
          /\ cards[n].state # "moved" => Resolve(n) = n
          /\ Exists(Resolve(n)) <=> cards[Resolve(n)].state \in {"live", "hidden"}
          /\ Readable(Resolve(n)) <=> cards[Resolve(n)].state = "live"
      BY <2>2, IdResolve DEF IdInv
    <2>7. ~Exists(Resolve(n))
      <3>1. CASE n \in op.deleted
        <4>1. GoneName(n) BY <1>3, <3>1
        <4>2. CASE cards[n].state = "dead" BY <2>6, <4>2
        <4>3. ASSUME NEW j \in Stamps, cards[j].state = "dead", n \in cards[j].prev PROVE ~Exists(Resolve(n))
          <5>1. cards[n].state = "moved" BY <2>2, <4>3 DEF IdInv, Aliases
          <5>2. Resolve(n) = j BY <2>2, <2>6, <4>3, <5>1 DEF IdInv, Aliases
          <5>. QED BY <2>6, <4>3, <5>2
        <4>. QED BY <4>1, <4>2, <4>3 DEF GoneName
      <3>2. CASE n \in absent /\ google.absent[n] = 2
        <4>1. ~Readable(Resolve(n)) BY <1>5, <3>2
        <4>2. cards[n].state # "hidden" BY <2>2, <3>2 DEF IdInv, Absent
        <4>3. cards[n].state = "moved" => cards[Resolve(n)].state \in {"live", "dead"} BY <2>2, <2>6 DEF IdInv, Aliases
        <4>. QED BY <2>6, <4>1, <4>2, <4>3
      <3>. QED BY <1>9, <2>5, <3>1, <3>2
    <2>. QED BY <2>2, <2>7, NoContact DEF n
  <1>. QED BY <1>13, <1>14

-----------------------------------------------------------------------------
(* The invariant of the second part *)

\* An earlier version's book, with two rows for one contact, or an empty one.
LEMMA InitById == Init => (ById => IdInv)
  <1> SUFFICES ASSUME Init, ById PROVE IdInv OBVIOUS
  <1>1. clock = 2 /\ budget \in 0..Events /\ op.pc = "idle" BY DEF Init, Idle
  <1>2. 1 \in Stamps /\ 1 \in Rows /\ 2 \in Rows BY EventsAssumption DEF Stamps, Rows
  <1>3. /\ cards \in IdCards
        /\ \A i \in Stamps : cards[i].state = (IF i = 1 THEN "live" ELSE "none") /\ cards[i].prev = {}
        /\ cards[1].val = 1
    <2> DEFINE card == [state |-> "live", val |-> 1, uid |-> 1, rev |-> 1, prev |-> {}]
               C == [state : States, val : Nat, uid : Nat, rev : Nat, prev : SUBSET Stamps]
    <2>1. cards = [i \in Stamps |-> IF i = 1 THEN card ELSE NoCard] BY DEF Init, ById
    <2>2. card.state = "live" /\ card.val = 1 /\ card.prev = {} /\ NoCard.state = "none" /\ NoCard.prev = {} BY DEF NoCard
    <2>3. card \in C /\ NoCard \in C BY DEF NoCard, States
    <2> HIDE DEF card
    <2>. QED BY <1>2, <2>1, <2>2, <2>3 DEF IdCards
  <1>4. /\ google = [token |-> 0, absent |-> [i \in Stamps |-> 0], recoveries |-> 0]
    BY DEF Init
  <1>5. google \in GoogleType /\ \A i \in Stamps : google.absent[i] = 0
    <2> DEFINE a == [i \in Stamps |-> 0]
    <2>1. a \in [Stamps -> 0..2] /\ \A i \in Stamps : a[i] = 0 OBVIOUS
    <2>2. google = [token |-> 0, absent |-> a, recoveries |-> 0] BY <1>4
    <2> HIDE DEF a
    <2>. QED BY <2>1, <2>2 DEF GoogleType
  <1>6. rows = [r \in Rows |-> rows[r]] /\ \A r \in Rows :
          rows[r] \in {NoRow, [val |-> 1, id |-> 1, uid |-> 0, etag |-> 1], [val |-> 1, id |-> 1, uid |-> 1, etag |-> 1]}
    <2>1. PICK old \in {<<>>, Legacy(provider, cards[1].uid)} :
            rows = [r \in Rows |-> IF r \in DOMAIN old THEN old[r] ELSE NoRow]
      BY DEF Init
    <2>2. CASE old = <<>>
      <3>1. DOMAIN old = {} BY <2>2
      <3>. QED BY <2>1, <3>1
    <2>3. CASE old = Legacy(provider, cards[1].uid)
      <3>1. old = <<[val |-> 1, id |-> 1, uid |-> 0, etag |-> 1], [val |-> 1, id |-> 1, uid |-> 1, etag |-> 1]>>
        BY <2>3 DEF Legacy, ById
      <3>2. /\ DOMAIN old = {1, 2} /\ old[1] = [val |-> 1, id |-> 1, uid |-> 0, etag |-> 1]
            /\ old[2] = [val |-> 1, id |-> 1, uid |-> 1, etag |-> 1]
        BY <3>1
      <3>. QED BY <2>1, <3>2
    <2>. QED BY <2>1, <2>2, <2>3
  <1>7. \A r \in Rows : rows[r] \in RowSet /\ rows[r].id \in {0, 1} /\ (rows[r] # NoRow => rows[r].val = 1)
    <2> SUFFICES ASSUME NEW r \in Rows
                 PROVE  rows[r] \in RowSet /\ rows[r].id \in {0, 1} /\ (rows[r] # NoRow => rows[r].val = 1)
      OBVIOUS
    <2>1. CASE rows[r] = NoRow BY <2>1 DEF NoRow, RowSet, Ids
    <2>2. CASE rows[r] = [val |-> 1, id |-> 1, uid |-> 0, etag |-> 1] BY <1>2, <2>2 DEF RowSet, Ids
    <2>3. CASE rows[r] = [val |-> 1, id |-> 1, uid |-> 1, etag |-> 1] BY <1>2, <2>3 DEF RowSet, Ids
    <2>. QED BY <1>6, <2>1, <2>2, <2>3
  <1>8. IdType
    <2>1. rows \in RowFcns BY <1>6, <1>7 DEF RowFcns, RowSet
    <2>. QED BY <1>1, <1>3, <1>5, <2>1, EventsAssumption DEF IdType
  <1>9. Aliases BY <1>1, <1>3 DEF Aliases
  <1>10. Filled BY <1>1, <1>3, <1>7 DEF Filled, Kept
  <1>11. Absent BY <1>5 DEF Absent
  <1>12. IdOp BY <1>1 DEF IdOp
  <1>13. IdClock
    <2>1. Hidden = {} BY <1>3 DEF Hidden
    <2>2. Cardinality(Hidden) = 0 BY <2>1, FS_EmptySet
    <2>3. Asked = 0 BY <1>1 DEF Asked
    <2>. QED BY <1>1, <2>2, <2>3, EventsAssumption DEF IdClock
  <1>. QED BY <1>8, <1>9, <1>10, <1>11, <1>12, <1>13 DEF IdInv

-----------------------------------------------------------------------------
(* The third part is about CardDAV, where other clients name cards as they    *)
(* like, a listing may be short and a sync may stop half-way, so that a UID   *)
(* can come to be on two cards and then in two rows.  What is proved is that  *)
(* a UID is in two rows only then, and which rows a sync removes.             *)

Dav == provider = "carddav"

DavType ==
    /\ clock \in Nat /\ budget \in 0..Events /\ cards \in CardFcns /\ rows \in RowFcns

\* A name that is not the card's UID: another client chose it, and it is no UID.
Foreign(i) == cards[i].state # "none" /\ cards[i].uid # i

DavCards ==
    /\ \A i \in Stamps : cards[i].state = "none" => cards[i].uid = 0
    /\ \A i \in Stamps : cards[i].state # "none" => i <= clock /\ cards[i].uid \in 1..clock
    /\ \A i \in Stamps : IsLive(i) => cards[i].val \in 1..clock
    /\ \A i, j \in Stamps : Foreign(i) => cards[j].uid # i

\* A row that has contents and a UID; its card, if it has one, has the UID too.
Carded(row) ==
    /\ row.val \in 1..clock /\ row.uid \in 1..clock
    /\ row.id # 0 => cards[row.id].state # "none" /\ cards[row.id].uid = row.uid
    /\ \A i \in Stamps : Foreign(i) => row.uid # i

DavRows ==
    /\ \A r \in Rows : Kept(r) => Carded(rows[r])
    /\ \A r, s \in Rows : Kept(r) /\ Kept(s) /\ r # s /\ rows[r].uid = rows[s].uid => Doubled(rows[r].uid)

\* A listing: cards that are or were there, and the contact of every row unless
\* the listing is short.
DavSeen(seen) ==
    /\ DOMAIN seen \subseteq Stamps
    /\ \A i \in DOMAIN seen :
         cards[i].state # "none" /\ seen[i].uid = cards[i].uid /\ seen[i].val \in 1..clock

DavOp ==
    /\ op.pc \in {"idle", "push", "persist", "undo", "apply"}
    /\ op.pc \in {"push", "persist"} =>
         /\ op.kind \in {"create", "update", "delete"} /\ op.row \in Rows
         /\ op.kind # "delete" => Kept(op.row)
    /\ op.pc = "push" /\ op.kind = "delete" => op.id \in Stamps
    /\ op.pc = "persist" /\ op.kind = "create" =>
         op.id \in Stamps /\ cards[op.id].state # "none" /\ cards[op.id].uid = rows[op.row].uid
    /\ op.pc = "undo" => op.id \in Stamps
    /\ op.pc = "apply" =>
         /\ DavSeen(op.seen)
         /\ \/ op.torn
            \/ \A i \in Stamps, r \in Rows : IsLive(i) /\ Kept(r) /\ cards[i].uid = rows[r].uid
                 => \E j \in DOMAIN op.seen : op.seen[j].uid = cards[i].uid

DavClock == clock + 3 * budget + Request <= 3 + 3 * Events

DavInv == DavType /\ DavCards /\ DavRows /\ DavOp /\ DavClock

\* What is used of the types.
LEMMA DavTypes ==
    ASSUME DavInv
    PROVE  /\ clock \in Nat /\ budget \in Nat /\ budget \in 0..Events /\ cards \in CardFcns /\ rows \in RowFcns
           /\ Request \in {0, 1} /\ clock + 3 * budget + Request <= 3 + 3 * Events
           /\ 1..clock \subseteq Stamps /\ Stamps \subseteq Nat \ {0} /\ Rows \subseteq Nat \ {0}
           /\ \A i \in Stamps : cards[i].uid \in Nat /\ cards[i].val \in Nat
                                /\ cards[i].state \in {"none", "live", "dead"}
           /\ \A r \in Rows : rows[r].id \in Ids /\ rows[r].uid \in Nat /\ rows[r].val \in Nat
  <1>1. clock \in Nat /\ budget \in Nat /\ budget \in 0..Events /\ cards \in CardFcns /\ rows \in RowFcns
    BY EventsAssumption DEF DavInv, DavType
  <1>2. Request \in {0, 1} BY DEF Request
  <1>3. clock + 3 * budget + Request <= 3 + 3 * Events BY DEF DavInv, DavClock
  <1>4. clock <= 3 + 3 * Events BY <1>1, <1>2, <1>3, EventsAssumption
  <1>5. 1..clock \subseteq Stamps BY <1>1, <1>4, EventsAssumption DEF Stamps
  <1>6. Stamps \subseteq Nat \ {0} /\ Rows \subseteq Nat \ {0} BY Numbers
  <1>7. \A i \in Stamps : cards[i].uid \in Nat /\ cards[i].val \in Nat /\ cards[i].state \in {"none", "live", "dead"}
    BY <1>1 DEF CardFcns
  <1>8. \A r \in Rows : rows[r].id \in Ids /\ rows[r].uid \in Nat /\ rows[r].val \in Nat BY <1>1 DEF RowFcns
  <1>. QED BY <1>1, <1>2, <1>3, <1>5, <1>6, <1>7, <1>8

-----------------------------------------------------------------------------
(* Changes of the server's cards *)

\* A card keeps its UID and is not forgotten; a new one has a UID that was just
\* given, or is named for the UID of a row.
DavStep ==
    /\ cards' \in CardFcns /\ clock' \in Nat /\ clock <= clock'
    /\ \A i \in Stamps :
         \/ cards'[i].uid = cards[i].uid /\ (cards'[i].state = "none" <=> cards[i].state = "none")
         \/ /\ cards[i].state = "none" /\ cards'[i].state = "live" /\ i <= clock' /\ cards'[i].uid \in 1..clock'
            /\ \/ i = clock + 1 /\ cards'[i].uid > clock
               \/ cards'[i].uid = i /\ \E r \in Rows : Kept(r) /\ rows[r].uid = i
    /\ \A i \in Stamps : IsLive(i)' => cards'[i].val \in 1..clock'

\* Such a step leaves cards and rows in order.
LEMMA DavStepKeeps ==
    ASSUME DavInv, DavStep, rows' = rows, provider' = provider
    PROVE  /\ DavCards' /\ DavRows'
           /\ \A i \in Stamps : cards[i].state # "none" => cards'[i].state # "none" /\ cards'[i].uid = cards[i].uid
           /\ \A n \in Nat : n <= clock => n <= clock'
           /\ \A n : n \in 1..clock => n \in 1..clock'
  <1>1. /\ clock \in Nat /\ clock' \in Nat /\ clock <= clock' /\ Stamps \subseteq Nat
        /\ \A i \in Stamps : cards[i].uid \in Nat
        /\ \A r \in Rows : rows[r].id \in Ids /\ rows[r].uid \in Nat
    BY DavTypes DEF DavStep
  <1>2. /\ \A n \in Nat : n <= clock => n <= clock' /\ n # clock + 1
        /\ \A n : n \in 1..clock => n \in 1..clock'
        /\ \A n \in Nat : n > clock => ~(n <= clock) /\ ~(n \in 1..clock) /\ n # 0
    BY <1>1
  <1>3. \A i \in Stamps : /\ cards[i].state = "none" => cards[i].uid = 0
                          /\ cards[i].state # "none" => i <= clock /\ cards[i].uid \in 1..clock
    BY DEF DavInv, DavCards
  <1>4. \A i \in Stamps : cards[i].state # "none" => cards'[i].state # "none" /\ cards'[i].uid = cards[i].uid
    BY DEF DavStep
  \* A foreign name is an old one, or the one just given.
  <1>5. ASSUME NEW i \in Stamps, Foreign(i)'
        PROVE  Foreign(i) \/ (i = clock + 1 /\ cards'[i].uid # i)
    BY <1>5 DEF Foreign, DavStep
  <1>6. \A i \in Stamps, r \in Rows : Foreign(i) /\ Kept(r) => rows[r].uid # i BY DEF DavInv, DavRows, Carded
  <1>7. \A i, j \in Stamps : Foreign(i) => cards[j].uid # i BY DEF DavInv, DavCards
  <1>8. \A i \in Stamps : Foreign(i) => i <= clock BY <1>3 DEF Foreign
  <1>9. \A r \in Rows : Kept(r) => /\ rows[r].val \in 1..clock /\ rows[r].uid \in 1..clock
                                   /\ rows[r].id # 0 => /\ cards[rows[r].id].state # "none"
                                                        /\ cards[rows[r].id].uid = rows[r].uid
    BY DEF DavInv, DavRows, Carded
  <1>10. ASSUME NEW i \in Stamps, NEW j \in Stamps, Foreign(i)' PROVE cards'[j].uid # i
    <2>1. CASE cards'[j].uid = cards[j].uid
      <3>1. cards[j].uid = 0 \/ cards[j].uid \in 1..clock BY <1>3
      <3>2. cards[j].uid # clock + 1 BY <1>1, <3>1
      <3>. QED BY <1>5, <1>7, <1>10, <2>1, <3>2
    <2>2. CASE j = clock + 1 /\ cards'[j].uid > clock /\ cards'[j].uid \in 1..clock'
      <3>1. cards'[j].uid \in Nat BY <2>2
      <3>2. Foreign(i) => cards'[j].uid # i BY <1>2, <1>8, <2>2, <3>1
      <3>. QED BY <1>5, <1>10, <2>2, <3>2
    <2>3. CASE cards'[j].uid = j /\ \E r \in Rows : Kept(r) /\ rows[r].uid = j
      <3>1. Foreign(i) => j # i BY <1>6, <2>3
      <3>2. j \in 1..clock BY <1>9, <2>3
      <3>3. j # clock + 1 BY <1>1, <3>2
      <3>. QED BY <1>5, <1>10, <2>3, <3>1, <3>3
    <2>. QED BY <2>1, <2>2, <2>3 DEF DavStep
  <1>11. DavCards'
    <2>1. ASSUME NEW i \in Stamps, cards'[i].state = "none" PROVE cards'[i].uid = 0
      BY <1>3, <2>1 DEF DavStep
    <2>2. ASSUME NEW i \in Stamps, cards'[i].state # "none" PROVE i <= clock' /\ cards'[i].uid \in 1..clock'
      <3>1. CASE cards[i].state # "none" BY <1>1, <1>2, <1>3, <1>4, <3>1
      <3>2. CASE cards[i].state = "none" BY <2>2, <3>2 DEF DavStep
      <3>. QED BY <3>1, <3>2
    <2>3. \A i \in Stamps : IsLive(i)' => cards'[i].val \in 1..clock' BY DEF DavStep
    <2>. QED BY <1>10, <2>1, <2>2, <2>3 DEF DavCards
  <1>12. ASSUME NEW r \in Rows, Kept(r) PROVE Carded(rows[r])'
    <2>1. rows'[r].id # 0 => cards'[rows'[r].id].state # "none" /\ cards'[rows'[r].id].uid = rows'[r].uid
      BY <1>1, <1>4, <1>9, <1>12 DEF Ids
    <2>2. rows[r].uid # clock + 1 BY <1>1, <1>9, <1>12
    <2>3. \A i \in Stamps : Foreign(i)' => rows[r].uid # i BY <1>5, <1>6, <1>12, <2>2
    <2>. QED BY <1>2, <1>9, <1>12, <2>1, <2>3 DEF Carded
  <1>13. ASSUME NEW u, Doubled(u) PROVE Doubled(u)'
    <2>1. PICK i \in Stamps, j \in Stamps : i # j /\ cards[i].uid = u /\ cards[j].uid = u /\ u # 0
      BY <1>13 DEF Doubled
    <2>2. cards[i].state # "none" /\ cards[j].state # "none" BY <1>3, <2>1
    <2>3. cards'[i].uid = u /\ cards'[j].uid = u BY <1>4, <2>1, <2>2
    <2>. QED BY <2>1, <2>3 DEF Doubled
  <1>14. DavRows'
    <2>1. \A r, s \in Rows : Kept(r) /\ Kept(s) /\ r # s /\ rows[r].uid = rows[s].uid => Doubled(rows[r].uid)
      BY DEF DavInv, DavRows
    <2>2. \A r \in Rows : Kept(r)' = Kept(r) /\ rows'[r] = rows[r] BY DEF Kept
    <2>. QED BY <1>12, <1>13, <2>1, <2>2 DEF DavRows
  <1>. QED BY <1>2, <1>4, <1>11, <1>14

\* The command or sync under way waits while others change cards.
LEMMA DavWaits ==
    ASSUME DavInv, DavStep, rows' = rows, provider' = provider, op' = op,
           \A i \in Stamps : IsLive(i)' => IsLive(i) \/ (cards[i].state = "none" /\ cards'[i].uid > clock)
    PROVE  DavOp'
  <1>1. /\ \A i \in Stamps : cards[i].state # "none" => cards'[i].state # "none" /\ cards'[i].uid = cards[i].uid
        /\ clock \in Nat /\ \A n : n \in 1..clock => n \in 1..clock'
    BY DavStepKeeps, DavTypes
  <1>2. op.pc = "persist" /\ op.kind = "create" =>
          cards'[op.id].state # "none" /\ cards'[op.id].uid = rows[op.row].uid
    BY <1>1 DEF DavInv, DavOp
  <1>3. ASSUME op.pc = "apply"
        PROVE  /\ DavSeen(op.seen)'
               /\ \/ op.torn
                  \/ \A i \in Stamps, r \in Rows : IsLive(i)' /\ Kept(r) /\ cards'[i].uid = rows[r].uid
                       => \E j \in DOMAIN op.seen : op.seen[j].uid = cards'[i].uid
    <2>1. DavSeen(op.seen) BY <1>3 DEF DavInv, DavOp
    <2>2. DavSeen(op.seen)' BY <1>1, <2>1 DEF DavSeen
    <2>3. ASSUME ~op.torn, NEW i \in Stamps, NEW r \in Rows, IsLive(i)', Kept(r), cards'[i].uid = rows[r].uid
          PROVE  \E j \in DOMAIN op.seen : op.seen[j].uid = cards'[i].uid
      <3>1. rows[r].uid \in 1..clock BY <2>3 DEF DavInv, DavRows, Carded
      <3>2. IsLive(i) BY <1>1, <2>3, <3>1
      <3>3. cards'[i].uid = cards[i].uid BY <1>1, <3>2 DEF IsLive
      <3>. QED BY <1>3, <2>3, <3>2, <3>3 DEF DavInv, DavOp
    <2>. QED BY <2>2, <2>3
  <1>. QED BY <1>2, <1>3 DEF DavInv, DavOp, Kept

\* The stamps are paid for by events, three by each.
LEMMA Spending ==
    ASSUME NEW c \in Nat, NEW d \in Nat, NEW b \in Nat, NEW e \in Nat, NEW q \in {0, 1}, NEW p \in {0, 1},
           NEW n \in Nat, c + 3 * b + q <= n,
           (e = b /\ d + p <= c + q) \/ (e = b - 1 /\ d + p <= c + q + 3)
    PROVE  d + 3 * e + p <= n
  OBVIOUS

LEMMA DavPaid ==
    ASSUME DavInv, Request' \in {0, 1},
           \/ budget' = budget - 1 /\ budget > 0 /\ clock' \in {clock, clock + 1, clock + 2}
           \/ budget' = budget /\ clock' = clock /\ Request' = 0
           \/ budget' = budget /\ clock' = clock + 1 /\ Request = 1 /\ Request' = 0
    PROVE  DavClock'
  <1>1. /\ clock \in Nat /\ budget \in Nat /\ Request \in {0, 1}
        /\ clock + 3 * budget + Request <= 3 + 3 * Events
    BY DavTypes
  <1>2. 3 + 3 * Events \in Nat BY EventsAssumption
  <1>3. PICK d \in Nat : clock' = d BY <1>1
  <1>4. PICK e \in Nat : budget' = e BY <1>1
  <1>5. PICK p \in {0, 1} : Request' = p OBVIOUS
  <1>6. (e = budget /\ d + p <= clock + Request) \/ (e = budget - 1 /\ d + p <= clock + Request + 3)
    BY <1>1, <1>3, <1>4, <1>5
  <1>7. d + 3 * e + p <= 3 + 3 * Events BY <1>1, <1>2, <1>6, Spending
  <1>. QED BY <1>3, <1>4, <1>5, <1>7 DEF DavClock

\* Other clients create cards under names of their choice, edit and delete them.
LEMMA DavOtherStep ==
    ASSUME Dav, DavInv, OtherChange
    PROVE  DavInv'
  <1>1. /\ budget > 0 /\ budget' = budget - 1 /\ provider' = provider /\ rows' = rows /\ op' = op
        /\ clock' \in {clock + 1, clock + 2}
        /\ OtherCreates \/ \E i \in Live : OtherEdits(i) \/ OtherDeletes(i)
    BY DEF OtherChange, OtherCreates, OtherEdits, OtherDeletes, OtherRenames, Dav
  <1>2. /\ clock \in Nat /\ budget \in Nat /\ budget \in 0..Events /\ cards \in CardFcns /\ rows \in RowFcns
        /\ Request \in {0, 1} /\ clock + 3 * budget + Request <= 3 + 3 * Events
    BY DavTypes
  <1>3. /\ clock + 1 \in Stamps /\ clock + 1 \in Nat /\ clock + 1 # 0 /\ clock' \in Nat /\ clock <= clock'
        /\ clock + 1 \in 1..clock'
    <2>1. clock + 1 <= 3 + 3 * Events BY <1>1, <1>2, EventsAssumption
    <2>. QED BY <1>1, <1>2, <2>1, EventsAssumption DEF Stamps
  <1>4. \A i \in Stamps : /\ cards[i].state # "none" => i # clock + 1
                          /\ IsLive(i) => cards[i].val \in 1..clock'
    <2>1. \A n : n \in 1..clock => n \in 1..clock' BY <1>2, <1>3
    <2>. QED BY <1>2, <2>1, Numbers DEF DavInv, DavCards
  <1>5. DavStep /\ \A i \in Stamps : IsLive(i)' => IsLive(i) \/ (cards[i].state = "none" /\ cards'[i].uid > clock)
    <2>1. CASE OtherCreates
      <3>1. PICK u \in {clock + 1, clock + 2} : cards' = Added(clock + 1, clock + 1, u, "live") /\ clock' = u
        BY <2>1 DEF OtherCreates
      <3>2. u \in Nat /\ u > clock /\ u \in 1..clock' /\ clock + 1 <= clock' BY <1>2, <3>1
      <3>3. /\ cards' \in CardFcns
            /\ \A j \in Stamps : /\ cards'[j].state = IF j = clock + 1 THEN "live" ELSE cards[j].state
                                 /\ cards'[j].uid = IF j = clock + 1 THEN u ELSE cards[j].uid
                                 /\ cards'[j].val = IF j = clock + 1 THEN clock + 1 ELSE cards[j].val
        BY <1>2, <1>3, <3>1, <3>2, AddedFields
      <3>. QED BY <1>3, <1>4, <3>2, <3>3 DEF DavStep, IsLive
    <2>2. ASSUME NEW i \in Live, OtherEdits(i)
          PROVE  DavStep /\ \A j \in Stamps : IsLive(j)' => IsLive(j)
      <3>1. cards' = Written(i, clock + 1) /\ i \in Stamps BY <2>2 DEF OtherEdits, Live
      <3>2. /\ cards' \in CardFcns
            /\ \A j \in Stamps : /\ cards'[j].state = cards[j].state /\ cards'[j].uid = cards[j].uid
                                 /\ cards'[j].val = IF j = i THEN clock + 1 ELSE cards[j].val
        BY <1>2, <1>3, <3>1, WrittenFields
      <3>. QED BY <1>3, <1>4, <3>2 DEF DavStep, IsLive
    <2>3. ASSUME NEW i \in Live, OtherDeletes(i)
          PROVE  DavStep /\ \A j \in Stamps : IsLive(j)' => IsLive(j)
      <3>1. cards' = Removed(i) /\ i \in Stamps /\ cards[i].state = "live" BY <2>3 DEF OtherDeletes, Live
      <3>2. /\ cards' \in CardFcns
            /\ \A j \in Stamps : /\ cards'[j].state = IF j = i THEN "dead" ELSE cards[j].state
                                 /\ cards'[j].uid = cards[j].uid /\ cards'[j].val = cards[j].val
        BY <1>2, <3>1, RemovedFields
      <3>. QED BY <1>3, <1>4, <3>1, <3>2 DEF DavStep, IsLive
    <2>. QED BY <1>1, <2>1, <2>2, <2>3
  <1>6. DavCards' /\ DavRows' BY <1>1, <1>5, DavStepKeeps
  <1>7. DavOp' BY <1>1, <1>5, DavWaits
  <1>8. budget' \in 0..Events BY <1>1, <1>2, EventsAssumption
  <1>9. DavType' BY <1>1, <1>2, <1>3, <1>5, <1>8 DEF DavStep, DavType
  <1>10. DavClock'
    <2>1. Request' = Request BY <1>1 DEF Request
    <2>. QED BY <1>1, <1>2, <2>1, DavPaid
  <1>. QED BY <1>6, <1>7, <1>9, <1>10 DEF DavInv

\* The invariant speaks of these only.
LEMMA DavSame ==
    ASSUME DavInv, provider' = provider, clock' = clock, cards' = cards, rows' = rows, op' = op, budget' = budget
    PROVE  DavInv'
  <1>1. DavType' /\ DavCards' /\ DavClock' BY DEF DavInv, DavType, DavCards, DavClock, Request, Foreign, IsLive
  <1>2. DavRows' BY DEF DavInv, DavRows, Carded, Kept, Doubled, Foreign
  <1>3. DavOp' BY DEF DavInv, DavOp, DavSeen, Kept, IsLive
  <1>. QED BY <1>1, <1>2, <1>3 DEF DavInv

\* With CardDAV there is nothing that becomes readable.
LEMMA DavTickStep ==
    ASSUME DavInv, Tick
    PROVE  DavInv'
  <1>1. cards \in CardFcns BY DEF DavInv, DavType
  <1>2. {i \in Stamps : cards[i].state = "hidden"} = {} BY <1>1 DEF CardFcns
  <1>3. cards' = [i \in Stamps |-> cards[i]] /\ clock' = clock BY <1>2 DEF Tick
  <1>4. cards' = cards BY <1>1, <1>3 DEF CardFcns
  <1>. QED BY <1>3, <1>4, DavSame DEF Tick

-----------------------------------------------------------------------------
(* Changes of the table *)

\* Rows that keep their UIDs or have UIDs of their own, and the end or the next
\* request of the operation.
LEMMA DavRowStep ==
    ASSUME DavInv, cards' = cards, provider' = provider, clock' \in {clock, clock + 1}, rows' \in RowFcns,
           \A r \in Rows : rows'[r] # NoRow =>
             \/ /\ Kept(r) /\ rows'[r].uid = rows[r].uid /\ rows'[r].val \in 1..clock'
                /\ \/ rows'[r].id = rows[r].id
                   \/ /\ rows'[r].id \in Stamps /\ cards[rows'[r].id].state # "none"
                      /\ cards[rows'[r].id].uid = rows[r].uid
             \/ clock' = clock + 1 /\ rows'[r].uid = clock + 1 /\ rows'[r].val \in 1..clock' /\ rows'[r].id = 0,
           \A r, s \in Rows : rows'[r] # NoRow /\ rows'[s] # NoRow /\ rows'[r].uid = clock + 1 /\ rows'[s].uid = clock + 1
             => r = s
    PROVE  DavCards' /\ DavRows'
  <1>1. /\ clock \in Nat /\ clock' \in Nat /\ Stamps \subseteq Nat
        /\ \A i \in Stamps : cards[i].uid \in Nat
    BY DavTypes
  <1>2. /\ \A n \in Nat : n <= clock => n <= clock' /\ n # clock + 1
        /\ \A n : n \in 1..clock => n \in 1..clock' /\ n # clock + 1
        /\ clock' = clock + 1 => clock + 1 \in 1..clock'
    BY <1>1
  <1>3. \A i \in Stamps : Foreign(i)' <=> Foreign(i) BY DEF Foreign
  <1>4. \A i \in Stamps : Foreign(i) => i <= clock BY DEF DavInv, DavCards, Foreign
  <1>5. DavCards'
    <2>1. \A i \in Stamps : cards[i].state # "none" => i <= clock' BY <1>1, <1>2 DEF DavInv, DavCards
    <2>. QED BY <1>2, <1>3, <2>1 DEF DavInv, DavCards, IsLive
  <1>6. ASSUME NEW r \in Rows, rows'[r] # NoRow PROVE Carded(rows[r])'
    <2>1. CASE /\ Kept(r) /\ rows'[r].uid = rows[r].uid /\ rows'[r].val \in 1..clock'
               /\ \/ rows'[r].id = rows[r].id
                  \/ /\ rows'[r].id \in Stamps /\ cards[rows'[r].id].state # "none"
                     /\ cards[rows'[r].id].uid = rows[r].uid
      <3>1. Carded(rows[r]) BY <2>1 DEF DavInv, DavRows
      <3>. QED BY <1>2, <1>3, <2>1, <3>1 DEF Carded
    <2>2. CASE clock' = clock + 1 /\ rows'[r].uid = clock + 1 /\ rows'[r].val \in 1..clock' /\ rows'[r].id = 0
      <3>1. \A i \in Stamps : Foreign(i) => i # clock + 1 BY <1>1, <1>2, <1>4
      <3>. QED BY <1>2, <1>3, <2>2, <3>1 DEF Carded
    <2>. QED BY <1>6, <2>1, <2>2
  <1>7. ASSUME NEW r \in Rows, NEW s \in Rows, rows'[r] # NoRow, rows'[s] # NoRow, r # s, rows'[r].uid = rows'[s].uid
        PROVE  Doubled(rows[r].uid)'
    <2>1. rows'[r].uid # clock + 1 BY <1>7
    <2>2. Kept(r) /\ Kept(s) /\ rows'[r].uid = rows[r].uid /\ rows'[s].uid = rows[s].uid BY <1>7, <2>1
    <2>3. Doubled(rows[r].uid) BY <1>7, <2>2 DEF DavInv, DavRows
    <2>. QED BY <2>2, <2>3 DEF Doubled
  <1>. QED BY <1>5, <1>6, <1>7 DEF DavRows, Kept

\* The local transaction of a command, and the push that follows it.
LEMMA DavCommand ==
    ASSUME DavInv, op = Idle, budget > 0, budget' = budget - 1, clock' \in {clock, clock + 1},
           rows' \in RowFcns, cards' = cards, DavCards', DavRows',
           \/ op'.pc = "idle"
           \/ /\ op'.pc = "push" /\ op'.kind \in {"create", "update", "delete"} /\ op'.row \in Rows
              /\ op'.kind # "delete" => rows'[op'.row] # NoRow
              /\ op'.kind = "delete" => op'.id \in Stamps
    PROVE  DavInv'
  <1>1. /\ clock \in Nat /\ budget \in Nat /\ budget \in 0..Events /\ cards \in CardFcns BY DavTypes
  <1>2. Request = 0 /\ Request' \in {0, 1} BY DEF Request, Idle
  <1>3. clock' \in Nat /\ budget' \in Nat /\ budget' \in 0..Events BY <1>1, EventsAssumption
  <1>5. DavClock' BY <1>2, DavPaid
  <1>6. DavOp'
    <2>1. CASE op'.pc = "idle" BY <2>1 DEF DavOp
    <2>2. CASE op'.pc = "push" BY <2>2 DEF DavOp, Kept
    <2>. QED BY <2>1, <2>2
  <1>7. DavType' BY <1>1, <1>3 DEF DavType
  <1>. QED BY <1>5, <1>6, <1>7 DEF DavInv

\* create_contact.
LEMMA DavCreateStep ==
    ASSUME Dav, DavInv, Command, Create
    PROVE  DavInv'
  <1> DEFINE r == Min(Rows \ Stored(rows))
             row == [NoRow EXCEPT !.val = clock + 1, !.uid = clock + 1]
  <1>1. /\ budget > 0 /\ budget' = budget - 1 /\ provider' = provider /\ cards' = cards
        /\ clock' = clock + 1 /\ rows' = [rows EXCEPT ![r] = row] /\ op' = PushOf(r, row) /\ op = Idle
    BY DEF Command, Create
  <1>2. clock \in Nat /\ rows \in RowFcns BY DavTypes
  <1>3. r \in Rows
    <2>1. Rows \ Stored(rows) \subseteq Nat /\ Rows \ Stored(rows) # {} BY Numbers DEF Create, Stored
    <2>2. r \in Rows \ Stored(rows) BY <2>1, MinIn
    <2>. QED BY <2>2
  <1>4. row = [val |-> clock + 1, id |-> 0, uid |-> clock + 1, etag |-> 0]
    <2> DEFINE one == [NoRow EXCEPT !.val = clock + 1]
    <2>0. one = [val |-> clock + 1, id |-> 0, uid |-> 0, etag |-> 0] BY DEF NoRow
    <2>5. row = [one EXCEPT !.uid = clock + 1] BY DEF NoRow
    <2> HIDE DEF one
    <2>. QED BY <2>0, <2>5
  <1> HIDE DEF r, row
  <1>5. /\ row.val \in 1..clock' /\ row.id = 0 /\ row.uid = clock + 1 /\ row # NoRow
        /\ row \in [val : Nat, id : Ids, uid : Nat, etag : Nat]
    <2>1. clock + 1 \in Nat /\ clock + 1 # 0 BY <1>2
    <2>2. NoRow.val = 0 BY DEF NoRow
    <2>3. 0 \in Ids /\ 0 \in Nat /\ clock + 1 \in 1..clock' BY <1>1, <1>2 DEF Ids
    <2>4. row.val # NoRow.val BY <1>4, <2>1, <2>2
    <2>. QED BY <1>4, <2>1, <2>3, <2>4
  <1>6. rows' \in RowFcns /\ \A s \in Rows : rows'[s] = IF s = r THEN row ELSE rows[s]
    BY <1>1, <1>2, <1>3, <1>5 DEF RowFcns
  <1>7. \A s \in Rows : Kept(s) => rows[s].uid # clock + 1 /\ rows[s].val \in 1..clock'
    BY <1>1, <1>2 DEF DavInv, DavRows, Carded
  <1>8. DavCards' /\ DavRows' BY <1>1, <1>5, <1>6, <1>7, DavRowStep DEF Kept
  <1>9. op'.pc = "push" /\ op'.kind = "create" /\ op'.row = r BY <1>1, <1>5, PushIs DEF Push, Dav
  <1>10. rows'[op'.row] # NoRow BY <1>3, <1>5, <1>6, <1>9
  <1>. QED BY <1>1, <1>3, <1>6, <1>8, <1>9, <1>10, DavCommand

\* update_contact.
LEMMA DavUpdateStep ==
    ASSUME Dav, DavInv, Command, NEW r \in Stored(rows), Update(r)
    PROVE  DavInv'
  <1>1. /\ budget > 0 /\ budget' = budget - 1 /\ provider' = provider /\ cards' = cards
        /\ op' = PushOf(r, rows[r]) /\ op = Idle
    BY DEF Command, Update
  <1>2. clock \in Nat /\ rows \in RowFcns BY DavTypes
  <1>3. r \in Rows /\ Kept(r) BY DEF Stored, Kept
  <1>4. rows[r].val \in 1..clock /\ rows[r].val \in Nat BY <1>3, DavTypes DEF DavInv, DavRows, Carded
  <1>5. PICK v \in {rows[r].val, clock + 1} :
           rows' = [rows EXCEPT ![r].val = v] /\ clock' = IF v > clock THEN v ELSE clock
    BY DEF Update
  <1>6. v \in 1..clock' /\ v \in Nat /\ v # 0 /\ clock' \in {clock, clock + 1} BY <1>2, <1>4, <1>5
  <1>7. /\ rows' \in RowFcns /\ rows'[r].val = v /\ rows'[r].id = rows[r].id /\ rows'[r].uid = rows[r].uid
        /\ \A s \in Rows : s # r => rows'[s] = rows[s]
    BY <1>2, <1>3, <1>5, <1>6 DEF RowFcns
  <1>8. rows'[r] # NoRow BY <1>6, <1>7 DEF NoRow
  <1>9. \A s \in Rows : Kept(s) => rows[s].uid # clock + 1 /\ rows[s].val \in 1..clock'
    BY <1>2, <1>6 DEF DavInv, DavRows, Carded
  <1>10. DavCards' /\ DavRows' BY <1>1, <1>3, <1>6, <1>7, <1>9, DavRowStep DEF Kept
  <1>11. op'.pc = "push" /\ op'.row = r /\ op'.kind \in {"update", "create"} BY <1>1, PushIs DEF Push, Dav
  <1>. QED BY <1>1, <1>3, <1>6, <1>7, <1>8, <1>10, <1>11, DavCommand

\* delete_contact.
LEMMA DavDeleteStep ==
    ASSUME Dav, DavInv, Command, NEW r \in Stored(rows), Delete(r)
    PROVE  DavInv'
  <1>1. /\ budget > 0 /\ budget' = budget - 1 /\ provider' = provider /\ cards' = cards
        /\ clock' = clock /\ op = Idle /\ rows' = [rows EXCEPT ![r] = NoRow]
        /\ op' = (IF DeleteRemote(r) THEN Push("delete", r, rows[r].id) ELSE Idle)
    BY DEF Command, Delete
  <1>2. clock \in Nat /\ rows \in RowFcns BY DavTypes
  <1>3. r \in Rows /\ rows[r].id \in Ids BY DavTypes DEF Stored
  <1>4. NoRow \in [val : Nat, id : Ids, uid : Nat, etag : Nat] BY DEF NoRow, Ids
  <1>5. rows' \in RowFcns /\ \A s \in Rows : rows'[s] = IF s = r THEN NoRow ELSE rows[s]
    BY <1>1, <1>2, <1>3, <1>4 DEF RowFcns
  <1>6. \A s \in Rows : Kept(s) => rows[s].uid # clock + 1 /\ rows[s].val \in 1..clock'
    BY <1>1, <1>2 DEF DavInv, DavRows, Carded
  <1>7. DavCards' /\ DavRows' BY <1>1, <1>5, <1>6, DavRowStep DEF Kept
  <1>8. \/ op'.pc = "idle"
        \/ op'.pc = "push" /\ op'.row = r /\ op'.kind = "delete" /\ op'.id \in Stamps
    BY <1>1, <1>3 DEF Idle, Push, DeleteRemote, Ids
  <1>. QED BY <1>1, <1>3, <1>5, <1>7, <1>8, DavCommand

-----------------------------------------------------------------------------
(* The push and what follows it *)

\* What the server does with a pushed change: the card named for the row's UID
\* has that UID, before or afterwards.
LEMMA DavServed ==
    ASSUME Dav, DavInv, op.pc = "push", Accepted, Served
    PROVE  /\ DavStep /\ Target \in Stamps /\ clock' \in {clock, clock + 1}
           /\ op.kind # "delete" => cards'[Target].state # "none" /\ cards'[Target].uid = rows[op.row].uid
  <1>1. /\ op.kind \in {"create", "update", "delete"} /\ op.row \in Rows
        /\ op.kind # "delete" => Kept(op.row)
        /\ op.kind = "delete" => op.id \in Stamps
    BY DEF DavInv, DavOp
  <1>2. /\ clock \in Nat /\ cards \in CardFcns /\ rows \in RowFcns /\ 1..clock \subseteq Stamps /\ Stamps \subseteq Nat \ {0}
    BY DavTypes
  <1>3. clock' = IF cards' = cards THEN clock ELSE clock + 1 BY DEF Served
  <1>4. /\ clock' \in Nat /\ clock <= clock' /\ clock' \in {clock, clock + 1}
        /\ \A n : n \in 1..clock => n \in 1..clock' /\ n <= clock'
    BY <1>2, <1>3
  <1>5. \A i \in Stamps : IsLive(i) => cards[i].val \in 1..clock' BY <1>4 DEF DavInv, DavCards
  <1>6. CASE op.kind = "delete"
    <2>1. Target = Resolve(op.id) BY <1>6 DEF Target
    <2>2. Target = op.id /\ Target \in Stamps BY <1>1, <1>2, <1>6, <2>1, ResolveIs
    <2>3. IsLive(Target)
      <3>1. Exists(Resolve(op.id)) BY <1>6 DEF Accepted
      <3>. QED BY <1>2, <2>1, <2>2, <3>1, ResolveIs
    <2>4. cards' = Removed(Target) BY <1>6 DEF Served
    <2>5. /\ cards' \in CardFcns
          /\ \A j \in Stamps : /\ cards'[j].state = IF j = Target THEN "dead" ELSE cards[j].state
                               /\ cards'[j].uid = cards[j].uid /\ cards'[j].val = cards[j].val
      BY <1>2, <2>2, <2>4, RemovedFields
    <2>6. DavStep BY <1>4, <1>5, <2>3, <2>5 DEF DavStep, IsLive
    <2>. QED BY <1>4, <1>6, <2>2, <2>6
  <1>7. CASE op.kind # "delete"
    <2> DEFINE v == rows[op.row].val
               u == rows[op.row].uid
    <2>1. Target = u BY <1>1, <1>7 DEF Target, Dav
    <2>2. v \in 1..clock /\ v \in 1..clock' /\ u \in 1..clock /\ v \in Nat /\ u \in Nat /\ u \in Stamps
      <3>1. v \in 1..clock /\ u \in 1..clock BY <1>1, <1>7 DEF DavInv, DavRows, Carded
      <3>. QED BY <1>2, <1>4, <3>1
    <2>3. \A i \in Stamps : Foreign(i) => u # i BY <1>1, <1>7 DEF DavInv, DavRows, Carded
    <2>4. cards[u].state # "none" => cards[u].uid = u BY <2>2, <2>3 DEF Foreign
    <2>5. Exists(u) <=> IsLive(u) BY <1>2, <2>2, ResolveIs
    <2>6. IF Exists(u) THEN cards' = cards \/ cards' = Written(u, v) ELSE cards' = Added(u, v, u, "live")
      BY <1>7, <2>1 DEF Served, Dav
    <2>7. \E r \in Rows : Kept(r) /\ rows[r].uid = u BY <1>1, <1>7
    <2> HIDE DEF v, u
    <2>8. CASE Exists(u) /\ cards' = cards
      <3>1. DavStep BY <1>2, <1>4, <1>5, <2>8 DEF DavStep, IsLive
      <3>. QED BY <1>4, <2>1, <2>2, <2>4, <2>5, <2>8, <3>1 DEF u, IsLive
    <2>9. CASE Exists(u) /\ cards' = Written(u, v)
      <3>1. /\ cards' \in CardFcns
            /\ \A j \in Stamps : /\ cards'[j].state = cards[j].state /\ cards'[j].uid = cards[j].uid
                                 /\ cards'[j].val = IF j = u THEN v ELSE cards[j].val
        BY <1>2, <2>2, <2>9, WrittenFields
      <3>2. DavStep BY <1>4, <1>5, <2>2, <3>1 DEF DavStep, IsLive
      <3>. QED BY <1>4, <2>1, <2>2, <2>4, <2>5, <2>9, <3>1, <3>2 DEF u, IsLive
    <2>10. CASE ~Exists(u)
      <3>1. /\ cards' \in CardFcns
            /\ \A j \in Stamps : /\ cards'[j].state = IF j = u THEN "live" ELSE cards[j].state
                                 /\ cards'[j].uid = IF j = u THEN u ELSE cards[j].uid
                                 /\ cards'[j].val = IF j = u THEN v ELSE cards[j].val
        BY <1>2, <2>2, <2>6, <2>10, AddedFields
      <3>2. DavStep BY <1>4, <1>5, <2>2, <2>4, <2>7, <3>1 DEF DavStep, IsLive
      <3>. QED BY <1>4, <2>1, <2>2, <3>1, <3>2 DEF u
    <2>. QED BY <2>6, <2>8, <2>9, <2>10
  <1>. QED BY <1>6, <1>7

\* A change of cards that ends a request.
LEMMA DavAnswer ==
    ASSUME DavInv, DavStep, clock' \in {clock, clock + 1}, Request = 1, rows' = rows, provider' = provider,
           DavOp', op'.pc \notin {"push", "undo"}, budget' = budget \/ (budget > 0 /\ budget' = budget - 1)
    PROVE  DavInv'
  <1>1. clock \in Nat /\ budget \in Nat /\ budget \in 0..Events /\ rows \in RowFcns BY DavTypes
  <1>2. DavCards' /\ DavRows' BY DavStepKeeps
  <1>3. budget' \in Nat /\ budget' \in 0..Events /\ clock' \in Nat BY <1>1, EventsAssumption
  <1>4. Request' = 0 BY DEF Request
  <1>6. DavClock' BY <1>4, DavPaid
  <1>7. DavType' BY <1>1, <1>3 DEF DavStep, DavType
  <1>. QED BY <1>2, <1>6, <1>7 DEF DavInv

\* Cards and rows stay, and so does what they say.
LEMMA DavSettle ==
    ASSUME DavInv, cards' = cards, clock' = clock, rows' = rows, provider' = provider,
           \/ op'.pc = "idle"
           \/ op'.pc = "undo" /\ op'.id \in Stamps /\ budget > 0 /\ budget' = budget - 1,
           budget' = budget \/ (budget > 0 /\ budget' = budget - 1)
    PROVE  DavInv'
  <1>1. clock \in Nat /\ budget \in Nat /\ budget \in 0..Events /\ Request \in {0, 1} BY DavTypes
  <1>2. budget' \in Nat /\ budget' \in 0..Events BY <1>1, EventsAssumption
  <1>3. DavType' /\ DavCards' BY <1>2 DEF DavInv, DavType, DavCards, Foreign, IsLive
  <1>4. DavRows' BY DEF DavInv, DavRows, Carded, Kept, Doubled, Foreign
  <1>5. DavOp' BY DEF DavOp
  <1>6. Request' = 0 \/ (Request' = 1 /\ budget > 0 /\ budget' = budget - 1) BY DEF Request
  <1>7. DavClock' BY <1>6, DavPaid
  <1>. QED BY <1>3, <1>4, <1>5, <1>7 DEF DavInv

\* The push is answered: done, or refused.
LEMMA DavPushStep ==
    ASSUME Dav, DavInv, PushAnswered
    PROVE  DavInv'
  <1>1. op.pc = "push" /\ provider' = provider /\ rows' = rows /\ budget' = budget BY DEF PushAnswered
  <1>2. CASE Accepted /\ Served /\ op' = [pc |-> "persist", kind |-> op.kind, row |-> op.row, id |-> Target]
    <2>1. op'.pc = "persist" /\ op'.kind = op.kind /\ op'.row = op.row /\ op'.id = Target BY <1>2
    <2>2. /\ DavStep /\ Target \in Stamps /\ clock' \in {clock, clock + 1}
          /\ op.kind # "delete" => cards'[Target].state # "none" /\ cards'[Target].uid = rows[op.row].uid
      BY <1>1, <1>2, DavServed
    <2>3. DavOp' BY <1>1, <2>1, <2>2 DEF DavInv, DavOp, Kept
    <2>4. Request = 1 BY <1>1 DEF Request
    <2>. QED BY <1>1, <2>1, <2>2, <2>3, <2>4, DavAnswer
  <1>3. CASE cards' = cards /\ clock' = clock /\ op' = Idle
    <2>1. op'.pc = "idle" BY <1>3 DEF Idle
    <2>. QED BY <1>1, <1>3, <2>1, DavSettle
  <1>. QED BY <1>2, <1>3 DEF PushAnswered, Dav

\* The compensating delete.
LEMMA DavUndoStep ==
    ASSUME Dav, DavInv, Undo
    PROVE  DavInv'
  <1>1. op.pc = "undo" /\ provider' = provider /\ rows' = rows /\ budget' = budget /\ op'.pc = "idle"
    BY DEF Undo, Idle
  <1>2. clock \in Nat /\ cards \in CardFcns /\ op.id \in Stamps BY <1>1, DavTypes DEF DavInv, DavOp
  <1>3. Resolve(op.id) = op.id /\ (Exists(op.id) <=> IsLive(op.id)) BY <1>2, ResolveIs
  <1>4. CASE ~IsLive(op.id)
    <2>1. cards' = cards /\ clock' = clock BY <1>3, <1>4 DEF Undo
    <2>. QED BY <1>1, <2>1, DavSettle
  <1>5. CASE IsLive(op.id)
    <2>1. cards' = Removed(op.id) /\ clock' = clock + 1 BY <1>3, <1>5 DEF Undo
    <2>2. /\ cards' \in CardFcns
          /\ \A j \in Stamps : /\ cards'[j].state = IF j = op.id THEN "dead" ELSE cards[j].state
                               /\ cards'[j].uid = cards[j].uid /\ cards'[j].val = cards[j].val
      BY <1>2, <2>1, RemovedFields
    <2>3. \A i \in Stamps : IsLive(i) => cards[i].val \in 1..clock' BY <1>2, <2>1 DEF DavInv, DavCards
    <2>4. DavStep BY <1>2, <1>5, <2>1, <2>2, <2>3 DEF DavStep, IsLive
    <2>5. Request = 1 /\ DavOp' BY <1>1 DEF Request, DavOp
    <2>. QED BY <1>1, <2>1, <2>4, <2>5, DavAnswer
  <1>. QED BY <1>4, <1>5

\* A failure ends the operation or goes on to the compensation.
LEMMA DavFailStep ==
    ASSUME Dav, DavInv, Fail
    PROVE  DavInv'
  <1>1. op.pc \in {"idle", "push", "persist", "undo", "apply"} BY DEF DavInv, DavOp
  <1>2. /\ budget > 0 /\ budget' = budget - 1 /\ provider' = provider /\ cards' = cards
        /\ clock' = clock /\ rows' = rows
    BY <1>1 DEF Fail, Dav
  <1>3. op'.pc = "idle" \/ (op'.pc = "undo" /\ op'.id = op.id /\ op.pc = "persist" /\ op.kind = "create")
    BY <1>1 DEF Fail, Idle
  <1>4. op'.pc = "undo" => op'.id \in Stamps BY <1>3 DEF DavInv, DavOp
  <1>. QED BY <1>2, <1>3, <1>4, DavSettle

\* An answer is lost.
LEMMA DavLostStep ==
    ASSUME Dav, DavInv, AnswerLost
    PROVE  DavInv'
  <1>1. budget > 0 /\ budget' = budget - 1 /\ provider' = provider /\ op'.pc = "idle" BY DEF AnswerLost, Idle
  <1>2. op.pc = "push" /\ Accepted /\ Served /\ rows' = rows BY DEF AnswerLost, DavInv, DavOp
  <1>3. DavStep /\ clock' \in {clock, clock + 1} BY <1>2, DavServed
  <1>4. Request = 1 /\ DavOp' BY <1>1, <1>2 DEF Request, DavOp
  <1>. QED BY <1>1, <1>2, <1>3, <1>4, DavAnswer

\* A sync or a command ends, with rows in order.
LEMMA DavEnd ==
    ASSUME DavInv, cards' = cards, clock' = clock, provider' = provider, rows' \in RowFcns, DavRows', op'.pc = "idle",
           budget' = budget \/ (budget > 0 /\ budget' = budget - 1)
    PROVE  DavInv'
  <1>1. clock \in Nat /\ budget \in Nat /\ budget \in 0..Events BY DavTypes
  <1>2. budget' \in 0..Events BY <1>1, EventsAssumption
  <1>3. DavType' /\ DavCards' BY <1>2 DEF DavInv, DavType, DavCards, Foreign, IsLive
  <1>4. DavOp' BY DEF DavOp
  <1>5. Request' = 0 BY DEF Request
  <1>6. DavClock' BY <1>5, DavPaid
  <1>. QED BY <1>3, <1>4, <1>6 DEF DavInv

\* The answer's metadata are stored: the name of a created card, and no ETag.
LEMMA DavPersistStep ==
    ASSUME Dav, DavInv, Persist
    PROVE  DavInv'
  <1>1. /\ op.pc = "persist" /\ provider' = provider /\ cards' = cards /\ clock' = clock /\ budget' = budget
        /\ op'.pc = "idle"
    BY DEF Persist, Idle
  <1>2. CASE op.kind = "delete"
    <2>1. rows' = rows BY <1>2 DEF Persist
    <2>. QED BY <1>1, <2>1, DavSettle
  <1>3. CASE op.kind # "delete"
    <2>1. op.row \in Rows /\ Kept(op.row) /\ op.kind \in {"create", "update"} BY <1>1, <1>3 DEF DavInv, DavOp
    <2>2. rows \in RowFcns /\ clock \in Nat BY DavTypes
    <2> DEFINE old == rows[op.row]
               new == Returned(old)
               i == IF op.kind = "create" THEN op.id ELSE old.id
    <2>3. rows' = [rows EXCEPT ![op.row] = new] BY <1>3 DEF Persist
    <2>4. /\ old \in [val : Nat, id : Ids, uid : Nat, etag : Nat] /\ old.val \in 1..clock
          /\ \/ i = old.id
             \/ i \in Stamps /\ cards[i].state # "none" /\ cards[i].uid = old.uid
      <3>1. Carded(old) BY <2>1 DEF DavInv, DavRows
      <3>2. op.kind = "create" => op.id \in Stamps /\ cards[op.id].state # "none" /\ cards[op.id].uid = old.uid
        BY <1>1 DEF DavInv, DavOp
      <3>. QED BY <2>1, <2>2, <3>1, <3>2 DEF RowFcns, Carded
    <2>5. i \in Ids BY <2>4 DEF Ids
    <2>6. new = [[old EXCEPT !.id = i] EXCEPT !.etag = 0] BY <2>1, <2>4 DEF Returned, Dav
    <2> HIDE DEF new, i, old
    <2>7. /\ new \in [val : Nat, id : Ids, uid : Nat, etag : Nat]
          /\ new.val = old.val /\ new.uid = old.uid /\ new.id = i
      <3> DEFINE one == [old EXCEPT !.id = i]
      <3>1. one \in [val : Nat, id : Ids, uid : Nat, etag : Nat] /\ one.val = old.val /\ one.uid = old.uid /\ one.id = i
        BY <2>4, <2>5
      <3>2. new = [one EXCEPT !.etag = 0] BY <2>6
      <3> HIDE DEF one
      <3>. QED BY <3>1, <3>2
    <2>8. rows' \in RowFcns /\ \A r \in Rows : rows'[r] = IF r = op.row THEN new ELSE rows[r]
      BY <2>1, <2>2, <2>3, <2>7 DEF RowFcns
    <2>9. \A r \in Rows : Kept(r) => rows[r].uid # clock + 1 /\ rows[r].val \in 1..clock
      BY <2>2 DEF DavInv, DavRows, Carded
    <2>10. ASSUME NEW r \in Rows, rows'[r] # NoRow
           PROVE  /\ Kept(r) /\ rows'[r].uid = rows[r].uid /\ rows'[r].val \in 1..clock'
                  /\ \/ rows'[r].id = rows[r].id
                     \/ /\ rows'[r].id \in Stamps /\ cards[rows'[r].id].state # "none"
                        /\ cards[rows'[r].id].uid = rows[r].uid
      <3>1. CASE r = op.row BY <1>1, <2>1, <2>4, <2>7, <2>8, <3>1 DEF old
      <3>2. CASE r # op.row BY <1>1, <2>8, <2>9, <2>10, <3>2 DEF Kept
      <3>. QED BY <3>1, <3>2
    <2>11. DavRows' BY <1>1, <2>8, <2>9, <2>10, DavRowStep
    <2>. QED BY <1>1, <2>8, <2>11, DavEnd
  <1>. QED BY <1>2, <1>3

-----------------------------------------------------------------------------
(* The listing and its application *)

\* What is listed are cards of the server; a complete listing has all of them.
LEMMA DavListed ==
    ASSUME DavInv, NEW ids \in SUBSET Live, NEW torn \in BOOLEAN, torn \/ ids = Live, op' = Listed(Listing(ids), torn),
           cards' = cards, clock' = clock, rows' = rows, provider' = provider,
           budget' = budget \/ (budget > 0 /\ budget' = budget - 1)
    PROVE  DavInv'
  <1>1. clock \in Nat /\ budget \in Nat /\ budget \in 0..Events BY DavTypes
  <1>2. budget' \in 0..Events BY <1>1, EventsAssumption
  <1>3. DavType' /\ DavCards' BY <1>2 DEF DavInv, DavType, DavCards, Foreign, IsLive
  <1>4. DavRows' BY DEF DavInv, DavRows, Carded, Kept, Doubled, Foreign
  <1>5. op'.pc = "apply" /\ op'.seen = Listing(ids) /\ op'.torn = torn BY DEF Listed
  <1>6. /\ DOMAIN Listing(ids) = ids /\ ids \subseteq Stamps
        /\ \A i \in ids : /\ cards[i].state # "none" /\ IsLive(i)
                          /\ Listing(ids)[i].uid = cards[i].uid /\ Listing(ids)[i].val = cards[i].val
    BY DEF Listing, Live, IsLive
  <1>7. DavSeen(op.seen)' BY <1>5, <1>6 DEF DavSeen, DavInv, DavCards
  <1>8. torn \/ \A i \in Stamps, r \in Rows : IsLive(i) /\ Kept(r) /\ cards[i].uid = rows[r].uid
                  => \E j \in ids : Listing(ids)[j].uid = cards[i].uid
    BY <1>6 DEF Live, IsLive
  <1>9. DavOp'
    <2>1. (\/ op.torn
           \/ \A i \in Stamps, r \in Rows : IsLive(i) /\ Kept(r) /\ cards[i].uid = rows[r].uid
                => \E j \in DOMAIN op.seen : op.seen[j].uid = cards[i].uid)'
      BY <1>5, <1>6, <1>8 DEF IsLive, Kept
    <2>. QED BY <1>5, <1>7, <2>1 DEF DavOp
  <1>10. Request' = 0 BY <1>5 DEF Request
  <1>11. DavClock' BY <1>10, DavPaid
  <1>. QED BY <1>3, <1>4, <1>9, <1>11 DEF DavInv

\* A listing of the whole book, and a short one.
LEMMA DavListStep ==
    ASSUME Dav, DavInv, SnapshotList \/ ListShort
    PROVE  DavInv'
  <1>1. CASE SnapshotList
    <2>1. op' = Listed(Listing(Live), FALSE) BY <1>1 DEF SnapshotList, Dav
    <2>. QED BY <1>1, <2>1, DavListed DEF SnapshotList
  <1>2. CASE ListShort
    <2>1. PICK some \in SUBSET Live : op' = Listed(Listing(some), TRUE) BY <1>2 DEF ListShort
    <2>. QED BY <1>2, <2>1, DavListed DEF ListShort
  <1>. QED BY <1>1, <1>2

\* The listing, or the part of it a sync got to, card by card.
LEMMA DavSeenIs ==
    ASSUME Dav, DavInv, op.pc = "apply", NEW seen, DOMAIN seen \subseteq DOMAIN op.seen,
           \A i \in DOMAIN seen : seen[i] = op.seen[i]
    PROVE  \A i \in DOMAIN seen :
             /\ i \in Stamps /\ cards[i].state # "none" /\ seen[i].uid = cards[i].uid
             /\ seen[i].val \in 1..clock /\ seen[i].val \in Nat /\ seen[i].val # 0
             /\ seen[i].uid \in 1..clock /\ seen[i].uid \in Nat /\ seen[i].uid # 0
             /\ Match(rows, i, seen[i]) = {r \in Rows : Kept(r) /\ rows[r].uid = seen[i].uid}
  <1> SUFFICES ASSUME NEW i \in DOMAIN seen
               PROVE  /\ i \in Stamps /\ cards[i].state # "none" /\ seen[i].uid = cards[i].uid
                      /\ seen[i].val \in 1..clock /\ seen[i].val \in Nat /\ seen[i].val # 0
                      /\ seen[i].uid \in 1..clock /\ seen[i].uid \in Nat /\ seen[i].uid # 0
                      /\ Match(rows, i, seen[i]) = {r \in Rows : Kept(r) /\ rows[r].uid = seen[i].uid}
    OBVIOUS
  <1>1. i \in DOMAIN op.seen /\ seen[i] = op.seen[i] OBVIOUS
  <1>2. i \in Stamps /\ cards[i].state # "none" /\ seen[i].uid = cards[i].uid /\ seen[i].val \in 1..clock
    BY <1>1 DEF DavInv, DavOp, DavSeen
  <1>3. seen[i].uid \in 1..clock BY <1>2 DEF DavInv, DavCards
  <1>4. clock \in Nat BY DavTypes
  <1>5. seen[i].uid # 0 BY <1>3, <1>4
  <1>6. Match(rows, i, seen[i]) = {r \in Rows : Kept(r) /\ rows[r].uid = seen[i].uid}
    BY <1>5 DEF Match, Dav, Named, Stored, Kept
  <1>. QED BY <1>2, <1>3, <1>4, <1>6

\* Of the cards of one UID one can meet a row.
LEMMA DavPicks ==
    ASSUME Dav, NEW seen, NEW first \in CardPicks(seen)
    PROVE  /\ first \subseteq DOMAIN seen
           /\ \A i \in DOMAIN seen : \E j \in first : seen[j].uid = seen[i].uid
  BY DEF CardPicks, Picks, Dav

\* What a listing, or a part of one, leaves: a UID is in two rows when it was, or
\* when it is on two cards.
LEMMA DavApplied ==
    ASSUME Dav, DavInv, op.pc = "apply", NEW seen, DOMAIN seen \subseteq DOMAIN op.seen,
           \A i \in DOMAIN seen : seen[i] = op.seen[i],
           NEW mine, NEW first \in CardPicks(seen), NEW gone,
           rows' = Without(Upserted(rows, seen, mine, first), gone),
           clock' = clock, cards' = cards, provider' = provider
    PROVE  rows' \in RowFcns /\ DavRows'
  <1> DEFINE up == Upserted(rows, seen, mine, first)
  <1>1. rows' = [r \in Rows |-> IF r \in gone THEN NoRow ELSE up[r]] BY DEF Without
  <1>2. clock \in Nat /\ rows \in RowFcns /\ rows \in [Rows -> RowSet] BY DavTypes DEF RowFcns, RowSet
  <1>3. /\ first \subseteq DOMAIN seen
        /\ \A i \in DOMAIN seen : \E j \in first : seen[j].uid = seen[i].uid
    BY DavPicks
  <1>4. \A i \in DOMAIN seen :
             /\ i \in Stamps /\ cards[i].state # "none" /\ seen[i].uid = cards[i].uid
             /\ seen[i].val \in 1..clock /\ seen[i].val \in Nat
             /\ seen[i].uid \in 1..clock /\ seen[i].uid \in Nat /\ seen[i].uid # 0
             /\ Match(rows, i, seen[i]) = {r \in Rows : Kept(r) /\ rows[r].uid = seen[i].uid}
    BY DavSeenIs
  <1>5. PICK slot : \A r \in Rows :
             \/ up[r] = rows[r]
             \/ \E i \in DOMAIN seen :
                  /\ Kept(r) /\ rows[r].uid = seen[i].uid /\ up[r] \in RowSet
                  /\ up[r].val = seen[i].val /\ up[r].id = i /\ up[r].uid = seen[i].uid
             \/ \E i \in DOMAIN seen :
                  /\ i \notin first \/ \A s \in Rows : Kept(s) => rows[s].uid # seen[i].uid
                  /\ up[r] = NewRow(i, seen[i]) /\ slot[NewRow(i, seen[i])] = r
    BY <1>2, <1>3, <1>4, UpsertedIs DEF Dav
  <1> HIDE DEF up
  <1>6. \A i \in DOMAIN seen : /\ NewRow(i, seen[i]) \in RowSet /\ NewRow(i, seen[i]).val = seen[i].val
                               /\ NewRow(i, seen[i]).id = i /\ NewRow(i, seen[i]).uid = seen[i].uid
    BY <1>4, NewRowIs DEF Dav
  \* A row that is there was there with its UID, or is new.
  <1> DEFINE Old(r) == Kept(r) /\ rows'[r].uid = rows[r].uid
             New(r, i) == /\ i \notin first \/ \A s \in Rows : Kept(s) => rows[s].uid # seen[i].uid
                          /\ rows'[r].uid = seen[i].uid /\ slot[NewRow(i, seen[i])] = r
             Made(r, i) == /\ rows'[r] \in RowSet /\ rows'[r].val = seen[i].val
                           /\ rows'[r].id = i /\ rows'[r].uid = seen[i].uid
  <1>7. ASSUME NEW r \in Rows, rows'[r] # NoRow
        PROVE  /\ (Kept(r) /\ rows'[r] = rows[r]) \/ \E i \in DOMAIN seen : Made(r, i)
               /\ Old(r) \/ \E i \in DOMAIN seen : New(r, i)
    <2>1. rows'[r] = up[r] BY <1>1, <1>7
    <2>2. CASE up[r] = rows[r] BY <1>7, <2>1, <2>2 DEF Kept
    <2>3. ASSUME NEW i \in DOMAIN seen, Kept(r), rows[r].uid = seen[i].uid, up[r] \in RowSet,
                 up[r].val = seen[i].val, up[r].id = i, up[r].uid = seen[i].uid
          PROVE  Made(r, i) /\ Old(r)
      BY <2>1, <2>3
    <2>4. ASSUME NEW i \in DOMAIN seen, i \notin first \/ \A s \in Rows : Kept(s) => rows[s].uid # seen[i].uid,
                 up[r] = NewRow(i, seen[i]), slot[NewRow(i, seen[i])] = r
          PROVE  Made(r, i) /\ New(r, i)
      BY <1>6, <2>1, <2>4
    <2> HIDE DEF Made, Old, New
    <2>. QED BY <1>5, <2>2, <2>3, <2>4 DEF Old
  <1>8. rows' \in RowFcns
    <2>1. NoRow \in RowSet BY DEF NoRow, RowSet, Ids
    <2>2. \A r \in Rows : rows'[r] \in RowSet BY <1>2, <1>7, <2>1
    <2>. QED BY <1>1, <2>2 DEF RowFcns, RowSet
  <1>9. ASSUME NEW r \in Rows, rows'[r] # NoRow PROVE Carded(rows[r])'
    <2>1. CASE Kept(r) /\ rows'[r] = rows[r]
      <3>1. Carded(rows[r]) BY <2>1 DEF DavInv, DavRows
      <3>. QED BY <2>1, <3>1 DEF Carded, Foreign
    <2>2. ASSUME NEW i \in DOMAIN seen, Made(r, i) PROVE Carded(rows[r])'
      <3>1. \A j \in Stamps : Foreign(j) => cards[i].uid # j BY <1>4 DEF DavInv, DavCards
      <3>. QED BY <1>4, <2>2, <3>1 DEF Carded, Foreign
    <2>. QED BY <1>7, <1>9, <2>1, <2>2
  <1>10. ASSUME NEW i \in DOMAIN seen, NEW j \in DOMAIN seen, i # j, seen[i].uid = seen[j].uid
         PROVE  Doubled(seen[i].uid)
    BY <1>4, <1>10 DEF Doubled
  <1>11. ASSUME NEW r \in Rows, NEW s \in Rows, NEW i \in DOMAIN seen, New(r, i), Old(s), rows'[r].uid = rows'[s].uid
         PROVE  Doubled(rows'[r].uid)
    <2>1. i \notin first BY <1>11
    <2>2. PICK j \in first : seen[j].uid = seen[i].uid BY <1>3
    <2>. QED BY <1>3, <1>10, <1>11, <2>1, <2>2
  <1>12. ASSUME NEW r \in Rows, NEW s \in Rows, rows'[r] # NoRow, rows'[s] # NoRow, r # s, rows'[r].uid = rows'[s].uid
         PROVE  Doubled(rows'[r].uid)
    <2>1. CASE Old(r) /\ Old(s) BY <1>12, <2>1 DEF DavInv, DavRows
    <2>2. ASSUME NEW i \in DOMAIN seen, NEW j \in DOMAIN seen, New(r, i), New(s, j) PROVE Doubled(rows'[r].uid)
      BY <1>10, <1>12, <2>2
    <2> HIDE DEF Old, New
    <2>. QED BY <1>7, <1>11, <1>12, <2>1, <2>2
  <1>13. \A r, s \in Rows : rows'[r] # NoRow /\ rows'[s] # NoRow /\ r # s /\ rows'[r].uid = rows'[s].uid
                              => Doubled(rows[r].uid)'
    BY <1>12 DEF Doubled
  <1>14. DavRows' BY <1>9, <1>13 DEF DavRows, Kept
  <1>. QED BY <1>8, <1>14

\* A row that goes is one of an unlisted card, and a card that is there was listed.
LEMMA DavLiving ==
    ASSUME Dav, DavInv, op.pc = "apply", ~op.torn, NEW seen, DOMAIN seen \subseteq DOMAIN op.seen,
           \A i \in DOMAIN seen : seen[i] = op.seen[i],
           NEW mine, NEW first \in CardPicks(seen), NEW gone \in SUBSET Orphans(rows, op.seen, mine),
           NEW r \in Stored(rows), rows[r].id # 0, Without(Upserted(rows, seen, mine, first), gone)[r] = NoRow
    PROVE  ContactOf(rows[r]) = {}
  <1> DEFINE up == Upserted(rows, seen, mine, first)
  <1>1. r \in Rows /\ Kept(r) BY DEF Stored, Kept
  <1>2. clock \in Nat /\ cards \in CardFcns /\ rows \in [Rows -> RowSet] BY DavTypes DEF RowFcns, RowSet
  <1>3. \A i \in DOMAIN seen :
          /\ i \in Stamps /\ seen[i].val \in Nat /\ seen[i].val # 0 /\ seen[i].uid \in Nat
          /\ Match(rows, i, seen[i]) = {s \in Rows : Kept(s) /\ rows[s].uid = seen[i].uid}
    BY DavSeenIs
  <1>4. first \subseteq DOMAIN seen BY DavPicks
  <1>5. up[r] # NoRow BY <1>1, <1>2, <1>3, <1>4, KeptAfter DEF Dav
  <1>6. r \in Orphans(rows, op.seen, mine) BY <1>1, <1>5 DEF Without
  <1>7. \A i \in DOMAIN op.seen : Match(rows, i, op.seen[i]) = {s \in Rows : Kept(s) /\ rows[s].uid = op.seen[i].uid}
    BY DavSeenIs
  <1>8. \A i \in DOMAIN op.seen : rows[r].uid # op.seen[i].uid BY <1>1, <1>6, <1>7 DEF Orphans
  <1>9. rows[r].id \in Stamps BY <1>1, DavTypes DEF Ids
  <1>10. ASSUME NEW i \in Stamps, Exists(i), Resolve(rows[r].id) = i \/ cards[i].uid = rows[r].uid PROVE FALSE
    <2>1. IsLive(i) BY <1>2, <1>10, ResolveIs
    <2>2. cards[i].uid = rows[r].uid
      <3>1. CASE Resolve(rows[r].id) = i
        <4>1. rows[r].id = i BY <1>2, <1>9, <3>1, ResolveIs
        <4>. QED BY <1>1, <4>1 DEF DavInv, DavRows, Carded
      <3>. QED BY <1>10, <3>1
    <2>3. PICK j \in DOMAIN op.seen : op.seen[j].uid = cards[i].uid BY <1>1, <2>1, <2>2 DEF DavInv, DavOp
    <2>. QED BY <1>8, <2>2, <2>3
  <1>. QED BY <1>10 DEF ContactOf

\* What a sync, or the part of it that was done, applied.
LEMMA DavCommits ==
    ASSUME Dav, SnapshotApply \/ CardDavCut
    PROVE  /\ op.pc = "apply" /\ op'.pc = "idle" /\ cards' = cards /\ clock' = clock /\ provider' = provider
           /\ budget' = budget \/ (budget > 0 /\ budget' = budget - 1)
           /\ \E seen, mine : \E first \in CardPicks(seen), gone \in SUBSET Orphans(rows, op.seen, mine) :
                /\ DOMAIN seen \subseteq DOMAIN op.seen /\ \A i \in DOMAIN seen : seen[i] = op.seen[i]
                /\ rows' = Without(Upserted(rows, seen, mine, first), gone)
  <1>1. CASE SnapshotApply
    <2>1. /\ op.pc = "apply" /\ op'.pc = "idle" /\ cards' = cards /\ clock' = clock /\ provider' = provider
          /\ budget' = budget
      BY <1>1 DEF SnapshotApply, Ambiguous, Idle, Dav
    <2>2. PICK mine \in RowPicks(rows), first \in CardPicks(op.seen) : rows' = Reconciled(rows, op.seen, mine, first)
      BY <1>1 DEF SnapshotApply, Ambiguous, Dav
    <2>3. rows' = Without(Upserted(rows, op.seen, mine, first), Orphans(rows, op.seen, mine)) BY <2>2 DEF Reconciled
    <2>. QED BY <2>1, <2>3
  <1>2. CASE CardDavCut
    <2>1. /\ op.pc = "apply" /\ op'.pc = "idle" /\ cards' = cards /\ clock' = clock /\ provider' = provider
          /\ budget > 0 /\ budget' = budget - 1
      BY <1>2 DEF CardDavCut, Idle
    <2>2. PICK part \in SUBSET DOMAIN op.seen, mine \in RowPicks(rows) :
            \E some \in {[i \in part |-> op.seen[i]]} :
            \E first \in CardPicks(some), gone \in SUBSET Orphans(rows, op.seen, mine) :
              rows' = Without(Upserted(rows, some, mine, first), gone)
      BY <1>2 DEF CardDavCut
    <2> DEFINE some == [i \in part |-> op.seen[i]]
    <2>3. PICK first \in CardPicks(some), gone \in SUBSET Orphans(rows, op.seen, mine) :
            rows' = Without(Upserted(rows, some, mine, first), gone)
      BY <2>2
    <2>4. DOMAIN some \subseteq DOMAIN op.seen /\ \A i \in DOMAIN some : some[i] = op.seen[i] OBVIOUS
    <2> HIDE DEF some
    <2>. QED BY <2>1, <2>3, <2>4
  <1>. QED BY <1>1, <1>2

\* A listing is applied, or a part of it: the rows are in order, and none goes
\* whose contact is on the server, unless the listing was short.
LEMMA DavApplyStep ==
    ASSUME Dav, DavInv, SnapshotApply \/ CardDavCut
    PROVE  /\ DavInv'
           /\ \A r \in Stored(rows) : rows[r].id # 0 /\ rows'[r] = NoRow => ContactOf(rows[r]) = {} \/ op.torn
  <1>1. PICK seen, mine : \E first \in CardPicks(seen), gone \in SUBSET Orphans(rows, op.seen, mine) :
           /\ DOMAIN seen \subseteq DOMAIN op.seen /\ \A i \in DOMAIN seen : seen[i] = op.seen[i]
           /\ rows' = Without(Upserted(rows, seen, mine, first), gone)
    BY DavCommits
  <1>2. PICK first \in CardPicks(seen), gone \in SUBSET Orphans(rows, op.seen, mine) :
           /\ DOMAIN seen \subseteq DOMAIN op.seen /\ \A i \in DOMAIN seen : seen[i] = op.seen[i]
           /\ rows' = Without(Upserted(rows, seen, mine, first), gone)
    BY <1>1
  <1>3. /\ op.pc = "apply" /\ op'.pc = "idle" /\ cards' = cards /\ clock' = clock /\ provider' = provider
        /\ budget' = budget \/ (budget > 0 /\ budget' = budget - 1)
    BY DavCommits
  <1>4. rows' \in RowFcns /\ DavRows' BY <1>2, <1>3, DavApplied
  <1>5. DavInv' BY <1>3, <1>4, DavEnd
  <1>6. ASSUME ~op.torn, NEW r \in Stored(rows), rows[r].id # 0, rows'[r] = NoRow PROVE ContactOf(rows[r]) = {}
    BY <1>2, <1>3, <1>6, DavLiving
  <1>. QED BY <1>5, <1>6

\* A book with a card, whatever its name, and its row or none.
LEMMA InitDav == Init => (Dav => DavInv)
  <1> SUFFICES ASSUME Init, Dav PROVE DavInv OBVIOUS
  <1>1. clock = 2 /\ budget \in 0..Events /\ op.pc = "idle" BY DEF Init, Idle
  <1>2. 1 \in Stamps /\ 1 \in Rows BY EventsAssumption DEF Stamps, Rows
  <1>3. PICK uid \in {1, 2} :
          cards = [i \in Stamps |->
                     IF i = 1 THEN [state |-> "live", val |-> 1, uid |-> uid, rev |-> 1, prev |-> {}] ELSE NoCard]
    BY DEF Init, Dav
  <1>4. /\ cards \in CardFcns /\ cards[1].uid = uid /\ cards[1].state = "live" /\ cards[1].val = 1
        /\ \A i \in Stamps : i # 1 => cards[i].state = "none" /\ cards[i].uid = 0
    <2> DEFINE card == [state |-> "live", val |-> 1, uid |-> uid, rev |-> 1, prev |-> {}]
               C == [state : {"none", "live", "dead"}, val : Nat, uid : Nat, rev : Nat, prev : {{}}]
    <2>1. card \in C /\ NoCard \in C /\ card.uid = uid /\ card.state = "live" /\ card.val = 1
      BY DEF NoCard
    <2>2. NoCard.state = "none" /\ NoCard.uid = 0 BY DEF NoCard
    <2> HIDE DEF card
    <2>. QED BY <1>2, <1>3, <2>1, <2>2 DEF card, CardFcns
  <1>5. rows = [r \in Rows |-> rows[r]]
        /\ \A r \in Rows : rows[r] \in {NoRow, [val |-> 1, id |-> 1, uid |-> uid, etag |-> 1]}
                           /\ (rows[r] # NoRow => r = 1)
    <2>1. PICK old \in {<<>>, Legacy(provider, cards[1].uid)} :
            rows = [r \in Rows |-> IF r \in DOMAIN old THEN old[r] ELSE NoRow]
      BY DEF Init
    <2>2. CASE old = <<>>
      <3>1. DOMAIN old = {} BY <2>2
      <3>. QED BY <2>1, <3>1
    <2>3. CASE old = Legacy(provider, cards[1].uid)
      <3>1. old = <<[val |-> 1, id |-> 1, uid |-> uid, etag |-> 1]>> BY <1>4, <2>3 DEF Legacy, Dav
      <3>2. DOMAIN old = {1} /\ old[1] = [val |-> 1, id |-> 1, uid |-> uid, etag |-> 1] BY <3>1
      <3>. QED BY <2>1, <3>2
    <2>. QED BY <2>1, <2>2, <2>3
  <1>6. \A r \in Rows : rows[r] \in RowSet
                        /\ (rows[r] # NoRow => r = 1 /\ rows[r].val = 1 /\ rows[r].id = 1 /\ rows[r].uid = uid)
    <2> SUFFICES ASSUME NEW r \in Rows
                 PROVE  rows[r] \in RowSet
                        /\ (rows[r] # NoRow => r = 1 /\ rows[r].val = 1 /\ rows[r].id = 1 /\ rows[r].uid = uid)
      OBVIOUS
    <2>1. CASE rows[r] = NoRow BY <2>1 DEF NoRow, RowSet, Ids
    <2>2. CASE rows[r] = [val |-> 1, id |-> 1, uid |-> uid, etag |-> 1] BY <1>2, <1>5, <2>2 DEF RowSet, Ids
    <2>. QED BY <1>5, <2>1, <2>2
  <1>7. DavType
    <2>1. rows \in RowFcns BY <1>5, <1>6 DEF RowFcns, RowSet
    <2>. QED BY <1>1, <1>4, <2>1, EventsAssumption DEF DavType
  <1>8. \A i \in Stamps : Foreign(i) => i = 1 /\ uid = 2 BY <1>4 DEF Foreign
  <1>9. DavCards
    <2>1. \A i, j \in Stamps : Foreign(i) => cards[j].uid # i BY <1>4, <1>8
    <2>2. \A i \in Stamps : cards[i].state # "none" => i = 1 BY <1>4
    <2>3. 1 <= clock /\ uid \in 1..clock /\ 1 \in 1..clock BY <1>1
    <2>. QED BY <1>4, <2>1, <2>2, <2>3 DEF DavCards, IsLive
  <1>10. DavRows
    <2>1. 1 \in 1..clock /\ uid \in 1..clock BY <1>1
    <2>2. cards[1].state # "none" BY <1>4
    <2>3. ASSUME NEW r \in Rows, Kept(r) PROVE Carded(rows[r])
      BY <1>4, <1>6, <1>8, <2>1, <2>2, <2>3 DEF Carded, Kept
    <2>4. \A r, s \in Rows : Kept(r) /\ Kept(s) => r = s BY <1>6 DEF Kept
    <2>. QED BY <2>3, <2>4 DEF DavRows
  <1>11. DavOp BY <1>1 DEF DavOp
  <1>12. DavClock
    <2>1. Request = 0 BY <1>1 DEF Request
    <2>. QED BY <1>1, <2>1, EventsAssumption DEF DavClock
  <1>. QED BY <1>7, <1>9, <1>10, <1>11, <1>12 DEF DavInv

\* Every step of a CardDAV book preserves its invariant.
LEMMA DavInductive ==
    ASSUME Dav, DavInv, [Next]_vars
    PROVE  DavInv'
  <1>1. op.pc \in {"idle", "push", "persist", "undo", "apply"} BY DEF DavInv, DavOp
  <1>2. CASE UNCHANGED vars BY <1>2, DavSame DEF vars
  <1>3. CASE OtherChange BY <1>3, DavOtherStep
  <1>4. CASE Tick BY <1>4, DavTickStep
  <1>5. CASE Command
    <2>1. CASE Create BY <1>5, <2>1, DavCreateStep
    <2>2. ASSUME NEW r \in Stored(rows), Update(r) \/ Delete(r) PROVE DavInv'
      BY <1>5, <2>2, DavUpdateStep, DavDeleteStep
    <2>. QED BY <1>5, <2>1, <2>2 DEF Command
  <1>6. CASE Continue
    <2>1. ~GraphPage /\ ~DeferredCreate /\ ~Attach /\ ~GoogleMerge
      BY <1>1 DEF GraphPage, DeferredCreate, Attach, GoogleMerge
    <2>. QED BY <1>6, <2>1, DavPushStep, DavPersistStep, DavUndoStep, DavApplyStep DEF Continue
  <1>7. CASE Sync
    <2>1. ~GoogleList BY DEF GoogleList, Dav
    <2>. QED BY <1>7, <2>1, DavListStep DEF Sync
  <1>8. CASE ListShort BY <1>8, DavListStep
  <1>9. CASE CardDavCut BY <1>9, DavApplyStep
  <1>10. CASE Fail BY <1>10, DavFailStep
  <1>11. CASE AnswerLost BY <1>11, DavLostStep
  <1>. QED BY <1>2, <1>3, <1>4, <1>5, <1>6, <1>7, <1>8, <1>9, <1>10, <1>11 DEF Next

-----------------------------------------------------------------------------
(* The theorems *)

\* The address book's invariant, whatever the provider.
BookInv == provider \in Providers /\ KeyedInv /\ (ById => IdInv) /\ (Dav => DavInv)

\* It holds at first.
LEMMA InitBook == Init => BookInv
  BY InitKeyed, InitById, InitDav DEF BookInv, Init

\* Every step of the book preserves it, whoever takes it and whatever fails.
THEOREM BookInductive == BookInv /\ [Next]_vars => BookInv'
  <1> SUFFICES ASSUME BookInv, [Next]_vars PROVE BookInv' OBVIOUS
  <1>1. provider' = provider
    BY DEF Next, vars, OtherChange, Tick, Command, Continue, PushAnswered, Persist, Undo, SnapshotApply,
           DeferredCreate, Attach, GoogleMerge, Sync, SnapshotList, GoogleList, GraphPage,
           ListShort, CardDavCut, Fail, AnswerLost
  <1>2. KeyedInv' BY ContactsInductive DEF BookInv
  <1>3. ASSUME ById PROVE IdInv'
    <2>1. IdInv BY <1>3 DEF BookInv
    <2>2. op.pc \notin {"deferred", "attach"} BY <2>1 DEF IdInv, IdOp
    <2>3. CASE UNCHANGED vars BY <2>1, <2>3, IdSame
    <2>4. CASE OtherChange BY <1>3, <2>1, <2>4, IdOtherStep
    <2>5. CASE Tick BY <1>3, <2>1, <2>5, IdTickStep
    <2>6. CASE Command
      <3>1. CASE Create BY <1>3, <2>1, <2>6, <3>1, IdCreateStep
      <3>2. ASSUME NEW r \in Stored(rows), Update(r) \/ Delete(r) PROVE IdInv'
        BY <1>3, <2>1, <2>6, <3>2, IdUpdateStep, IdDeleteStep
      <3>. QED BY <2>6, <3>1, <3>2 DEF Command
    <2>7. CASE Continue
      <3>1. ~DeferredCreate /\ ~Attach BY <2>2 DEF DeferredCreate, Attach
      <3>. QED BY <1>3, <2>1, <2>7, <3>1, IdPushStep, IdPersistStep, IdUndoStep, IdPageStep, IdApplyStep,
             IdMergeStep DEF Continue
    <2>8. CASE Sync BY <1>3, <2>1, <2>8, IdListStep, IdGoogleListStep DEF Sync
    <2>9. CASE CardDavCut \/ ListShort BY <1>3, <2>9 DEF CardDavCut, ListShort, ById
    <2>10. CASE Fail BY <1>3, <2>1, <2>10, IdFailStep
    <2>11. CASE AnswerLost BY <1>3, <2>1, <2>11, IdLostStep
    <2>. QED BY <2>3, <2>4, <2>5, <2>6, <2>7, <2>8, <2>9, <2>10, <2>11 DEF Next
  <1>4. ASSUME Dav PROVE DavInv'
    <2>1. DavInv BY <1>4 DEF BookInv
    <2>. QED BY <1>4, <2>1, DavInductive
  <1>. QED BY <1>1, <1>2, <1>3, <1>4 DEF BookInv, ById, Dav

-----------------------------------------------------------------------------
(* No row of a living contact goes *)

\* With JMAP a row goes when its UID was not listed, and a contact of ours that is
\* still there was.
LEMMA KeyedLiving ==
    ASSUME Keyed, Inv, op.pc = "apply", NEW mine,
           NEW r \in Stored(rows), rows[r].id # 0, Reconciled(rows, op.seen, mine, DOMAIN op.seen)[r] = NoRow
    PROVE  ContactOf(rows[r]) = {}
  <1> DEFINE up == Upserted(rows, op.seen, mine, DOMAIN op.seen)
  <1>1. r \in Rows /\ Kept(r) BY DEF Stored, Kept
  <1>2. clock \in Nat /\ SeenInv(op.seen) /\ cards \in CardFcns /\ rows \in [Rows -> RowSet]
    BY DEF Inv, TypeInv, OpInv, CardFcns, RowSet
  <1>3. \A i \in DOMAIN op.seen :
          /\ i \in Stamps /\ op.seen[i].val \in Nat /\ op.seen[i].val # 0 /\ op.seen[i].uid \in Nat
          /\ Match(rows, i, op.seen[i]) = {s \in Rows : Kept(s) /\ rows[s].uid = op.seen[i].uid}
    BY <1>2, MatchIs DEF SeenInv
  <1>4. up[r] # NoRow BY <1>1, <1>2, <1>3, KeptAfter DEF Keyed
  <1>5. r \in Orphans(rows, op.seen, mine) BY <1>1, <1>4 DEF Reconciled, Without
  <1>6. \A i \in DOMAIN op.seen : rows[r].uid # op.seen[i].uid BY <1>1, <1>3, <1>5 DEF Orphans
  <1>7. rows[r].id \in Stamps BY <1>1 DEF Inv, TypeInv, Ids
  <1>8. ASSUME NEW i \in Stamps, Exists(i), Resolve(rows[r].id) = i \/ cards[i].uid = rows[r].uid PROVE FALSE
    <2>1. IsLive(i) BY <1>2, <1>8, ResolveIs
    <2>2. cards[i].uid = rows[r].uid
      <3>1. CASE Resolve(rows[r].id) = i
        <4>1. rows[r].id = i BY <1>2, <1>7, <3>1, ResolveIs
        <4>. QED BY <1>1, <2>1, <4>1 DEF Inv, RowsInv
      <3>. QED BY <1>8, <3>1
    <2>3. PICK j \in DOMAIN op.seen : op.seen[j].uid = cards[i].uid BY <1>1, <1>2, <2>1, <2>2 DEF SeenInv
    <2>. QED BY <1>6, <2>2, <2>3
  <1>. QED BY <1>8 DEF ContactOf

\* Where cards carry our UID an interrupted create is never done twice, for any
\* number of changes, commands and failures, however they interleave: with JMAP
\* no contact is there twice, with CardDAV a UID is in two rows only once it has
\* been on two cards.
THEOREM ContactsHaveNoTwin == Spec => []NoTwin
  <1>1. ASSUME Keyed, Inv
        PROVE  /\ \A i, j \in Live : i # j => cards[i].uid # cards[j].uid /\ cards[i].val # cards[j].val
               /\ \A r, s \in Stored(rows) : r # s => /\ rows[r].val # rows[s].val
                                                      /\ rows[r].uid # rows[s].uid \/ rows[r].uid = 0
    <2>1. ASSUME NEW i \in Live, NEW j \in Live, i # j PROVE cards[i].uid # cards[j].uid /\ cards[i].val # cards[j].val
      <3>1. i \in Stamps /\ j \in Stamps /\ IsLive(i) /\ IsLive(j) BY DEF Live, IsLive
      <3>2. cards[i].uid # cards[j].uid BY <1>1, <2>1, <3>1 DEF Inv, CardsInv
      <3>3. cards[i].val \in Nat /\ cards[i].uid \in Nat /\ cards[j].uid \in Nat BY <1>1, <3>1 DEF Inv, TypeInv
      <3>4. Names(cards[i].val, cards[i].uid) /\ Names(cards[j].val, cards[j].uid) BY <3>1 DEF Names
      <3>. QED BY <1>1, <3>2, <3>3, <3>4 DEF Inv, Binding
    <2>2. ASSUME NEW r \in Stored(rows), NEW s \in Stored(rows), r # s
          PROVE  rows[r].val # rows[s].val /\ rows[r].uid # rows[s].uid
      <3>1. r \in Rows /\ s \in Rows /\ Kept(r) /\ Kept(s) BY DEF Stored, Kept
      <3>2. rows[r].uid # rows[s].uid BY <1>1, <2>2, <3>1 DEF Inv, RowsInv
      <3>3. rows[r].val \in Nat /\ rows[r].uid \in Nat /\ rows[s].uid \in Nat BY <1>1, <3>1 DEF Inv, TypeInv
      <3>4. Names(rows[r].val, rows[r].uid) /\ Names(rows[s].val, rows[s].uid) BY <3>1 DEF Names
      <3>. QED BY <1>1, <3>2, <3>3, <3>4 DEF Inv, Binding
    <2>. QED BY <2>1, <2>2
  <1>2. ASSUME Dav, DavInv
        PROVE  \A r, s \in Stored(rows) : r # s /\ rows[r].uid = rows[s].uid => Doubled(rows[r].uid)
    BY <1>2 DEF DavInv, DavRows, Stored, Kept
  <1>3. BookInv => NoTwin BY <1>1, <1>2 DEF BookInv, KeyedInv, Inv, NoTwin, Keyed, Dav
  <1>. QED BY <1>3, InitBook, BookInductive, PTL DEF Spec

\* A sync that applies one state of the server takes a row away only when its
\* contact is gone from there, for any number of changes, commands and failures,
\* however they interleave with it; a listing that is not one state of the server
\* is the only way to lose the row of a living contact.
THEOREM LivingContactsAreKept == Spec => LivingContactsKept
  <1> DEFINE Goes(r) == rows[r].id # 0 /\ op.pc \in {"apply", "lookup"} /\ rows'[r] = NoRow
             Gone(r) == \/ ContactOf(rows[r]) = {}
                        \/ op.pc = "apply" /\ op.torn
  <1>1. ASSUME BookInv, [Next]_vars, NEW r \in Stored(rows), Goes(r) PROVE Gone(r)
    <2>1. r \in Rows /\ rows[r] # NoRow BY DEF Stored
    <2>2. rows' # rows BY <1>1, <2>1
    <2>3. op # Idle /\ op.pc \notin {"push", "persist", "undo", "page", "deferred", "attach"} BY <1>1 DEF Idle
    <2>4. SnapshotApply \/ GoogleMerge \/ CardDavCut \/ Fail
      BY <1>1, <2>2, <2>3 DEF Next, vars, OtherChange, Tick, Command, Continue, PushAnswered, Persist, Undo,
                              DeferredCreate, Attach, Sync, SnapshotList, GraphPage, ListShort, GoogleList, AnswerLost
    <2>5. CASE ById
      <3>1. IdInv BY <1>1, <2>5 DEF BookInv
      <3>2. CASE SnapshotApply
        <4>1. op.pc = "apply" BY <3>2 DEF SnapshotApply
        <4>. QED BY <1>1, <2>5, <3>1, <3>2, <4>1, IdApplyStep
      <3>3. CASE GoogleMerge BY <1>1, <2>5, <3>1, <3>3, IdMergeStep
      <3>4. ~CardDavCut BY <2>5 DEF CardDavCut, ById
      <3>5. CASE Fail
        <4>1. rows' = Repaired(rows) BY <2>2, <2>3, <3>5 DEF Fail
        <4>. QED BY <1>1, <2>1, <3>1, <4>1, RowsSound
      <3>. QED BY <2>4, <3>2, <3>3, <3>4, <3>5
    <2>6. CASE Keyed
      <3>1. Inv BY <1>1, <2>6 DEF BookInv, KeyedInv, Inv
      <3>2. op.pc = "apply" BY <1>1, <3>1 DEF Inv, OpInv
      <3>3. ~GoogleMerge BY <3>2 DEF GoogleMerge
      <3>4. ~CardDavCut BY <2>6 DEF CardDavCut, Keyed
      <3>5. ~Fail BY <2>2, <2>3, <2>6 DEF Fail, Keyed
      <3>6. SnapshotApply BY <2>4, <3>3, <3>4, <3>5
      <3>7. RowPicks(rows) = {Stored(rows)} /\ CardPicks(op.seen) = {DOMAIN op.seen}
        BY <2>6 DEF RowPicks, CardPicks, Picks, Keyed
      <3>8. rows' = Reconciled(rows, op.seen, Stored(rows), DOMAIN op.seen)
        BY <2>2, <2>6, <3>6, <3>7 DEF SnapshotApply, Keyed
      <3>. QED BY <1>1, <2>6, <3>1, <3>2, <3>8, KeyedLiving
    <2>7. CASE Dav
      <3>1. DavInv BY <1>1, <2>7 DEF BookInv
      <3>2. op.pc = "apply" BY <1>1, <3>1 DEF DavInv, DavOp
      <3>3. ~GoogleMerge BY <3>2 DEF GoogleMerge
      <3>4. ~Fail BY <2>2, <2>3, <2>7 DEF Fail, Dav
      <3>. QED BY <1>1, <2>4, <2>7, <3>1, <3>2, <3>3, <3>4, DavApplyStep
    <2>8. Keyed \/ ById \/ Dav BY <1>1, ProvidersAssumption DEF BookInv, Keyed, ById, Dav
    <2>. QED BY <2>5, <2>6, <2>7, <2>8
  <1>2. BookInv /\ [Next]_vars => [\A r \in Stored(rows) : Goes(r) => Gone(r)]_vars
    BY <1>1
  <1>. QED BY <1>2, InitBook, BookInductive, PTL DEF Spec, LivingContactsKept

=============================================================================
