----------------------------- MODULE FlagProofs -----------------------------
(***************************************************************************)
(* The flag queue of FlagQueue, for every set of messages, folders and     *)
(* flags and any number of commands and failures: rows can be read back,   *)
(* no delete is forgotten, and no flag change is lost.                     *)
(*                                                                         *)
(* The folds over sequences (RunMutations, FlatMap, coalesce, Superseded)  *)
(* are reasoned about by induction on the length, with the property given  *)
(* as a set (NatSetInduction, SeqSetInduction). The outcome of a run is    *)
(* compared flag by flag and message by message (Alike): a run depends, at *)
(* one flag of one message, on nothing but the mutations that cover it. So *)
(* superseding is shown to leave the outcome alone wherever the newer      *)
(* operation says nothing, and to leave only what agrees with it elsewhere *)
(* (AgreesWith), which is what makes a partly applied operation repeatable.*)
(***************************************************************************)
EXTENDS FlagQueue, SequenceTheorems, NaturalsInduction, WellFoundedInduction, TLAPS

\* Induction over the naturals, with the property as a set.
LEMMA NatSetInduction ==
    ASSUME NEW K, 0 \in K, \A k \in Nat : k \in K => k + 1 \in K
    PROVE  \A n \in Nat : n \in K
  <1> DEFINE B == {k \in Nat : k \notin K}
  <1>1. SUFFICES ASSUME B # {} PROVE FALSE
    OBVIOUS
  <1>2. \E m \in B : \A k \in B : ~(<<k, m>> \in OpToRel(<, Nat))
    BY <1>1, NatLessThanWellFounded, WFMin
  <1>3. PICK m \in B : \A k \in B : ~(<<k, m>> \in OpToRel(<, Nat))
    BY <1>2
  <1>4. m \in Nat /\ m \notin K /\ \A k \in B : k \in Nat OBVIOUS
  <1>5. \A k \in B : k < m => <<k, m>> \in OpToRel(<, Nat) BY <1>4 DEF OpToRel
  <1>6. \A k \in B : ~(k < m) BY <1>3, <1>5, Zenon
  <1>7. m # 0 BY <1>4
  <1>8. m - 1 \in Nat /\ m - 1 < m /\ (m - 1) + 1 = m BY <1>4, <1>7
  <1>9. m - 1 \in K BY <1>6, <1>8
  <1>. QED BY <1>4, <1>8, <1>9

\* Induction over sequences, with the property as a set.
LEMMA SeqSetInduction ==
    ASSUME NEW S, NEW K, << >> \in K,
           \A s \in Seq(S) : \A e \in S : s \in K => Append(s, e) \in K
    PROVE  \A s \in Seq(S) : s \in K
  <1> DEFINE N == {n \in Nat : \A s \in Seq(S) : Len(s) = n => s \in K}
  <1>1. 0 \in N
    <2>1. \A s \in Seq(S) : Len(s) = 0 => s = << >> BY EmptySeq
    <2>. QED BY <2>1
  <1>2. ASSUME NEW n \in Nat, n \in N PROVE n + 1 \in N
    <2>1. SUFFICES ASSUME NEW s \in Seq(S), Len(s) = n + 1 PROVE s \in K OBVIOUS
    <2>2. s # << >> BY <2>1
    <2>3. PICK t \in Seq(S), e \in S : s = Append(t, e) BY <2>2, SequenceEmptyOrAppend
    <2>4. Len(t) = n BY <2>1, <2>3, LenProperties, AppendProperties
    <2>5. t \in K BY <1>2, <2>4
    <2>. QED BY <2>3, <2>5
  <1>3. \A n \in Nat : n \in N
    <2> HIDE DEF N
    <2>. QED BY <1>1, <1>2, NatSetInduction
  <1>. QED BY <1>3, LenProperties

\* The largest of the first numbers.
LEMMA MaxOfInterval ==
    ASSUME NEW n \in Nat, NEW x \in SUBSET (1..n), n \in x
    PROVE  Max(x) = n
  <1>1. n \in x /\ \A y \in x : n >= y OBVIOUS
  <1>2. \A m \in x : (\A y \in x : m >= y) => m = n BY <1>1
  <1>. QED BY <1>1, <1>2 DEF Max

\* Some of the first numbers have a largest.
LEMMA MaxOfSome ==
    ASSUME NEW n \in Nat, NEW x \in SUBSET (1..n), x # {}
    PROVE  Max(x) \in x
  <1> DEFINE K == {m \in Nat : \A y \in SUBSET (1..m) :
                     y # {} => \E k \in y : \A j \in y : k >= j}
  <1>1. 0 \in K
    <2>1. 1..0 = {} OBVIOUS
    <2>. QED BY <2>1
  <1>2. ASSUME NEW m \in Nat, m \in K PROVE m + 1 \in K
    <2>1. SUFFICES ASSUME NEW y \in SUBSET (1..(m + 1)), y # {}
                   PROVE \E k \in y : \A j \in y : k >= j
      OBVIOUS
    <2>2. CASE m + 1 \in y BY <2>2
    <2>3. CASE m + 1 \notin y
      <3>1. y \in SUBSET (1..m) BY <2>3
      <3>. QED BY <1>2, <2>1, <3>1
    <2>. QED BY <2>2, <2>3
  <1>3. \A m \in Nat : m \in K
    <2> HIDE DEF K
    <2>. QED BY <1>1, <1>2, NatSetInduction
  <1>4. \E k \in x : \A j \in x : k >= j BY <1>3
  <1>. QED BY <1>4 DEF Max

\* f folds the functions g[1], ..., g[n] over base: the recursion of
\* MapThenFoldSet when it takes the largest number first.
IsFold(f, V, base, n, g) ==
    /\ f \in [SUBSET (1..n) -> V]
    /\ \A x \in SUBSET (1..n) : f[x] = IF x = {} THEN base ELSE g[Max(x)][f[x \ {Max(x)}]]

\* Such a fold exists.
LEMMA FoldExists ==
    ASSUME NEW V, NEW base \in V, NEW n \in Nat, NEW g \in [1..n -> [V -> V]]
    PROVE  \E f : IsFold(f, V, base, n, g)
  <1> DEFINE Good(m, f) == \A x \in SUBSET (1..m) :
                f[x] = IF x = {} THEN base ELSE g[Max(x)][f[x \ {Max(x)}]]
             K == {m \in Nat : m <= n => \E f \in [SUBSET (1..m) -> V] : Good(m, f)}
  <1>1. 0 \in K
    <2>1. 1..0 = {} OBVIOUS
    <2>2. [x \in SUBSET (1..0) |-> base] \in [SUBSET (1..0) -> V] OBVIOUS
    <2>3. Good(0, [x \in SUBSET (1..0) |-> base]) BY <2>1
    <2>. QED BY <2>2, <2>3
  <1>2. ASSUME NEW m \in Nat, m \in K PROVE m + 1 \in K
    <2>1. SUFFICES ASSUME m + 1 <= n
                   PROVE \E f \in [SUBSET (1..(m + 1)) -> V] : Good(m + 1, f)
      <3> HIDE DEF Good
      <3>1. m + 1 \in Nat OBVIOUS
      <3>. QED BY <3>1, Zenon
    <2>2. m <= n BY <2>1
    <2>3. PICK f \in [SUBSET (1..m) -> V] : Good(m, f)
      BY <1>2, <2>2
    <2> DEFINE h == [x \in SUBSET (1..(m + 1)) |->
                       IF m + 1 \in x THEN g[m + 1][f[x \ {m + 1}]] ELSE f[x]]
    <2>4. \A x \in SUBSET (1..(m + 1)) : x \ {m + 1} \in SUBSET (1..m)
      OBVIOUS
    <2>5. \A x \in SUBSET (1..(m + 1)) : m + 1 \notin x => x \in SUBSET (1..m)
      OBVIOUS
    <2>6. m + 1 \in 1..n /\ g[m + 1] \in [V -> V] BY <2>1
    <2>7. h \in [SUBSET (1..(m + 1)) -> V] BY <2>4, <2>5, <2>6
    <2>8. ASSUME NEW x \in SUBSET (1..(m + 1))
          PROVE h[x] = IF x = {} THEN base ELSE g[Max(x)][h[x \ {Max(x)}]]
      <3>1. CASE m + 1 \in x
        <4>1. Max(x) = m + 1 BY <3>1, MaxOfInterval
        <4>2. h[x] = g[m + 1][f[x \ {m + 1}]] BY <3>1
        <4>3. h[x \ {m + 1}] = f[x \ {m + 1}] BY <2>4
        <4>. QED BY <3>1, <4>1, <4>2, <4>3
      <3>2. CASE m + 1 \notin x
        <4>1. x \in SUBSET (1..m) /\ h[x] = f[x] BY <2>5, <3>2
        <4>2. h[x \ {Max(x)}] = f[x \ {Max(x)}] BY <3>2
        <4>3. f[x] = IF x = {} THEN base ELSE g[Max(x)][f[x \ {Max(x)}]] BY <2>3, <4>1
        <4>. QED BY <4>1, <4>2, <4>3
      <3>. QED BY <3>1, <3>2
    <2>9. Good(m + 1, h) BY <2>8
    <2>. QED BY <2>7, <2>9
  <1>3. \A m \in Nat : m \in K
    <2> HIDE DEF K
    <2>. QED BY <1>1, <1>2, NatSetInduction
  <1>4. \E f \in [SUBSET (1..n) -> V] : Good(n, f)
    <2>1. n \in K BY <1>3
    <2>2. n <= n OBVIOUS
    <2> HIDE DEF Good
    <2>. QED BY <2>1, <2>2, Zenon
  <1>. QED BY <1>4, Zenon DEF IsFold

-----------------------------------------------------------------------------
(* Mutations and what they do to one flag of one message *)

\* Every call names one flag, as every call of the user interface does.
OneFlag == \A fs \in FlagSets : \E f \in Flags : fs = {f}

\* The mutations on their way: a bulk read is one outbox_to_mail_op accepts,
\* and none names two flags if no call does.
MutationRecords == [bulk : BOOLEAN, refs : SUBSET Refs, folders : SUBSET Folders,
                    flags : SUBSET Flags, add : BOOLEAN]
Mutation == {m \in MutationRecords : /\ flag_mutation_from_json_accepts(m)
                                     /\ OneFlag => \E f \in Flags : m.flags = {f}}

Servers == [Flags -> SUBSET Refs]

\* Running a mutation on a server state gives one.
LEMMA SetFlagsType ==
    ASSUME NEW s \in Servers, NEW m \in Mutation
    PROVE  set_flags(s, m) \in Servers
  <1>1. \A t \in Servers, refs \in SUBSET Refs, flags \in SUBSET Flags, add \in BOOLEAN :
            Store(t, refs, flags, add) \in Servers
    BY DEF Store, Servers
  <1>2. RefsIn(m.folders) \in SUBSET Refs /\ m.refs \in SUBSET Refs /\ m.flags \in SUBSET Flags
        /\ m.add \in BOOLEAN
    BY DEF RefsIn, Mutation, MutationRecords
  <1>3. {"seen"} \in SUBSET Flags /\ TRUE \in BOOLEAN /\ FALSE \in BOOLEAN
    BY FlagsAssumption
  <1>4. Store(s, m.refs, m.flags, m.add) \in Servers BY <1>1, <1>2
  <1>5. Store(s, RefsIn(m.folders), {"seen"}, TRUE) \in Servers BY <1>1, <1>2, <1>3
  <1>6. Store(Store(s, RefsIn(m.folders), {"seen"}, TRUE), m.refs, {"seen"}, FALSE) \in Servers
    BY <1>1, <1>2, <1>3, <1>5
  <1>. QED BY <1>4, <1>6 DEF set_flags


\* c holds the values of a fold after each of its steps.
IsChain(c, V, base, n, g) ==
    /\ c \in [0..n -> V]
    /\ c[0] = base
    /\ \A k \in 1..n : c[k] = g[k][c[k - 1]]

\* The first n steps of two folds are the same.
SameSteps(g, g2, n) == \A i \in 1..n : g2[i] = g[i]

\* Two folds that start alike and take the same first n steps agree after them.
LEMMA ChainUnique ==
    ASSUME NEW V, NEW base, NEW n \in Nat, NEW n2 \in Nat, n <= n2,
           NEW g, NEW g2, SameSteps(g, g2, n),
           NEW c, IsChain(c, V, base, n, g), NEW d, IsChain(d, V, base, n2, g2)
    PROVE  d[n] = c[n]
  <1> DEFINE K == {k \in Nat : k <= n => d[k] = c[k]}
  <1>1. 0 \in K BY DEF IsChain
  <1>2. ASSUME NEW k \in Nat, k \in K PROVE k + 1 \in K
    <2>1. SUFFICES ASSUME k + 1 <= n PROVE d[k + 1] = c[k + 1] OBVIOUS
    <2>2. k + 1 \in 1..n /\ k + 1 \in 1..n2 /\ (k + 1) - 1 = k /\ k <= n BY <2>1
    <2>3. d[k] = c[k] BY <1>2, <2>2
    <2>4. d[k + 1] = g2[k + 1][d[k]] BY <2>2 DEF IsChain
    <2>5. c[k + 1] = g[k + 1][c[k]] BY <2>2 DEF IsChain
    <2>6. g2[k + 1] = g[k + 1] BY <2>2 DEF SameSteps
    <2>. QED BY <2>3, <2>4, <2>5, <2>6
  <1>3. \A k \in Nat : k \in K
    <2> HIDE DEF K
    <2>. QED BY <1>1, <1>2, NatSetInduction
  <1>. QED BY <1>3

\* f takes the steps g along 1..0, 1..1, ..., 1..n.
StepsAlong(f, V, base, n, g) ==
    /\ f[{}] = base
    /\ \A k \in 1..n : f[1..(k - 1)] \in V => f[1..k] = g[k][f[1..(k - 1)]]

\* The recursion over sets of numbers, read along 1..0, 1..1, ..., 1..n.
LEMMA ChainOfIter ==
    ASSUME NEW V, NEW base \in V, NEW n \in Nat, NEW g \in [1..n -> [V -> V]],
           NEW f, StepsAlong(f, V, base, n, g)
    PROVE  IsChain([k \in 0..n |-> f[1..k]], V, base, n, g)
  <1> DEFINE c == [k \in 0..n |-> f[1..k]]
             K == {k \in Nat : k <= n => f[1..k] \in V}
  <1>1. 1..0 = {} OBVIOUS
  <1>2. 0 \in K BY <1>1 DEF StepsAlong
  <1>3. ASSUME NEW k \in Nat, k \in K PROVE k + 1 \in K
    <2>1. SUFFICES ASSUME k + 1 <= n PROVE f[1..(k + 1)] \in V OBVIOUS
    <2>2. k + 1 \in 1..n /\ (k + 1) - 1 = k /\ k <= n BY <2>1
    <2>3. f[1..k] \in V BY <1>3, <2>2
    <2>4. f[1..(k + 1)] = g[k + 1][f[1..k]] BY <2>2, <2>3 DEF StepsAlong
    <2>5. g[k + 1] \in [V -> V] BY <2>2
    <2>. QED BY <2>3, <2>4, <2>5
  <1>4. \A k \in Nat : k \in K
    <2> HIDE DEF K
    <2>. QED BY <1>2, <1>3, NatSetInduction
  <1>5. \A k \in 0..n : f[1..k] \in V BY <1>4
  <1>6. c \in [0..n -> V] BY <1>5
  <1>7. c[0] = base BY <1>1 DEF StepsAlong
  <1>8. ASSUME NEW k \in 1..n PROVE c[k] = g[k][c[k - 1]]
    <2>1. k \in 0..n /\ k - 1 \in 0..n OBVIOUS
    <2>2. c[k] = f[1..k] /\ c[k - 1] = f[1..(k - 1)] BY <2>1
    <2>3. f[1..(k - 1)] \in V BY <1>5, <2>1
    <2>. QED BY <2>2, <2>3 DEF StepsAlong
  <1> HIDE DEF c
  <1>9. IsChain(c, V, base, n, g) BY <1>6, <1>7, <1>8 DEF IsChain
  <1>. QED BY <1>9 DEF c

\* The steps of running mutations.
RunSteps(ms) == [i \in 1..Len(ms) |-> [v \in Servers |-> set_flags(v, ms[i])]]

\* Each step of a run takes server states to server states.
LEMMA RunStepsType ==
    ASSUME NEW ms \in Seq(Mutation)
    PROVE  /\ Len(ms) \in Nat /\ \A i \in 1..Len(ms) : ms[i] \in Mutation
           /\ RunSteps(ms) \in [1..Len(ms) -> [Servers -> Servers]]
  <1>1. Len(ms) \in Nat /\ \A i \in 1..Len(ms) : ms[i] \in Mutation BY LenProperties, ElementOfSeq
  <1>. QED BY <1>1, SetFlagsType DEF RunSteps

\* Running mutations is the fold of these steps.
LEMMA RunChain ==
    ASSUME NEW s \in Servers, NEW ms \in Seq(Mutation)
    PROVE  \E c : /\ IsChain(c, Servers, s, Len(ms), RunSteps(ms))
                  /\ RunMutations(s, ms) = c[Len(ms)]
  <1> DEFINE n == Len(ms)
             G(f) == [x \in SUBSET (1..n) |->
                        IF x = {} THEN s ELSE set_flags(f[x \ {Max(x)}], ms[Max(x)])]
             iter == CHOOSE f : f = G(f)
             g == RunSteps(ms)
  <1>1. DOMAIN ms = 1..n BY LenProperties
  <1>2. RunMutations(s, ms) = iter[1..n]
    BY <1>1 DEF RunMutations, FoldLeft, MapThenFoldSet
  <1>3. n \in Nat /\ (\A i \in 1..n : ms[i] \in Mutation) /\ g \in [1..n -> [Servers -> Servers]]
    BY RunStepsType
  <1>4. \A i \in 1..n : \A v \in Servers : g[i][v] = set_flags(v, ms[i]) BY DEF RunSteps
  <1>5. \E f : f = G(f)
    <2>1. PICK f : IsFold(f, Servers, s, n, g)
      <3> HIDE DEF g, n
      <3>. QED BY <1>3, FoldExists
    <2>2. \A x \in SUBSET (1..n) : x # {} => Max(x) \in 1..n /\ x \ {Max(x)} \in SUBSET (1..n)
      <3> HIDE DEF n
      <3>. QED BY <1>3, MaxOfSome
    <2>3. \A x \in SUBSET (1..n) : x # {} =>
             g[Max(x)][f[x \ {Max(x)}]] = set_flags(f[x \ {Max(x)}], ms[Max(x)])
      BY <1>4, <2>1, <2>2 DEF IsFold
    <2>4. f = G(f) BY <2>1, <2>3 DEF IsFold
    <2>. QED BY <2>4
  <1>6. iter = G(iter) BY <1>5
  <1> HIDE DEF iter
  <1>7. iter[{}] = s BY <1>6
  <1>8. ASSUME NEW k \in 1..n, iter[1..(k - 1)] \in Servers
        PROVE  iter[1..k] = g[k][iter[1..(k - 1)]]
    <2>1. k \in Nat /\ 1..k \in SUBSET (1..n) /\ 1..k # {} /\ k \in 1..k BY <1>3
    <2>2. Max(1..k) = k BY <2>1, MaxOfInterval
    <2>3. (1..k) \ {k} = 1..(k - 1) BY <2>1
    <2>4. iter[1..k] = set_flags(iter[(1..k) \ {Max(1..k)}], ms[Max(1..k)]) BY <1>6, <2>1
    <2>. QED BY <1>4, <1>8, <2>2, <2>3, <2>4
  <1> DEFINE c == [k \in 0..n |-> iter[1..k]]
  <1>9. IsChain(c, Servers, s, n, g)
    <2> HIDE DEF g, n
    <2>1. StepsAlong(iter, Servers, s, n, g) BY <1>7, <1>8 DEF StepsAlong
    <2>. QED BY <1>3, <2>1, ChainOfIter
  <1>10. c[n] = iter[1..n] BY <1>3
  <1> HIDE DEF c
  <1>. QED BY <1>2, <1>9, <1>10

\* Running mutations, one more at the end.
LEMMA RunAppend ==
    ASSUME NEW s \in Servers, NEW ms \in Seq(Mutation), NEW m \in Mutation
    PROVE  RunMutations(s, Append(ms, m)) = set_flags(RunMutations(s, ms), m)
  <1> DEFINE n == Len(ms)
             ns == Append(ms, m)
  <1>1. PICK c : IsChain(c, Servers, s, n, RunSteps(ms)) /\ RunMutations(s, ms) = c[n]
    BY RunChain
  <1>2. ns \in Seq(Mutation) /\ Len(ns) = n + 1 /\ n \in Nat
        /\ (\A i \in 1..n : ns[i] = ms[i]) /\ ns[n + 1] = m
    BY AppendProperties, LenProperties
  <1>3. PICK d : IsChain(d, Servers, s, n + 1, RunSteps(ns)) /\ RunMutations(s, ns) = d[n + 1]
    <2> HIDE DEF ns, n
    <2>. QED BY <1>2, RunChain
  <1>4. SameSteps(RunSteps(ms), RunSteps(ns), n) BY <1>2 DEF RunSteps, SameSteps
  <1>5. d[n] = c[n]
    <2> HIDE DEF ns, n
    <2>1. n <= n + 1 /\ n + 1 \in Nat BY <1>2
    <2>. QED BY <1>1, <1>2, <1>3, <1>4, <2>1, ChainUnique
  <1>6. d[n + 1] = RunSteps(ns)[n + 1][d[n]] /\ d[n] \in Servers
    <2> HIDE DEF ns, n
    <2>1. n + 1 \in 1..(n + 1) /\ (n + 1) - 1 = n /\ n \in 0..(n + 1) BY <1>2
    <2>. QED BY <1>3, <2>1 DEF IsChain
  <1>7. RunSteps(ns)[n + 1][d[n]] = set_flags(d[n], m) BY <1>2, <1>6 DEF RunSteps
  <1>. QED BY <1>1, <1>3, <1>5, <1>6, <1>7

\* Running nothing changes nothing, and the result is a server state.
LEMMA RunEmpty ==
    ASSUME NEW s \in Servers
    PROVE  RunMutations(s, << >>) = s
  <1>1. << >> \in Seq(Mutation) /\ Len(<< >>) = 0 BY EmptySeq
  <1>. QED BY <1>1, RunChain DEF IsChain

\* Running a sequence of mutations on a server state gives one.
LEMMA RunType ==
    ASSUME NEW s \in Servers, NEW ms \in Seq(Mutation)
    PROVE  RunMutations(s, ms) \in Servers
  <1>1. PICK c : IsChain(c, Servers, s, Len(ms), RunSteps(ms)) /\ RunMutations(s, ms) = c[Len(ms)]
    BY RunChain
  <1>2. Len(ms) \in 0..Len(ms) BY LenProperties
  <1>. QED BY <1>1, <1>2 DEF IsChain

\* Concatenation is associative, in the form the provers use best.
LEMMA ConcatAssoc == \A S : \A a, b, c \in Seq(S) : (a \o b) \o c = a \o (b \o c)
  BY ConcatAssociative

\* Appending to a concatenation.
LEMMA AppendOfConcat == \A S : \A a, b \in Seq(S) : \A e \in S : a \o Append(b, e) = Append(a \o b, e)
  <1> SUFFICES ASSUME NEW S, NEW a \in Seq(S), NEW b \in Seq(S), NEW e \in S
               PROVE  a \o Append(b, e) = Append(a \o b, e)
    OBVIOUS
  <1>1. <<e>> \in Seq(S) BY AppendProperties, EmptySeq
  <1>2. Append(b, e) = b \o <<e>> BY AppendIsConcat
  <1>3. a \o b \in Seq(S) BY ConcatProperties
  <1>4. Append(a \o b, e) = (a \o b) \o <<e>> BY <1>3, AppendIsConcat
  <1>5. (a \o b) \o <<e>> = a \o (b \o <<e>>) BY <1>1, ConcatAssoc
  <1>. QED BY <1>2, <1>4, <1>5, Zenon

\* Running one list of mutations after another.
LEMMA RunConcat ==
    ASSUME NEW s \in Servers, NEW xs \in Seq(Mutation), NEW ys \in Seq(Mutation)
    PROVE  RunMutations(s, xs \o ys) = RunMutations(RunMutations(s, xs), ys)
  <1> DEFINE K == {b \in Seq(Mutation) : RunMutations(s, xs \o b) = RunMutations(RunMutations(s, xs), b)}
  <1>1. RunMutations(s, xs) \in Servers BY RunType
  <1>2. << >> \in K
    <2>1. << >> \in Seq(Mutation) /\ xs \o << >> = xs BY EmptySeq, ConcatEmptySeq
    <2>2. RunMutations(RunMutations(s, xs), << >>) = RunMutations(s, xs) BY <1>1, RunEmpty
    <2>. QED BY <2>1, <2>2
  <1>3. ASSUME NEW b \in Seq(Mutation), NEW m \in Mutation, b \in K PROVE Append(b, m) \in K
    <2>1. Append(b, m) \in Seq(Mutation) BY AppendProperties
    <2>2. xs \o b \in Seq(Mutation) BY ConcatProperties
    <2>3. xs \o Append(b, m) = Append(xs \o b, m)
      <3> HIDE DEF K
      <3>. QED BY ONLY xs \in Seq(Mutation), b \in Seq(Mutation), m \in Mutation, AppendOfConcat
    <2>4. RunMutations(s, Append(xs \o b, m)) = set_flags(RunMutations(s, xs \o b), m) BY <2>2, RunAppend
    <2>5. RunMutations(RunMutations(s, xs), Append(b, m)) = set_flags(RunMutations(RunMutations(s, xs), b), m)
      BY <1>1, RunAppend
    <2>6. RunMutations(s, xs \o b) = RunMutations(RunMutations(s, xs), b) BY <1>3
    <2>. QED BY <2>1, <2>3, <2>4, <2>5, <2>6
  <1>4. \A b \in Seq(Mutation) : b \in K
    <2> HIDE DEF K
    <2>. QED BY <1>2, <1>3, SeqSetInduction
  <1>. QED BY <1>4

\* Running a single mutation.
LEMMA RunOne ==
    ASSUME NEW s \in Servers, NEW m \in Mutation
    PROVE  RunMutations(s, <<m>>) = set_flags(s, m)
  <1>1. << >> \in Seq(Mutation) /\ Append(<< >>, m) = <<m>> BY EmptySeq
  <1>2. RunMutations(s, Append(<< >>, m)) = set_flags(RunMutations(s, << >>), m) BY <1>1, RunAppend
  <1>. QED BY <1>1, <1>2, RunEmpty

-----------------------------------------------------------------------------
(* Flattening *)

\* The steps of FlattenSeq.
FlattenSteps(ss, Y) == [i \in 1..Len(ss) |-> [v \in Seq(Y) |-> v \o ss[i]]]

\* Each step of a flattening extends a sequence by an inner one.
LEMMA FlattenStepsType ==
    ASSUME NEW Y, NEW ss \in Seq(Seq(Y))
    PROVE  /\ Len(ss) \in Nat /\ \A i \in 1..Len(ss) : ss[i] \in Seq(Y)
           /\ FlattenSteps(ss, Y) \in [1..Len(ss) -> [Seq(Y) -> Seq(Y)]]
  <1>1. Len(ss) \in Nat /\ \A i \in 1..Len(ss) : ss[i] \in Seq(Y) BY LenProperties, ElementOfSeq
  <1>2. \A v \in Seq(Y), w \in Seq(Y) : v \o w \in Seq(Y) BY ConcatProperties
  <1>. QED BY <1>1, <1>2 DEF FlattenSteps

\* Every fold has a chain.
LEMMA ChainExists ==
    ASSUME NEW V, NEW base \in V, NEW n \in Nat, NEW g \in [1..n -> [V -> V]]
    PROVE  \E c : IsChain(c, V, base, n, g)
  <1>1. PICK f : IsFold(f, V, base, n, g) BY FoldExists
  <1>2. f[{}] = base BY <1>1 DEF IsFold
  <1>3. ASSUME NEW k \in 1..n PROVE f[1..k] = g[k][f[1..(k - 1)]]
    <2>1. k \in Nat /\ k <= n /\ k \in 1..k OBVIOUS
    <2>11. 1..k \in SUBSET (1..n) /\ 1..k # {} BY <2>1
    <2>2. Max(1..k) = k BY <2>1, MaxOfInterval
    <2>3. (1..k) \ {k} = 1..(k - 1) BY <2>1
    <2>. QED BY <1>1, <2>1, <2>11, <2>2, <2>3 DEF IsFold
  <1>4. StepsAlong(f, V, base, n, g) BY <1>2, <1>3 DEF StepsAlong
  <1>5. IsChain([k \in 0..n |-> f[1..k]], V, base, n, g) BY <1>4, ChainOfIter
  <1>. QED BY <1>5

\* FlattenSeq is the fold of these steps.
LEMMA FlattenChain ==
    ASSUME NEW Y, NEW ss \in Seq(Seq(Y))
    PROVE  \E c : /\ IsChain(c, Seq(Y), << >>, Len(ss), FlattenSteps(ss, Y))
                  /\ FlattenSeq(ss) = c[Len(ss)]
  <1> DEFINE n == Len(ss)
             G(f) == [i \in 1..n |-> IF i = 1 THEN ss[i] ELSE f[i - 1] \o ss[i]]
             flatten == CHOOSE f : f = G(f)
             g == FlattenSteps(ss, Y)
  <1>1. n \in Nat /\ (\A i \in 1..n : ss[i] \in Seq(Y)) /\ g \in [1..n -> [Seq(Y) -> Seq(Y)]]
    BY FlattenStepsType
  <1>2. << >> \in Seq(Y) BY EmptySeq
  <1>3. PICK c : IsChain(c, Seq(Y), << >>, n, g)
    <2> HIDE DEF n, g
    <2>. QED BY <1>1, <1>2, ChainExists
  <1>4. \A i \in 1..n : \A v \in Seq(Y) : g[i][v] = v \o ss[i] BY DEF FlattenSteps
  <1>5. \A i \in 1..n : c[i - 1] \in Seq(Y) /\ c[i] = c[i - 1] \o ss[i]
    <2> SUFFICES ASSUME NEW i \in 1..n PROVE c[i - 1] \in Seq(Y) /\ c[i] = c[i - 1] \o ss[i]
      OBVIOUS
    <2> HIDE DEF n, g
    <2>1. i - 1 \in 0..n BY <1>1
    <2>2. c[i - 1] \in Seq(Y) /\ c[i] = g[i][c[i - 1]] BY <1>3, <2>1 DEF IsChain
    <2>. QED BY <1>4, <2>2
  <1>6. CASE n = 0
    <2>1. FlattenSeq(ss) = << >> BY <1>6, EmptySeq DEF FlattenSeq
    <2>. QED BY <1>3, <1>6, <2>1 DEF IsChain
  <1>7. CASE n # 0
    <2>1. FlattenSeq(ss) = flatten[n] BY <1>7 DEF FlattenSeq
    <2> DEFINE d == [i \in 1..n |-> c[i]]
    <2>2. d = G(d)
      <3>1. ASSUME NEW i \in 1..n PROVE c[i] = IF i = 1 THEN ss[i] ELSE d[i - 1] \o ss[i]
        <4>1. CASE i = 1
          <5>1. c[0] = << >> BY <1>3 DEF IsChain
          <5>2. << >> \o ss[i] = ss[i] BY <1>1, ConcatEmptySeq
          <5>3. i - 1 = 0 BY <4>1
          <5>4. c[i] = c[0] \o ss[i] BY <1>5, <5>3
          <5>. QED BY <4>1, <5>1, <5>2, <5>4
        <4>2. CASE i # 1
          <5>1. i - 1 \in 1..n BY <1>1, <4>2
          <5>. QED BY <1>5, <4>2, <5>1
        <4>. QED BY <4>1, <4>2
      <3>. QED BY <3>1
    <2>3. flatten = G(flatten) BY <2>2
    <2> HIDE DEF flatten
    <2> DEFINE K == {k \in Nat : k + 1 <= n => flatten[k + 1] = c[k + 1]}
    <2>4. 0 \in K
      <3>1. 1 \in 1..n BY <1>1, <1>7
      <3>2. flatten[1] = ss[1] BY <2>3, <3>1
      <3>3. c[0] = << >> /\ << >> \o ss[1] = ss[1] BY <1>1, <1>3, <3>1, ConcatEmptySeq DEF IsChain
      <3>4. 1 - 1 = 0 OBVIOUS
      <3>5. c[1] = c[0] \o ss[1] BY <1>5, <3>1, <3>4
      <3>6. c[1] = ss[1] BY <3>3, <3>5
      <3>. QED BY <3>2, <3>6
    <2>5. ASSUME NEW k \in Nat, k \in K PROVE k + 1 \in K
      <3>1. SUFFICES ASSUME k + 1 + 1 <= n PROVE flatten[k + 1 + 1] = c[k + 1 + 1] OBVIOUS
      <3>2. k + 1 + 1 \in 1..n /\ k + 1 + 1 # 1 /\ (k + 1 + 1) - 1 = k + 1 /\ k + 1 <= n
        BY <1>1, <3>1
      <3>3. flatten[k + 1 + 1] = flatten[k + 1] \o ss[k + 1 + 1] BY <2>3, <3>2
      <3>4. c[k + 1 + 1] = c[k + 1] \o ss[k + 1 + 1] BY <1>5, <3>2
      <3>5. flatten[k + 1] = c[k + 1] BY <2>5, <3>2
      <3>. QED BY <3>3, <3>4, <3>5
    <2>6. \A k \in Nat : k \in K
      <3> HIDE DEF K
      <3>. QED BY <2>4, <2>5, NatSetInduction
    <2>7. n - 1 \in Nat /\ (n - 1) + 1 = n /\ (n - 1) + 1 <= n BY <1>1, <1>7
    <2>8. flatten[n] = c[n]
      <3>1. n - 1 \in K BY <2>6, <2>7
      <3>. QED BY <2>7, <3>1
    <2>. QED BY <1>3, <2>1, <2>8
  <1>. QED BY <1>6, <1>7

\* Flattening one list more.
LEMMA FlattenAppend ==
    ASSUME NEW Y, NEW ss \in Seq(Seq(Y)), NEW t \in Seq(Y)
    PROVE  FlattenSeq(Append(ss, t)) = FlattenSeq(ss) \o t
  <1> DEFINE n == Len(ss)
             ts == Append(ss, t)
  <1>1. PICK c : IsChain(c, Seq(Y), << >>, n, FlattenSteps(ss, Y)) /\ FlattenSeq(ss) = c[n]
    BY FlattenChain
  <1>2. ts \in Seq(Seq(Y)) /\ Len(ts) = n + 1 /\ n \in Nat
        /\ (\A i \in 1..n : ts[i] = ss[i]) /\ ts[n + 1] = t
    BY AppendProperties, LenProperties
  <1>3. PICK d : IsChain(d, Seq(Y), << >>, n + 1, FlattenSteps(ts, Y)) /\ FlattenSeq(ts) = d[n + 1]
    <2> HIDE DEF ts, n
    <2>. QED BY <1>2, FlattenChain
  <1>4. SameSteps(FlattenSteps(ss, Y), FlattenSteps(ts, Y), n) BY <1>2 DEF FlattenSteps, SameSteps
  <1>5. d[n] = c[n]
    <2> HIDE DEF ts, n
    <2>1. n <= n + 1 /\ n + 1 \in Nat BY <1>2
    <2>. QED BY <1>1, <1>2, <1>3, <1>4, <2>1, ChainUnique
  <1>6. d[n + 1] = FlattenSteps(ts, Y)[n + 1][d[n]] /\ d[n] \in Seq(Y)
    <2> HIDE DEF ts, n
    <2>1. n + 1 \in 1..(n + 1) /\ (n + 1) - 1 = n /\ n \in 0..(n + 1) BY <1>2
    <2>. QED BY <1>3, <2>1 DEF IsChain
  <1>7. FlattenSteps(ts, Y)[n + 1][d[n]] = d[n] \o t
    <2> HIDE DEF ts, n
    <2>1. n + 1 \in 1..Len(ts) BY <1>2
    <2>2. FlattenSteps(ts, Y)[n + 1] = [v \in Seq(Y) |-> v \o ts[n + 1]] BY <2>1 DEF FlattenSteps
    <2>. QED BY <1>2, <1>6, <2>2
  <1>. QED BY <1>1, <1>3, <1>5, <1>6, <1>7

\* Flattening nothing gives nothing.
LEMMA FlattenEmpty == FlattenSeq(<< >>) = << >>
  BY EmptySeq DEF FlattenSeq

\* Flattening sequences over a set gives a sequence over it.
LEMMA FlattenType ==
    ASSUME NEW Y, NEW ss \in Seq(Seq(Y))
    PROVE  FlattenSeq(ss) \in Seq(Y)
  <1>1. PICK c : IsChain(c, Seq(Y), << >>, Len(ss), FlattenSteps(ss, Y)) /\ FlattenSeq(ss) = c[Len(ss)]
    BY FlattenChain
  <1>2. Len(ss) \in 0..Len(ss) BY LenProperties
  <1>. QED BY <1>1, <1>2 DEF IsChain

\* FlatMap of a function instead of an operator.
FlatOf(F, s) == FlattenSeq([i \in 1..Len(s) |-> F[s[i]]])

\* Applying a function to each element keeps the length.
LEMMA MapType ==
    ASSUME NEW X, NEW Z, NEW F \in [X -> Z], NEW s \in Seq(X)
    PROVE  /\ [i \in 1..Len(s) |-> F[s[i]]] \in Seq(Z)
           /\ Len([i \in 1..Len(s) |-> F[s[i]]]) = Len(s)
  <1>1. Len(s) \in Nat /\ \A i \in 1..Len(s) : s[i] \in X BY LenProperties, ElementOfSeq
  <1>2. [i \in 1..Len(s) |-> F[s[i]]] \in [1..Len(s) -> Z] BY <1>1
  <1>3. [i \in 1..Len(s) |-> F[s[i]]] \in Seq(Z) BY <1>1, <1>2, SeqDef
  <1>4. DOMAIN [i \in 1..Len(s) |-> F[s[i]]] = 1..Len(s) OBVIOUS
  <1>. QED BY <1>1, <1>3, <1>4, LenProperties

\* Applying a function to each element commutes with Append.
LEMMA MapAppend ==
    ASSUME NEW X, NEW Z, NEW F \in [X -> Z], NEW s \in Seq(X), NEW e \in X
    PROVE  [i \in 1..Len(Append(s, e)) |-> F[Append(s, e)[i]]]
             = Append([i \in 1..Len(s) |-> F[s[i]]], F[e])
  <1> DEFINE t == Append(s, e)
             u == [i \in 1..Len(s) |-> F[s[i]]]
             v == [i \in 1..Len(t) |-> F[t[i]]]
  <1>1. t \in Seq(X) /\ Len(t) = Len(s) + 1 /\ Len(s) \in Nat
        /\ (\A i \in 1..Len(s) : t[i] = s[i]) /\ t[Len(s) + 1] = e
    BY AppendProperties, LenProperties
  <1>2. u \in Seq(Z) /\ Len(u) = Len(s) BY MapType
  <1>3. v \in Seq(Z) /\ Len(v) = Len(t)
    <2> HIDE DEF t
    <2>. QED BY <1>1, MapType
  <1>4. F[e] \in Z OBVIOUS
  <1>5. Append(u, F[e]) \in Seq(Z) /\ Len(Append(u, F[e])) = Len(s) + 1
        /\ (\A i \in 1..Len(s) : Append(u, F[e])[i] = u[i]) /\ Append(u, F[e])[Len(s) + 1] = F[e]
    <2> HIDE DEF u
    <2>. QED BY <1>2, <1>4, AppendProperties
  <1>6. \A i \in 1..Len(v) : v[i] = Append(u, F[e])[i]
    <2> SUFFICES ASSUME NEW i \in 1..Len(v) PROVE v[i] = Append(u, F[e])[i] OBVIOUS
    <2>1. i \in 1..Len(t) /\ v[i] = F[t[i]] BY <1>3
    <2>2. CASE i \in 1..Len(s)
      <3>1. u[i] = F[s[i]] BY <2>2
      <3> HIDE DEF u, v, t
      <3>. QED BY <1>1, <1>5, <2>1, <2>2, <3>1
    <2>3. CASE i = Len(s) + 1
      <3> HIDE DEF u, v, t
      <3>. QED BY <1>1, <1>5, <2>1, <2>3
    <2> HIDE DEF u, v, t
    <2>4. i \in 1..Len(s) \/ i = Len(s) + 1 BY <1>1, <2>1
    <2>. QED BY <2>2, <2>3, <2>4
  <1> HIDE DEF u, v, t
  <1>7. v = Append(u, F[e]) BY <1>1, <1>3, <1>5, <1>6, SeqEqual
  <1>. QED BY <1>7 DEF u, v, t

\* FlatOf, on the empty sequence.
LEMMA FlatOfEmpty == \A F : FlatOf(F, << >>) = << >>
  <1> SUFFICES ASSUME NEW F PROVE FlatOf(F, << >>) = << >> OBVIOUS
  <1>1. Len(<< >>) = 0 /\ 1..0 = {} BY EmptySeq
  <1>2. [i \in 1..Len(<< >>) |-> F[<< >>[i]]] = << >> BY <1>1
  <1>. QED BY <1>2, FlattenEmpty DEF FlatOf

\* FlatOf gives a sequence over the inner elements.
LEMMA FlatOfType ==
    ASSUME NEW X, NEW Y, NEW F \in [X -> Seq(Y)], NEW s \in Seq(X)
    PROVE  FlatOf(F, s) \in Seq(Y)
  <1> DEFINE u == [i \in 1..Len(s) |-> F[s[i]]]
  <1>1. u \in Seq(Seq(Y)) BY MapType
  <1> HIDE DEF u
  <1>2. FlattenSeq(u) \in Seq(Y) BY <1>1, FlattenType
  <1>. QED BY <1>2 DEF FlatOf, u

\* FlatOf, element by element from the right.
LEMMA FlatOfAppend ==
    ASSUME NEW X, NEW Y, NEW F \in [X -> Seq(Y)], NEW s \in Seq(X), NEW e \in X
    PROVE  FlatOf(F, Append(s, e)) = FlatOf(F, s) \o F[e]
  <1> DEFINE u == [i \in 1..Len(s) |-> F[s[i]]]
  <1>1. u \in Seq(Seq(Y)) BY MapType
  <1>2. FlatOf(F, Append(s, e)) = FlattenSeq(Append(u, F[e]))
    <2>1. [i \in 1..Len(Append(s, e)) |-> F[Append(s, e)[i]]] = Append(u, F[e]) BY MapAppend
    <2> HIDE DEF u
    <2>. QED BY <2>1, Zenon DEF FlatOf
  <1>3. F[e] \in Seq(Y) OBVIOUS
  <1>4. FlattenSeq(Append(u, F[e])) = FlattenSeq(u) \o F[e]
    <2> HIDE DEF u
    <2>. QED BY <1>1, <1>3, FlattenAppend
  <1>. QED BY <1>2, <1>4 DEF FlatOf

\* Flattening the image of a concatenation.
LEMMA FlatOfConcat ==
    \A X, Y : \A F \in [X -> Seq(Y)] : \A s, t \in Seq(X) :
        FlatOf(F, s \o t) = FlatOf(F, s) \o FlatOf(F, t)
  <1> SUFFICES ASSUME NEW X, NEW Y, NEW F \in [X -> Seq(Y)], NEW s \in Seq(X), NEW t \in Seq(X)
               PROVE  FlatOf(F, s \o t) = FlatOf(F, s) \o FlatOf(F, t)
    OBVIOUS
  <1> DEFINE K == {b \in Seq(X) : FlatOf(F, s \o b) = FlatOf(F, s) \o FlatOf(F, b)}
  <1>1. FlatOf(F, s) \in Seq(Y) BY FlatOfType
  <1>2. << >> \in K
    <2>1. << >> \in Seq(X) /\ s \o << >> = s BY EmptySeq, ConcatEmptySeq
    <2>2. FlatOf(F, << >>) = << >> BY FlatOfEmpty
    <2>3. FlatOf(F, s) \o << >> = FlatOf(F, s) BY <1>1, ConcatEmptySeq
    <2>. QED BY <2>1, <2>2, <2>3
  <1>3. ASSUME NEW b \in Seq(X), NEW e \in X, b \in K PROVE Append(b, e) \in K
    <2>1. Append(b, e) \in Seq(X) BY AppendProperties
    <2>2. s \o b \in Seq(X) BY ConcatProperties
    <2>3. s \o Append(b, e) = Append(s \o b, e)
      BY ONLY s \in Seq(X), b \in Seq(X), e \in X, AppendOfConcat
    <2>4. FlatOf(F, Append(s \o b, e)) = FlatOf(F, s \o b) \o F[e] BY <2>2, FlatOfAppend
    <2>5. FlatOf(F, Append(b, e)) = FlatOf(F, b) \o F[e] BY FlatOfAppend
    <2>6. FlatOf(F, s \o b) = FlatOf(F, s) \o FlatOf(F, b) BY <1>3
    <2>7. FlatOf(F, b) \in Seq(Y) /\ F[e] \in Seq(Y) BY FlatOfType
    <2>8. (FlatOf(F, s) \o FlatOf(F, b)) \o F[e] = FlatOf(F, s) \o (FlatOf(F, b) \o F[e])
      BY ONLY <1>1, <2>7, ConcatAssoc
    <2>. QED BY <2>1, <2>3, <2>4, <2>5, <2>6, <2>8
  <1>4. \A b \in Seq(X) : b \in K
    <2> HIDE DEF K
    <2>. QED BY <1>2, <1>3, SeqSetInduction
  <1>. QED BY <1>4

\* Flattening the image of a single element.
LEMMA FlatOfOne ==
    ASSUME NEW X, NEW Y, NEW F \in [X -> Seq(Y)], NEW e \in X
    PROVE  FlatOf(F, <<e>>) = F[e]
  <1>1. << >> \in Seq(X) /\ Append(<< >>, e) = <<e>> BY EmptySeq
  <1>2. F[e] \in Seq(Y) /\ << >> \o F[e] = F[e] BY ConcatEmptySeq
  <1>. QED BY <1>1, <1>2, FlatOfAppend, FlatOfEmpty

-----------------------------------------------------------------------------
(* One flag of one message *)

\* m decides whether r carries f, and how.
Covers(m, f, r) ==
    IF m.bulk THEN f = "seen" /\ r \in RefsIn(m.folders) ELSE f \in m.flags /\ r \in m.refs
Value(m, r) == IF m.bulk THEN r \notin m.refs ELSE m.add

\* The fields of a mutation.
LEMMA MutationFields ==
    ASSUME NEW m \in Mutation
    PROVE  /\ m.bulk \in BOOLEAN /\ m.refs \in SUBSET Refs /\ m.folders \in SUBSET Folders
           /\ m.flags \in SUBSET Flags /\ m.add \in BOOLEAN
           /\ m.bulk => m.add = TRUE /\ m.flags = {"seen"} /\ m.refs \subseteq RefsIn(m.folders)
           /\ OneFlag => \E f \in Flags : m.flags = {f}
  BY DEF Mutation, MutationRecords, flag_mutation_from_json_accepts

\* set_flags changes the flag of a message exactly where the mutation covers it.
LEMMA SetFlagsAt ==
    ASSUME NEW s \in Servers, NEW m \in Mutation, NEW f \in Flags, NEW r \in Refs
    PROVE  r \in set_flags(s, m)[f] <=> IF Covers(m, f, r) THEN Value(m, r) ELSE r \in s[f]
  <1>1. CASE m.bulk
    <2> DEFINE a == RefsIn(m.folders)
               t == Store(s, a, {"seen"}, TRUE)
    <2>1. set_flags(s, m) = Store(t, m.refs, {"seen"}, FALSE) BY <1>1 DEF set_flags
    <2>2. t = [g \in Flags |-> IF g \notin {"seen"} THEN s[g] ELSE s[g] \cup a] BY DEF Store
    <2>3. Store(t, m.refs, {"seen"}, FALSE) = [g \in Flags |-> IF g \notin {"seen"} THEN t[g] ELSE t[g] \ m.refs]
      <3> HIDE DEF t
      <3>. QED BY DEF Store
    <2>4. t[f] = IF f = "seen" THEN s[f] \cup a ELSE s[f] BY <2>2
    <2>5. set_flags(s, m)[f] = IF f = "seen" THEN t[f] \ m.refs ELSE t[f]
      <3> HIDE DEF t
      <3>. QED BY <2>1, <2>3
    <2>6. m.refs \subseteq a BY <1>1, MutationFields
    <2>7. Covers(m, f, r) <=> (f = "seen" /\ r \in a) BY <1>1 DEF Covers
    <2>8. Value(m, r) <=> r \notin m.refs BY <1>1 DEF Value
    <2> HIDE DEF a, t
    <2>9. CASE f = "seen" BY <2>4, <2>5, <2>6, <2>7, <2>8, <2>9
    <2>10. CASE f # "seen" BY <2>4, <2>5, <2>7, <2>10
    <2>. QED BY <2>9, <2>10
  <1>2. CASE ~m.bulk
    <2>1. set_flags(s, m)[f] = IF f \notin m.flags THEN s[f]
                               ELSE IF m.add THEN s[f] \cup m.refs ELSE s[f] \ m.refs
      BY <1>2 DEF set_flags, Store
    <2>2. (Covers(m, f, r) <=> (f \in m.flags /\ r \in m.refs)) /\ Value(m, r) = m.add
      BY <1>2 DEF Covers, Value
    <2>3. m.add \in BOOLEAN BY MutationFields
    <2>4. CASE f \notin m.flags BY <2>1, <2>2, <2>4
    <2>5. CASE f \in m.flags /\ m.add BY <2>1, <2>2, <2>5
    <2>6. CASE f \in m.flags /\ ~m.add BY <2>1, <2>2, <2>6
    <2>. QED BY <2>4, <2>5, <2>6
  <1>3. m.bulk \in BOOLEAN BY MutationFields
  <1>. QED BY <1>1, <1>2, <1>3

\* s and t agree on flag f of message r.
Alike(s, t, f, r) == r \in s[f] <=> r \in t[f]

\* Running mutations depends on nothing but the flag itself.
LEMMA RunLocal ==
    ASSUME NEW f \in Flags, NEW r \in Refs, NEW s \in Servers, NEW t \in Servers,
           Alike(s, t, f, r), NEW ms \in Seq(Mutation)
    PROVE  Alike(RunMutations(s, ms), RunMutations(t, ms), f, r)
  <1> DEFINE K == {x \in Seq(Mutation) : Alike(RunMutations(s, x), RunMutations(t, x), f, r)}
  <1>1. << >> \in K
    <2>1. << >> \in Seq(Mutation) BY EmptySeq
    <2>. QED BY <2>1, RunEmpty
  <1>2. ASSUME NEW x \in Seq(Mutation), NEW m \in Mutation, x \in K PROVE Append(x, m) \in K
    <2>1. Append(x, m) \in Seq(Mutation) BY AppendProperties
    <2>2. RunMutations(s, Append(x, m)) = set_flags(RunMutations(s, x), m) BY RunAppend
    <2>3. RunMutations(t, Append(x, m)) = set_flags(RunMutations(t, x), m) BY RunAppend
    <2>4. RunMutations(s, x) \in Servers /\ RunMutations(t, x) \in Servers BY RunType
    <2>5. Alike(RunMutations(s, x), RunMutations(t, x), f, r) BY <1>2
    <2>6. Alike(set_flags(RunMutations(s, x), m), set_flags(RunMutations(t, x), m), f, r)
      BY <2>4, <2>5, SetFlagsAt DEF Alike
    <2>. QED BY <2>1, <2>2, <2>3, <2>6
  <1>3. \A x \in Seq(Mutation) : x \in K
    <2> HIDE DEF K
    <2>. QED BY <1>1, <1>2, SeqSetInduction
  <1>. QED BY <1>3

\* Some mutation of the list covers the flag.
Touched(ms, f, r) == \E k \in 1..Len(ms) : Covers(ms[k], f, r)

\* A sequence touches what its front or its last mutation covers.
LEMMA TouchedAppend ==
    ASSUME NEW f, NEW r, NEW ms \in Seq(Mutation), NEW m \in Mutation
    PROVE  Touched(Append(ms, m), f, r) <=> Touched(ms, f, r) \/ Covers(m, f, r)
  <1> DEFINE ns == Append(ms, m)
  <1>1. Len(ns) = Len(ms) + 1 /\ Len(ms) \in Nat
        /\ (\A i \in 1..Len(ms) : ns[i] = ms[i]) /\ ns[Len(ms) + 1] = m
    BY AppendProperties, LenProperties
  <1> HIDE DEF ns
  <1>2. 1..Len(ns) = (1..Len(ms)) \cup {Len(ms) + 1} BY <1>1
  <1>3. Touched(ns, f, r) <=> Touched(ms, f, r) \/ Covers(m, f, r) BY <1>1, <1>2 DEF Touched
  <1>. QED BY <1>3 DEF ns

\* A touched flag no longer depends on what it was, an untouched one stays.
LEMMA RunTouched ==
    ASSUME NEW f \in Flags, NEW r \in Refs, NEW s \in Servers, NEW t \in Servers,
           NEW ms \in Seq(Mutation)
    PROVE  IF Touched(ms, f, r) THEN Alike(RunMutations(s, ms), RunMutations(t, ms), f, r)
           ELSE Alike(RunMutations(s, ms), s, f, r)
  <1> DEFINE P(x) == IF Touched(x, f, r) THEN Alike(RunMutations(s, x), RunMutations(t, x), f, r)
                     ELSE Alike(RunMutations(s, x), s, f, r)
             K == {x \in Seq(Mutation) : P(x)}
  <1>1. << >> \in K
    <2>1. << >> \in Seq(Mutation) /\ Len(<< >>) = 0 BY EmptySeq
    <2>2. ~Touched(<< >>, f, r)
      <3>1. 1..0 = {} OBVIOUS
      <3>. QED BY <2>1, <3>1 DEF Touched
    <2>3. RunMutations(s, << >>) = s BY RunEmpty
    <2>4. Alike(RunMutations(s, << >>), s, f, r) BY <2>3 DEF Alike
    <2>. QED BY <2>1, <2>2, <2>4
  <1>2. ASSUME NEW x \in Seq(Mutation), NEW m \in Mutation, x \in K PROVE Append(x, m) \in K
    <2>1. Append(x, m) \in Seq(Mutation) BY AppendProperties
    <2>2. RunMutations(s, Append(x, m)) = set_flags(RunMutations(s, x), m) BY RunAppend
    <2>3. RunMutations(t, Append(x, m)) = set_flags(RunMutations(t, x), m) BY RunAppend
    <2>4. RunMutations(s, x) \in Servers /\ RunMutations(t, x) \in Servers BY RunType
    <2>5. Touched(Append(x, m), f, r) <=> Touched(x, f, r) \/ Covers(m, f, r) BY TouchedAppend
    <2>6. P(x) BY <1>2
    <2>7. CASE Covers(m, f, r)
      <3>1. Alike(set_flags(RunMutations(s, x), m), set_flags(RunMutations(t, x), m), f, r)
        BY <2>4, <2>7, SetFlagsAt DEF Alike
      <3>2. P(Append(x, m)) BY <2>2, <2>3, <2>5, <2>7, <3>1
      <3>. QED BY <2>1, <3>2
    <2>8. CASE ~Covers(m, f, r)
      <3>1. Alike(set_flags(RunMutations(s, x), m), RunMutations(s, x), f, r)
        BY <2>4, <2>8, SetFlagsAt DEF Alike
      <3>2. Alike(set_flags(RunMutations(t, x), m), RunMutations(t, x), f, r)
        BY <2>4, <2>8, SetFlagsAt DEF Alike
      <3>3. P(Append(x, m)) BY <2>2, <2>3, <2>5, <2>6, <2>8, <3>1, <3>2 DEF Alike
      <3>. QED BY <2>1, <3>3
    <2>. QED BY <2>7, <2>8
  <1>3. \A x \in Seq(Mutation) : x \in K
    <2> HIDE DEF K
    <2>. QED BY <1>1, <1>2, SeqSetInduction
  <1>. QED BY <1>3

-----------------------------------------------------------------------------
(* What a newer mutation leaves of an older one *)

\* Mutations of a command: a bulk read starts without exclusions.
FreshMutation == {m \in Mutation : m.bulk => m.refs = {}}

\* The mutations that say the same as n wherever both say something.
AgreesWith(n) ==
    {m \in Mutation : \A f \in Flags, r \in Refs :
        Covers(m, f, r) /\ Covers(n, f, r) => (Value(m, r) <=> Value(n, r))}

\* A mutation with other references, and one with other flags.
LEMMA WithRefs ==
    ASSUME NEW o \in Mutation, NEW x \in SUBSET Refs, o.bulk => x \subseteq RefsIn(o.folders)
    PROVE  LET m == [o EXCEPT !.refs = x]
           IN  /\ m \in Mutation /\ m.refs = x
               /\ m.bulk = o.bulk /\ m.folders = o.folders /\ m.flags = o.flags /\ m.add = o.add
  BY DEF Mutation, MutationRecords, flag_mutation_from_json_accepts

\* Naming other flags keeps a mutation one, where calls may name several.
LEMMA WithFlags ==
    ASSUME NEW o \in Mutation, ~o.bulk, NEW x \in SUBSET Flags, ~OneFlag
    PROVE  LET m == [o EXCEPT !.flags = x]
           IN  /\ m \in Mutation /\ m.flags = x
               /\ m.bulk = o.bulk /\ m.folders = o.folders /\ m.refs = o.refs /\ m.add = o.add
  BY DEF Mutation, MutationRecords, flag_mutation_from_json_accepts

\* Writing back the flags a mutation has changes nothing.
LEMMA SameFlags ==
    ASSUME NEW o \in Mutation
    PROVE  [o EXCEPT !.flags = o.flags] = o
  BY DEF Mutation, MutationRecords

\* With one flag per mutation an overlap leaves no flag over; a bulk read
\* never has one left over.
LEMMA NothingRemains ==
    ASSUME NEW o \in Mutation, NEW n \in Mutation, o.flags \cap n.flags # {}, OneFlag \/ o.bulk
    PROVE  o.flags \ n.flags = {} /\ o.flags \cap n.flags = o.flags
  <1>1. \E f \in Flags : o.flags = {f} BY MutationFields, FlagsAssumption
  <1>. QED BY <1>1

\* Sequences of at most one element.
LEMMA EmptyAndOne ==
    ASSUME NEW S, NEW e \in S
    PROVE  << >> \in Seq(S) /\ <<e>> \in Seq(S) /\ << >> \o <<e>> = <<e>> /\ <<e>> \o << >> = <<e>>
  <1>1. << >> \in Seq(S) /\ <<e>> \in Seq(S) BY EmptySeq
  <1>. QED BY <1>1, ConcatEmptySeq

\* What subtract_flag_mutation leaves of a message mutation.
LEMMA SubtractMessages ==
    ASSUME NEW o \in Mutation, NEW n \in FreshMutation, ~o.bulk, o.flags \cap n.flags # {}
    PROVE  LET covered == IF n.bulk THEN o.refs \cap RefsIn(n.folders) ELSE n.refs
               left == [o EXCEPT !.refs = o.refs \ covered]
               rest == [[o EXCEPT !.refs = covered] EXCEPT !.flags = o.flags \ n.flags]
           IN  subtract_flag_mutation(o, n) =
                 IF covered = {} THEN <<o>>
                 ELSE (IF o.refs \ covered = {} THEN <<>> ELSE <<left>>)
                      \o (IF o.flags \ n.flags = {} THEN <<>> ELSE <<rest>>)
  <1>1. n \in Mutation /\ n.bulk \in BOOLEAN /\ (n.bulk => n.refs = {})
    BY MutationFields DEF FreshMutation
  <1> DEFINE covered == IF n.bulk THEN o.refs \cap RefsIn(n.folders) ELSE n.refs
             c1 == IF n.bulk THEN (o.refs \cap RefsIn(n.folders)) \ n.refs ELSE n.refs
  <1>2. c1 = covered BY <1>1
  <1>3. subtract_flag_mutation(o, n) = split_message_target(o, c1, o.flags \ n.flags)
    BY DEF subtract_flag_mutation
  <1> HIDE DEF c1
  <1>4. subtract_flag_mutation(o, n) = split_message_target(o, covered, o.flags \ n.flags)
    BY <1>2, <1>3
  <1>. QED BY <1>4 DEF split_message_target, OnFlags

\* What it leaves of a bulk read.
LEMMA SubtractReads ==
    ASSUME NEW o \in Mutation, NEW n \in FreshMutation, o.bulk, o.flags \cap n.flags # {}
    PROVE  LET exclusions == IF n.add THEN o.refs \ n.refs
                             ELSE o.refs \cup (n.refs \cap RefsIn(o.folders))
               fewer == o.folders \ n.folders
               left == IF n.bulk THEN [[o EXCEPT !.folders = fewer] EXCEPT !.refs = o.refs \cap RefsIn(fewer)]
                       ELSE [o EXCEPT !.refs = exclusions]
           IN  subtract_flag_mutation(o, n) =
                 IF n.bulk /\ fewer = {} /\ o.folders # {} THEN <<>>
                 ELSE IF (n.bulk /\ fewer = o.folders) \/ (~n.bulk /\ exclusions = o.refs) THEN <<o>>
                 ELSE <<left>>
  <1>1. n \in Mutation /\ n.bulk \in BOOLEAN /\ n.add \in BOOLEAN /\ (n.bulk => n.refs = {})
    BY MutationFields DEF FreshMutation
  <1>2. o.flags \ n.flags = {} /\ o.flags \cap n.flags = o.flags BY <1>1, NothingRemains
  <1>3. o.add = TRUE /\ o.flags = {"seen"} BY MutationFields
  <1>4. CASE ~n.bulk
    <2> DEFINE ex == IF o.add = n.add THEN o.refs \ n.refs
                     ELSE o.refs \cup (n.refs \cap RefsIn(o.folders))
               left == [o EXCEPT !.refs = ex]
    <2>1. subtract_flag_mutation(o, n) = SubtractFromBulk(o, n, o.flags, {})
      BY <1>2, <1>4 DEF subtract_flag_mutation
    <2>2. SubtractFromBulk(o, n, o.flags, {}) = IF ex = o.refs THEN <<o>>
                                                ELSE <<>> \o <<[left EXCEPT !.flags = o.flags]>>
      BY <1>3 DEF SubtractFromBulk, OnFlags
    <2>3. o.refs \subseteq RefsIn(o.folders) /\ o.refs \in SUBSET Refs /\ n.refs \in SUBSET Refs
      BY <1>1, MutationFields
    <2>4. ex \in SUBSET Refs /\ ex \subseteq RefsIn(o.folders)
      BY <2>3
    <2>5. left \in Mutation /\ left.flags = o.flags
      <3> HIDE DEF ex
      <3>. QED BY <2>4, WithRefs
    <2>6. [left EXCEPT !.flags = o.flags] = left
      <3> HIDE DEF left
      <3>. QED BY <2>5, SameFlags
    <2>7. <<>> \o <<left>> = <<left>>
      <3> HIDE DEF left
      <3>. QED BY <2>5, EmptyAndOne
    <2>8. ex = IF n.add THEN o.refs \ n.refs ELSE o.refs \cup (n.refs \cap RefsIn(o.folders))
      BY <1>1, <1>3
    <2>. QED BY <1>4, <2>1, <2>2, <2>6, <2>7, <2>8
  <1>5. CASE n.bulk
    <2> DEFINE fewer == o.folders \ n.folders
               left == [[o EXCEPT !.folders = fewer] EXCEPT !.refs = o.refs \cap RefsIn(fewer)]
               l2 == [o EXCEPT !.folders = fewer, !.refs = @ \cap RefsIn(fewer)]
    <2>1. subtract_flag_mutation(o, n) = SubtractBulk(o, n, o.flags, {})
      BY <1>2, <1>5 DEF subtract_flag_mutation
    <2>2. SubtractBulk(o, n, o.flags, {}) = IF fewer = o.folders THEN <<o>>
             ELSE <<>> \o (IF fewer = {} THEN <<>> ELSE <<[l2 EXCEPT !.flags = o.flags]>>)
      BY <1>3 DEF SubtractBulk, OnFlags
    <2>3. [l2 EXCEPT !.flags = o.flags] = left BY DEF Mutation, MutationRecords
    <2>4. <<>> \o <<left>> = <<left>> /\ <<>> \o <<>> = <<>> OBVIOUS
    <2>. QED BY <1>5, <2>1, <2>2, <2>3, <2>4
  <1>. QED BY <1>1, <1>4, <1>5

\* Membership in AgreesWith, pointwise.
LEMMA AgreesIntro ==
    ASSUME NEW m \in Mutation, NEW n,
           \A f \in Flags, r \in Refs : Covers(m, f, r) /\ Covers(n, f, r) => (Value(m, r) <=> Value(n, r))
    PROVE  m \in AgreesWith(n)
  BY DEF AgreesWith

\* What is left of the older mutation agrees with the newer one.
LEMMA SubtractAgrees ==
    ASSUME NEW o \in Mutation, NEW n \in FreshMutation
    PROVE  subtract_flag_mutation(o, n) \in Seq(AgreesWith(n))
  <1>1. n \in Mutation /\ n.bulk \in BOOLEAN /\ (n.bulk => n.refs = {} /\ n.flags = {"seen"})
        /\ n.refs \in SUBSET Refs /\ n.flags \in SUBSET Flags /\ n.add \in BOOLEAN
    BY MutationFields DEF FreshMutation
  <1>2. /\ o.bulk \in BOOLEAN /\ o.refs \in SUBSET Refs /\ o.folders \in SUBSET Folders
        /\ o.flags \in SUBSET Flags /\ o.add \in BOOLEAN
        /\ o.bulk => o.add = TRUE /\ o.flags = {"seen"} /\ o.refs \subseteq RefsIn(o.folders)
    BY MutationFields
  <1>3. CASE o.flags \cap n.flags = {}
    <2>1. subtract_flag_mutation(o, n) = <<o>> BY <1>3 DEF subtract_flag_mutation
    <2>2. \A f \in Flags, r \in Refs : ~(Covers(o, f, r) /\ Covers(n, f, r))
      BY <1>1, <1>2, <1>3 DEF Covers
    <2>3. o \in AgreesWith(n) BY <2>2, AgreesIntro
    <2>. QED BY <2>1, <2>3, EmptyAndOne
  <1>4. CASE o.flags \cap n.flags # {} /\ ~o.bulk
    <2> DEFINE covered == IF n.bulk THEN o.refs \cap RefsIn(n.folders) ELSE n.refs
               left == [o EXCEPT !.refs = o.refs \ covered]
               rest == [[o EXCEPT !.refs = covered] EXCEPT !.flags = o.flags \ n.flags]
               a == IF o.refs \ covered = {} THEN <<>> ELSE <<left>>
               b == IF o.flags \ n.flags = {} THEN <<>> ELSE <<rest>>
    <2>1. subtract_flag_mutation(o, n) = IF covered = {} THEN <<o>> ELSE a \o b
      BY <1>4, SubtractMessages
    <2>2. covered \in SUBSET Refs BY <1>1, <1>2
    <2>3. \A f \in Flags, r \in o.refs : Covers(n, f, r) => r \in covered
      BY <1>1, <1>2 DEF Covers
    <2> HIDE DEF covered
    <2>4. CASE covered = {}
      <3>1. \A f \in Flags, r \in Refs : ~(Covers(o, f, r) /\ Covers(n, f, r))
        BY <1>4, <2>3, <2>4 DEF Covers
      <3>2. o \in AgreesWith(n) BY <3>1, AgreesIntro
      <3>. QED BY <2>1, <2>4, <3>2, EmptyAndOne
    <2>5. CASE covered # {}
      <3>1. left \in Mutation /\ left.refs = o.refs \ covered /\ left.bulk = o.bulk
        <4>1. o.refs \ covered \in SUBSET Refs BY <1>2
        <4>. QED BY <1>4, <4>1, WithRefs
      <3>2. left \in AgreesWith(n)
        <4> HIDE DEF left
        <4>1. \A f \in Flags, r \in Refs : ~(Covers(left, f, r) /\ Covers(n, f, r))
          BY <1>4, <2>3, <3>1 DEF Covers
        <4>. QED BY <3>1, <4>1, AgreesIntro
      <3>3. a \in Seq(AgreesWith(n))
        <4> HIDE DEF left
        <4>. QED BY <3>2, EmptyAndOne
      <3>4. b \in Seq(AgreesWith(n))
        <4>1. CASE o.flags \ n.flags = {} BY <4>1, <3>2, EmptyAndOne
        <4>2. CASE o.flags \ n.flags # {}
          <5>1. ~OneFlag BY <1>1, <1>4, <4>2, NothingRemains
          <5> DEFINE c == [o EXCEPT !.refs = covered]
          <5>2. c \in Mutation /\ c.bulk = o.bulk BY <1>4, <2>2, WithRefs
          <5>3. o.flags \ n.flags \in SUBSET Flags BY <1>2
          <5>4. rest \in Mutation /\ rest.flags = o.flags \ n.flags /\ rest.bulk = o.bulk
            <6> HIDE DEF c
            <6>1. ~c.bulk BY <1>4, <5>2
            <6>2. rest = [c EXCEPT !.flags = o.flags \ n.flags] BY DEF c
            <6> HIDE DEF rest
            <6>. QED BY <5>1, <5>2, <5>3, <6>1, <6>2, WithFlags
          <5> HIDE DEF rest
          <5>5. \A f \in Flags, r \in Refs : ~(Covers(rest, f, r) /\ Covers(n, f, r))
            BY <1>1, <1>4, <5>4 DEF Covers
          <5>6. rest \in AgreesWith(n) BY <5>4, <5>5, AgreesIntro
          <5>. QED BY <4>2, <5>6, EmptyAndOne
        <4>. QED BY <4>1, <4>2
      <3> HIDE DEF a, b
      <3>5. a \o b \in Seq(AgreesWith(n)) BY <3>3, <3>4, ConcatProperties
      <3>. QED BY <2>1, <2>5, <3>5
    <2>. QED BY <2>4, <2>5
  <1>5. CASE o.flags \cap n.flags # {} /\ o.bulk
    <2> DEFINE exclusions == IF n.add THEN o.refs \ n.refs
                             ELSE o.refs \cup (n.refs \cap RefsIn(o.folders))
               fewer == o.folders \ n.folders
               left == IF n.bulk THEN [[o EXCEPT !.folders = fewer] EXCEPT !.refs = o.refs \cap RefsIn(fewer)]
                       ELSE [o EXCEPT !.refs = exclusions]
    <2>1. subtract_flag_mutation(o, n) =
                 IF n.bulk /\ fewer = {} /\ o.folders # {} THEN <<>>
                 ELSE IF (n.bulk /\ fewer = o.folders) \/ (~n.bulk /\ exclusions = o.refs) THEN <<o>>
                 ELSE <<left>>
      BY <1>5, SubtractReads
    <2>2. exclusions \in SUBSET Refs /\ exclusions \subseteq RefsIn(o.folders) BY <1>1, <1>2, <1>5
    <2>3. RefsIn(fewer) = RefsIn(o.folders) \ RefsIn(n.folders) BY DEF RefsIn
    <2>4. /\ left \in Mutation /\ left.bulk
          /\ left.folders = IF n.bulk THEN fewer ELSE o.folders
          /\ left.refs = IF n.bulk THEN o.refs \cap RefsIn(fewer) ELSE exclusions
      <3>1. CASE n.bulk
        <4>1. fewer \in SUBSET Folders /\ o.refs \cap RefsIn(fewer) \in SUBSET Refs BY <1>2
        <4> HIDE DEF fewer
        <4>. QED BY <1>5, <3>1, <4>1 DEF Mutation, MutationRecords, flag_mutation_from_json_accepts
      <3>2. CASE ~n.bulk
        <4> HIDE DEF exclusions, fewer
        <4>1. [o EXCEPT !.refs = exclusions] \in Mutation /\ [o EXCEPT !.refs = exclusions].refs = exclusions
              /\ [o EXCEPT !.refs = exclusions].bulk = o.bulk
              /\ [o EXCEPT !.refs = exclusions].folders = o.folders
          BY <1>5, <2>2, WithRefs
        <4>2. left = [o EXCEPT !.refs = exclusions] BY <3>2
        <4> HIDE DEF left
        <4>. QED BY <1>5, <3>2, <4>1, <4>2
      <3>. QED BY <1>1, <3>1, <3>2
    <2>5. \A f \in Flags, r \in Refs : Covers(o, f, r) <=> (f = "seen" /\ r \in RefsIn(o.folders))
      BY <1>5 DEF Covers
    <2>6. \A r \in Refs : Value(o, r) <=> r \notin o.refs BY <1>5 DEF Value
    <2>7. \A f \in Flags, r \in Refs : Covers(left, f, r) <=> (f = "seen" /\ r \in RefsIn(left.folders))
      <3> HIDE DEF left
      <3>. QED BY <2>4 DEF Covers
    <2>8. \A r \in Refs : Value(left, r) <=> r \notin left.refs
      <3> HIDE DEF left
      <3>. QED BY <2>4 DEF Value
    <2>9. left \in AgreesWith(n)
      <3> SUFFICES ASSUME NEW f \in Flags, NEW r \in Refs, Covers(left, f, r), Covers(n, f, r)
                   PROVE Value(left, r) <=> Value(n, r)
        <4> HIDE DEF left
        <4>. QED BY <2>4, AgreesIntro
      <3> HIDE DEF left
      <3>1. CASE n.bulk
        <4>1. r \in RefsIn(n.folders) BY <3>1 DEF Covers
        <4>2. r \in RefsIn(fewer) BY <2>4, <2>7, <3>1
        <4>. QED BY <2>3, <4>1, <4>2
      <3>2. CASE ~n.bulk
        <4>1. r \in n.refs /\ (Value(n, r) <=> n.add) BY <3>2 DEF Covers, Value
        <4>2. left.refs = exclusions /\ r \in RefsIn(o.folders) BY <2>4, <2>7, <3>2
        <4>. QED BY <1>1, <2>8, <4>1, <4>2
      <3>. QED BY <1>1, <3>1, <3>2
    <2>10. ASSUME (n.bulk /\ fewer = o.folders) \/ (~n.bulk /\ exclusions = o.refs)
           PROVE  o \in AgreesWith(n)
      <3> SUFFICES ASSUME NEW f \in Flags, NEW r \in Refs, Covers(o, f, r), Covers(n, f, r)
                   PROVE Value(o, r) <=> Value(n, r)
        BY AgreesIntro
      <3>1. CASE n.bulk
        <4>1. r \in RefsIn(n.folders) BY <3>1 DEF Covers
        <4>2. r \in RefsIn(o.folders) BY <2>5
        <4>. QED BY <2>3, <2>10, <3>1, <4>1, <4>2
      <3>2. CASE ~n.bulk
        <4>1. r \in n.refs /\ (Value(n, r) <=> n.add) BY <3>2 DEF Covers, Value
        <4>2. r \in RefsIn(o.folders) BY <2>5
        <4>. QED BY <1>1, <2>6, <2>10, <3>2, <4>1, <4>2
      <3>. QED BY <1>1, <3>1, <3>2
    <2> HIDE DEF left, exclusions, fewer
    <2>11. <<left>> \in Seq(AgreesWith(n)) /\ <<>> \in Seq(AgreesWith(n)) BY <2>9, EmptyAndOne
    <2>12. CASE n.bulk /\ fewer = {} /\ o.folders # {} BY <2>1, <2>11, <2>12
    <2>13. CASE ~(n.bulk /\ fewer = {} /\ o.folders # {})
                /\ ((n.bulk /\ fewer = o.folders) \/ (~n.bulk /\ exclusions = o.refs))
      <3>1. <<o>> \in Seq(AgreesWith(n)) BY <2>10, <2>13, EmptyAndOne
      <3>. QED BY <2>1, <2>13, <3>1
    <2>14. CASE ~(n.bulk /\ fewer = {} /\ o.folders # {})
                /\ ~((n.bulk /\ fewer = o.folders) \/ (~n.bulk /\ exclusions = o.refs))
      <3>1. subtract_flag_mutation(o, n) = <<left>> BY <2>1, <2>14, Zenon
      <3>. QED BY <2>11, <3>1
    <2>. QED BY <2>12, <2>13, <2>14
  <1>. QED BY <1>2, <1>3, <1>4, <1>5

\* Where the newer mutation says nothing, what is left does what the older did.
LEMMA SubtractRun ==
    ASSUME OneFlag, NEW o \in Mutation, NEW n \in FreshMutation, NEW s \in Servers,
           NEW f \in Flags, NEW r \in Refs, ~Covers(n, f, r)
    PROVE  Alike(RunMutations(s, subtract_flag_mutation(o, n)), set_flags(s, o), f, r)
  <1>1. n \in Mutation /\ n.bulk \in BOOLEAN /\ (n.bulk => n.refs = {} /\ n.flags = {"seen"})
        /\ n.refs \in SUBSET Refs /\ n.flags \in SUBSET Flags /\ n.add \in BOOLEAN
    BY MutationFields DEF FreshMutation
  <1>2. /\ o.bulk \in BOOLEAN /\ o.refs \in SUBSET Refs /\ o.folders \in SUBSET Folders
        /\ o.flags \in SUBSET Flags /\ o.add \in BOOLEAN
        /\ o.bulk => o.add = TRUE /\ o.flags = {"seen"} /\ o.refs \subseteq RefsIn(o.folders)
    BY MutationFields
  <1>3. ASSUME subtract_flag_mutation(o, n) = <<o>>
        PROVE  Alike(RunMutations(s, subtract_flag_mutation(o, n)), set_flags(s, o), f, r)
    <2>1. RunMutations(s, <<o>>) = set_flags(s, o) BY RunOne
    <2>. QED BY <1>3, <2>1 DEF Alike
  <1>4. ASSUME subtract_flag_mutation(o, n) = <<>>, ~Covers(o, f, r)
        PROVE  Alike(RunMutations(s, subtract_flag_mutation(o, n)), set_flags(s, o), f, r)
    <2>1. RunMutations(s, <<>>) = s BY RunEmpty
    <2>. QED BY <1>4, <2>1, SetFlagsAt DEF Alike
  <1>5. ASSUME NEW m \in Mutation, subtract_flag_mutation(o, n) = <<m>>,
               Covers(m, f, r) <=> Covers(o, f, r), Covers(o, f, r) => (Value(m, r) <=> Value(o, r))
        PROVE  Alike(RunMutations(s, subtract_flag_mutation(o, n)), set_flags(s, o), f, r)
    <2>1. RunMutations(s, <<m>>) = set_flags(s, m) BY RunOne
    <2>2. Alike(set_flags(s, m), set_flags(s, o), f, r) BY <1>5, SetFlagsAt DEF Alike
    <2>. QED BY <1>5, <2>1, <2>2
  <1>6. CASE o.flags \cap n.flags = {}
    <2>1. subtract_flag_mutation(o, n) = <<o>> BY <1>6 DEF subtract_flag_mutation
    <2>. QED BY <1>3, <2>1
  <1>7. CASE o.flags \cap n.flags # {} /\ ~o.bulk
    <2> DEFINE covered == IF n.bulk THEN o.refs \cap RefsIn(n.folders) ELSE n.refs
               left == [o EXCEPT !.refs = o.refs \ covered]
    <2>1. o.flags \ n.flags = {} /\ o.flags \cap n.flags = o.flags BY <1>1, <1>7, NothingRemains
    <2>2. subtract_flag_mutation(o, n) = IF covered = {} THEN <<o>>
             ELSE (IF o.refs \ covered = {} THEN <<>> ELSE <<left>>) \o <<>>
      BY <1>7, <2>1, SubtractMessages
    <2>3. Covers(o, f, r) => r \notin covered
      BY <1>1, <1>7, <2>1 DEF Covers
    <2> HIDE DEF covered
    <2>4. left \in Mutation /\ left.refs = o.refs \ covered /\ left.bulk = o.bulk
          /\ left.flags = o.flags /\ left.add = o.add
      <3>1. o.refs \ covered \in SUBSET Refs BY <1>2
      <3>. QED BY <1>7, <3>1, WithRefs
    <2> HIDE DEF left
    <2>5. <<left>> \o <<>> = <<left>> /\ <<>> \o <<>> = <<>> BY <2>4, EmptyAndOne
    <2>6. (Covers(left, f, r) <=> Covers(o, f, r)) /\ (Value(left, r) <=> Value(o, r))
      BY <1>7, <2>3, <2>4 DEF Covers, Value
    <2>7. CASE covered = {}
      <3>1. subtract_flag_mutation(o, n) = <<o>> BY <2>2, <2>7
      <3>. QED BY <1>3, <3>1
    <2>8. CASE covered # {} /\ o.refs \ covered = {}
      <3>1. subtract_flag_mutation(o, n) = <<>> BY <2>2, <2>5, <2>8
      <3>2. ~Covers(o, f, r) BY <1>7, <2>3, <2>8 DEF Covers
      <3>. QED BY <1>4, <3>1, <3>2
    <2>9. CASE covered # {} /\ o.refs \ covered # {}
      <3>1. subtract_flag_mutation(o, n) = <<left>> BY <2>2, <2>5, <2>9
      <3>. QED BY <1>5, <2>4, <2>6, <3>1
    <2>. QED BY <2>7, <2>8, <2>9
  <1>8. CASE o.flags \cap n.flags # {} /\ o.bulk
    <2> DEFINE exclusions == IF n.add THEN o.refs \ n.refs
                             ELSE o.refs \cup (n.refs \cap RefsIn(o.folders))
               fewer == o.folders \ n.folders
               left == IF n.bulk THEN [[o EXCEPT !.folders = fewer] EXCEPT !.refs = o.refs \cap RefsIn(fewer)]
                       ELSE [o EXCEPT !.refs = exclusions]
    <2>1. subtract_flag_mutation(o, n) =
                 IF n.bulk /\ fewer = {} /\ o.folders # {} THEN <<>>
                 ELSE IF (n.bulk /\ fewer = o.folders) \/ (~n.bulk /\ exclusions = o.refs) THEN <<o>>
                 ELSE <<left>>
      BY <1>8, SubtractReads
    <2>2. exclusions \in SUBSET Refs /\ exclusions \subseteq RefsIn(o.folders) BY <1>1, <1>2, <1>8
    <2>3. RefsIn(fewer) = RefsIn(o.folders) \ RefsIn(n.folders) BY DEF RefsIn
    <2>4. (Covers(o, f, r) <=> (f = "seen" /\ r \in RefsIn(o.folders))) /\ (Value(o, r) <=> r \notin o.refs)
      BY <1>8 DEF Covers, Value
    <2>5. f = "seen" => r \notin (IF n.bulk THEN RefsIn(n.folders) ELSE n.refs)
      <3>1. "seen" \in n.flags BY <1>2, <1>8
      <3>. QED BY <1>1, <3>1 DEF Covers
    <2>6. CASE n.bulk /\ fewer = {} /\ o.folders # {}
      <3>1. RefsIn(fewer) = {} BY <2>6 DEF RefsIn
      <3>2. ~Covers(o, f, r) BY <2>3, <2>4, <2>5, <2>6, <3>1
      <3>3. subtract_flag_mutation(o, n) = <<>> BY <2>1, <2>6
      <3>. QED BY <1>4, <3>2, <3>3
    <2>7. CASE ~(n.bulk /\ fewer = {} /\ o.folders # {})
               /\ ((n.bulk /\ fewer = o.folders) \/ (~n.bulk /\ exclusions = o.refs))
      <3>1. subtract_flag_mutation(o, n) = <<o>> BY <2>1, <2>7
      <3>. QED BY <1>3, <3>1
    <2>8. CASE ~(n.bulk /\ fewer = {} /\ o.folders # {})
               /\ ~((n.bulk /\ fewer = o.folders) \/ (~n.bulk /\ exclusions = o.refs))
      <3>1. subtract_flag_mutation(o, n) = <<left>>
        <4> HIDE DEF left, fewer, exclusions
        <4>. QED BY <2>1, <2>8, Zenon
      <3>2. CASE n.bulk
        <4>1. fewer \in SUBSET Folders /\ o.refs \cap RefsIn(fewer) \in SUBSET Refs BY <1>2
        <4> DEFINE m == [[o EXCEPT !.folders = fewer] EXCEPT !.refs = o.refs \cap RefsIn(fewer)]
        <4>2. m \in Mutation /\ m.bulk /\ m.folders = fewer /\ m.refs = o.refs \cap RefsIn(fewer)
          <5> HIDE DEF fewer
          <5>. QED BY <1>8, <4>1 DEF Mutation, MutationRecords, flag_mutation_from_json_accepts
        <4>3. left = m BY <3>2
        <4> HIDE DEF m, left
        <4>4. (Covers(m, f, r) <=> (f = "seen" /\ r \in RefsIn(fewer)))
              /\ (Value(m, r) <=> r \notin o.refs \cap RefsIn(fewer))
          BY <4>2 DEF Covers, Value
        <4>5. Covers(m, f, r) <=> Covers(o, f, r) BY <2>3, <2>4, <2>5, <3>2, <4>4
        <4>6. Covers(o, f, r) => (Value(m, r) <=> Value(o, r)) BY <2>4, <4>4, <4>5
        <4>7. subtract_flag_mutation(o, n) = <<m>> BY <3>1, <4>3
        <4>. QED BY <1>5, <4>2, <4>5, <4>6, <4>7
      <3>3. CASE ~n.bulk
        <4> DEFINE m == [o EXCEPT !.refs = exclusions]
        <4>1. m \in Mutation /\ m.refs = exclusions /\ m.bulk = o.bulk /\ m.folders = o.folders
          <5> HIDE DEF exclusions
          <5>. QED BY <1>8, <2>2, WithRefs
        <4>2. left = m BY <3>3
        <4> HIDE DEF m, left
        <4>3. (Covers(m, f, r) <=> (f = "seen" /\ r \in RefsIn(o.folders)))
              /\ (Value(m, r) <=> r \notin exclusions)
          BY <1>8, <4>1 DEF Covers, Value
        <4>4. Covers(o, f, r) => (Value(m, r) <=> Value(o, r))
          BY <2>4, <2>5, <3>3, <4>3
        <4>5. subtract_flag_mutation(o, n) = <<m>> BY <3>1, <4>2
        <4>. QED BY <1>5, <2>4, <4>1, <4>3, <4>4, <4>5
      <3>. QED BY <1>1, <3>2, <3>3
    <2>. QED BY <2>6, <2>7, <2>8
  <1>. QED BY <1>2, <1>6, <1>7, <1>8

-----------------------------------------------------------------------------
(* What is left of a list of mutations *)

\* What a newer mutation, or the delete of some messages, leaves of each.
LeftOf(n) == [m \in Mutation |-> subtract_flag_mutation(m, n)]
KeptOf(refs) == [m \in Mutation |-> remove_deleted_refs(m, refs)]

\* F replaces each mutation by mutations that do the same to flag f of r.
ActsAlike(F, f, r) ==
    \A s \in Servers, m \in Mutation : Alike(RunMutations(s, F[m]), set_flags(s, m), f, r)

\* What a newer mutation leaves agrees with it.
LEMMA LeftOfType ==
    ASSUME NEW n \in FreshMutation
    PROVE  /\ LeftOf(n) \in [Mutation -> Seq(AgreesWith(n))]
           /\ LeftOf(n) \in [Mutation -> Seq(Mutation)]
           /\ AgreesWith(n) \subseteq Mutation
  <1>1. LeftOf(n) \in [Mutation -> Seq(AgreesWith(n))] BY SubtractAgrees DEF LeftOf
  <1>2. AgreesWith(n) \subseteq Mutation BY DEF AgreesWith
  <1>3. \A m \in Mutation : LeftOf(n)[m] \in Seq(Mutation) BY <1>1, <1>2, SeqMonotonic
  <1>4. LeftOf(n) = [m \in Mutation |-> LeftOf(n)[m]] BY <1>1
  <1>. QED BY <1>1, <1>2, <1>3, <1>4

\* Where the newer mutation says nothing, nothing changes.
LEMMA LeftOfActs ==
    ASSUME OneFlag, NEW n \in FreshMutation, NEW f \in Flags, NEW r \in Refs, ~Covers(n, f, r)
    PROVE  ActsAlike(LeftOf(n), f, r)
  BY SubtractRun DEF ActsAlike, LeftOf

\* remove_deleted_refs leaves at most one mutation, with fewer messages.
LEMMA KeptIs ==
    ASSUME NEW m \in Mutation, NEW refs \in SUBSET Refs
    PROVE  LET kept == IF m.bulk THEN m ELSE [m EXCEPT !.refs = m.refs \ refs]
           IN  /\ kept \in Mutation /\ kept.bulk = m.bulk /\ kept.folders = m.folders
               /\ kept.flags = m.flags /\ kept.add = m.add
               /\ kept.refs = IF m.bulk THEN m.refs ELSE m.refs \ refs
               /\ remove_deleted_refs(m, refs) =
                    IF (IF m.bulk THEN m.folders ELSE m.refs \ refs) = {} THEN << >> ELSE <<kept>>
  <1> DEFINE kept == IF m.bulk THEN m ELSE [m EXCEPT !.refs = m.refs \ refs]
  <1>0. m.bulk \in BOOLEAN /\ m.refs \ refs \in SUBSET Refs BY MutationFields
  <1>1. /\ kept \in Mutation /\ kept.bulk = m.bulk /\ kept.folders = m.folders
        /\ kept.flags = m.flags /\ kept.add = m.add
        /\ kept.refs = IF m.bulk THEN m.refs ELSE m.refs \ refs
    <2>1. CASE m.bulk BY <2>1
    <2>2. CASE ~m.bulk
      <3>1. kept = [m EXCEPT !.refs = m.refs \ refs] BY <2>2
      <3> HIDE DEF kept
      <3>. QED BY <1>0, <2>2, <3>1, WithRefs
    <2>. QED BY <1>0, <2>1, <2>2
  <1>2. remove_deleted_refs(m, refs) = IF (IF kept.bulk THEN kept.folders ELSE kept.refs) = {} THEN << >> ELSE <<kept>>
    BY DEF remove_deleted_refs
  <1> HIDE DEF kept
  <1>3. (IF kept.bulk THEN kept.folders ELSE kept.refs) = (IF m.bulk THEN m.folders ELSE m.refs \ refs)
    BY <1>0, <1>1
  <1>4. remove_deleted_refs(m, refs) =
          IF (IF m.bulk THEN m.folders ELSE m.refs \ refs) = {} THEN << >> ELSE <<kept>>
    BY <1>2, <1>3
  <1>. QED BY <1>1, <1>4 DEF kept

\* What is kept is a list of mutations.
LEMMA KeptOfType ==
    ASSUME NEW refs \in SUBSET Refs
    PROVE  KeptOf(refs) \in [Mutation -> Seq(Mutation)]
  <1> SUFFICES ASSUME NEW m \in Mutation PROVE remove_deleted_refs(m, refs) \in Seq(Mutation)
    BY DEF KeptOf
  <1> DEFINE kept == IF m.bulk THEN m ELSE [m EXCEPT !.refs = m.refs \ refs]
  <1>1. kept \in Mutation /\ remove_deleted_refs(m, refs) =
             IF (IF m.bulk THEN m.folders ELSE m.refs \ refs) = {} THEN << >> ELSE <<kept>>
    BY KeptIs
  <1> HIDE DEF kept
  <1>. QED BY <1>1, EmptyAndOne

\* Nothing changes for a message that was not deleted.
LEMMA KeptOfActs ==
    ASSUME NEW refs \in SUBSET Refs, NEW f \in Flags, NEW r \in Refs, r \notin refs
    PROVE  ActsAlike(KeptOf(refs), f, r)
  <1> SUFFICES ASSUME NEW s \in Servers, NEW m \in Mutation
               PROVE  Alike(RunMutations(s, remove_deleted_refs(m, refs)), set_flags(s, m), f, r)
    BY DEF ActsAlike, KeptOf
  <1> DEFINE kept == IF m.bulk THEN m ELSE [m EXCEPT !.refs = m.refs \ refs]
  <1>1. /\ kept \in Mutation /\ kept.bulk = m.bulk /\ kept.folders = m.folders
        /\ kept.flags = m.flags /\ kept.add = m.add
        /\ kept.refs = IF m.bulk THEN m.refs ELSE m.refs \ refs
        /\ remove_deleted_refs(m, refs) =
             IF (IF m.bulk THEN m.folders ELSE m.refs \ refs) = {} THEN << >> ELSE <<kept>>
    BY KeptIs
  <1> HIDE DEF kept
  <1>2. m.bulk \in BOOLEAN BY MutationFields
  <1>3. CASE (IF m.bulk THEN m.folders ELSE m.refs \ refs) = {}
    <2>1. RunMutations(s, remove_deleted_refs(m, refs)) = s BY <1>1, <1>3, RunEmpty
    <2>2. ~Covers(m, f, r) BY <1>2, <1>3 DEF Covers, RefsIn
    <2>. QED BY <2>1, <2>2, SetFlagsAt DEF Alike
  <1>4. CASE (IF m.bulk THEN m.folders ELSE m.refs \ refs) # {}
    <2>1. RunMutations(s, remove_deleted_refs(m, refs)) = set_flags(s, kept) BY <1>1, <1>4, RunOne
    <2>2. (Covers(m, f, r) <=> Covers(kept, f, r)) BY <1>1, <1>2 DEF Covers
    <2>3. Covers(m, f, r) => (Value(m, r) <=> Value(kept, r)) BY <1>1, <1>2 DEF Covers, Value
    <2>4. Alike(set_flags(s, kept), set_flags(s, m), f, r) BY <1>1, <2>2, <2>3, SetFlagsAt DEF Alike
    <2>. QED BY <2>1, <2>4
  <1>. QED BY <1>3, <1>4

\* Replacing every mutation of a list by ones that act alike.
LEMMA FlatOfActs ==
    ASSUME NEW F \in [Mutation -> Seq(Mutation)], NEW f \in Flags, NEW r \in Refs, ActsAlike(F, f, r),
           NEW s \in Servers, NEW ms \in Seq(Mutation)
    PROVE  Alike(RunMutations(s, FlatOf(F, ms)), RunMutations(s, ms), f, r)
  <1> DEFINE K == {x \in Seq(Mutation) : Alike(RunMutations(s, FlatOf(F, x)), RunMutations(s, x), f, r)}
  <1>1. << >> \in K
    <2>1. << >> \in Seq(Mutation) BY EmptySeq
    <2>2. FlatOf(F, << >>) = << >> BY FlatOfEmpty
    <2>3. Alike(RunMutations(s, << >>), RunMutations(s, << >>), f, r) BY DEF Alike
    <2>. QED BY <2>1, <2>2, <2>3
  <1>2. ASSUME NEW x \in Seq(Mutation), NEW m \in Mutation, x \in K PROVE Append(x, m) \in K
    <2>1. Append(x, m) \in Seq(Mutation) BY AppendProperties
    <2>2. RunMutations(s, Append(x, m)) = set_flags(RunMutations(s, x), m) BY RunAppend
    <2>3. FlatOf(F, Append(x, m)) = FlatOf(F, x) \o F[m] BY FlatOfAppend
    <2>4. FlatOf(F, x) \in Seq(Mutation) /\ F[m] \in Seq(Mutation) BY FlatOfType
    <2>5. RunMutations(s, FlatOf(F, x) \o F[m]) = RunMutations(RunMutations(s, FlatOf(F, x)), F[m])
      BY <2>4, RunConcat
    <2>6. RunMutations(s, FlatOf(F, x)) \in Servers /\ RunMutations(s, x) \in Servers BY <2>4, RunType
    <2>7. Alike(RunMutations(RunMutations(s, FlatOf(F, x)), F[m]), set_flags(RunMutations(s, FlatOf(F, x)), m), f, r)
      BY <2>6 DEF ActsAlike
    <2>8. Alike(RunMutations(s, FlatOf(F, x)), RunMutations(s, x), f, r) BY <1>2
    <2>9. Alike(set_flags(RunMutations(s, FlatOf(F, x)), m), set_flags(RunMutations(s, x), m), f, r)
      BY <2>6, <2>8, SetFlagsAt DEF Alike
    <2>10. Alike(RunMutations(s, FlatOf(F, Append(x, m))), RunMutations(s, Append(x, m)), f, r)
      BY <2>2, <2>3, <2>5, <2>7, <2>9 DEF Alike
    <2>. QED BY <2>1, <2>10
  <1>3. \A x \in Seq(Mutation) : x \in K
    <2> HIDE DEF K
    <2>. QED BY <1>1, <1>2, SeqSetInduction
  <1>. QED BY <1>3

\* Mutations that agree with n keep a flag that n has set.
LEMMA AgreeRun ==
    ASSUME NEW n \in FreshMutation, NEW f \in Flags, NEW r \in Refs, Covers(n, f, r),
           NEW s \in Servers, r \in s[f] <=> Value(n, r), NEW ms \in Seq(AgreesWith(n))
    PROVE  r \in RunMutations(s, ms)[f] <=> Value(n, r)
  <1>0. AgreesWith(n) \subseteq Mutation BY DEF AgreesWith
  <1> DEFINE K == {x \in Seq(AgreesWith(n)) : r \in RunMutations(s, x)[f] <=> Value(n, r)}
  <1>1. << >> \in K
    <2>1. << >> \in Seq(AgreesWith(n)) BY EmptySeq
    <2>. QED BY <2>1, RunEmpty
  <1>2. ASSUME NEW x \in Seq(AgreesWith(n)), NEW m \in AgreesWith(n), x \in K PROVE Append(x, m) \in K
    <2>1. Append(x, m) \in Seq(AgreesWith(n)) BY AppendProperties
    <2>2. x \in Seq(Mutation) /\ m \in Mutation BY <1>0, SeqMonotonic
    <2>3. RunMutations(s, Append(x, m)) = set_flags(RunMutations(s, x), m) BY <2>2, RunAppend
    <2>4. RunMutations(s, x) \in Servers BY <2>2, RunType
    <2>5. r \in RunMutations(s, x)[f] <=> Value(n, r) BY <1>2
    <2>6. Covers(m, f, r) => (Value(m, r) <=> Value(n, r)) BY DEF AgreesWith
    <2>7. r \in set_flags(RunMutations(s, x), m)[f] <=> Value(n, r)
      BY <2>2, <2>4, <2>5, <2>6, SetFlagsAt
    <2>. QED BY <2>1, <2>3, <2>7
  <1>3. \A x \in Seq(AgreesWith(n)) : x \in K
    <2> HIDE DEF K
    <2>. QED BY <1>1, <1>2, SeqSetInduction
  <1>. QED BY <1>3

-----------------------------------------------------------------------------
(* Operations *)

\* The operations that travel, those that can become a row, and those the
\* commands make: a flag operation of theirs has one mutation.
Op == {o \in [op : {"set_flags", "delete", "replay"}, mutations : Seq(Mutation), refs : SUBSET Refs] :
          /\ o.op # "set_flags" => o.mutations = << >>
          /\ o.op # "delete" => o.refs = {}}
RowOp == {o \in Op : o.op # "replay"}
TravelOp == {o \in Op : o.op = "set_flags" => \E n \in FreshMutation : o.mutations = <<n>>}
UserOp == {o \in TravelOp : o.op # "replay"}

MutationsOf == [o \in Op |-> o.mutations]
RefsOf(ops) == UNION {o.refs : o \in Range(ops)}

\* The kinds of operations include each other.
LEMMA OpKinds ==
    /\ RowOp \subseteq Op /\ TravelOp \subseteq Op /\ UserOp \subseteq TravelOp /\ UserOp \subseteq RowOp
    /\ \A ops \in Seq(TravelOp) : ops \in Seq(Op)
    /\ \A ops \in Seq(UserOp) : ops \in Seq(TravelOp) /\ ops \in Seq(RowOp) /\ ops \in Seq(Op)
    /\ \A ops \in Seq(RowOp) : ops \in Seq(Op)
  <1>1. /\ RowOp \subseteq Op /\ TravelOp \subseteq Op /\ UserOp \subseteq TravelOp /\ UserOp \subseteq RowOp
    BY DEF RowOp, TravelOp, UserOp
  <1>2. \A ops \in Seq(TravelOp) : ops \in Seq(Op) BY <1>1, SeqMonotonic
  <1>3. \A ops \in Seq(UserOp) : ops \in Seq(TravelOp) /\ ops \in Seq(RowOp) BY <1>1, SeqMonotonic
  <1>4. \A ops \in Seq(RowOp) : ops \in Seq(Op) BY <1>1, SeqMonotonic
  <1>. QED BY <1>1, <1>2, <1>3, <1>4

\* The mutations of a list of operations, as a flattened image.
LEMMA MutationsIs ==
    ASSUME NEW ops \in Seq(Op)
    PROVE  Mutations(ops) = FlatOf(MutationsOf, ops) /\ MutationsOf \in [Op -> Seq(Mutation)]
  <1>1. MutationsOf \in [Op -> Seq(Mutation)] BY DEF MutationsOf, Op
  <1>2. \A i \in 1..Len(ops) : ops[i] \in Op BY ElementOfSeq
  <1>3. [i \in 1..Len(ops) |-> ops[i].mutations] = [i \in 1..Len(ops) |-> MutationsOf[ops[i]]]
    BY <1>2 DEF MutationsOf
  <1>4. Mutations(ops) = FlattenSeq([i \in 1..Len(ops) |-> ops[i].mutations]) BY DEF Mutations, FlatMap
  <1>. QED BY <1>1, <1>3, <1>4 DEF FlatOf

\* They are mutations.
LEMMA MutationsType ==
    ASSUME NEW ops \in Seq(Op)
    PROVE  Mutations(ops) \in Seq(Mutation)
  BY MutationsIs, FlatOfType

\* Flattening the image of a concatenation of mutations.
LEMMA FlatOfBoth ==
    \A F \in [Mutation -> Seq(Mutation)] : \A s, t \in Seq(Mutation) :
        FlatOf(F, s \o t) = FlatOf(F, s) \o FlatOf(F, t)
  BY FlatOfConcat

\* Flattening the image of a concatenation of operations.
LEMMA OpsConcat ==
    \A F \in [Op -> Seq(Mutation)] : \A s, t \in Seq(Op) :
        FlatOf(F, s \o t) = FlatOf(F, s) \o FlatOf(F, t)
  BY FlatOfConcat

\* They follow the order of the operations.
LEMMA MutationsConcat ==
    ASSUME NEW ops \in Seq(Op), NEW more \in Seq(Op)
    PROVE  Mutations(ops \o more) = Mutations(ops) \o Mutations(more)
  <1>1. ops \o more \in Seq(Op) BY ConcatProperties
  <1>2. PICK F \in [Op -> Seq(Mutation)] : F = MutationsOf BY MutationsIs
  <1>3. FlatOf(F, ops \o more) = FlatOf(F, ops) \o FlatOf(F, more)
    BY OpsConcat
  <1>4. Mutations(ops) = FlatOf(F, ops) /\ Mutations(more) = FlatOf(F, more) BY <1>2, MutationsIs
  <1>5. Mutations(ops \o more) = FlatOf(F, ops \o more) BY <1>1, <1>2, MutationsIs
  <1>. QED BY ONLY <1>3, <1>4, <1>5, Zenon

\* One operation more, a single one, none.
LEMMA MutationsAppend ==
    ASSUME NEW ops \in Seq(Op), NEW o \in Op
    PROVE  Mutations(Append(ops, o)) = Mutations(ops) \o o.mutations /\ o.mutations \in Seq(Mutation)
  <1>1. Append(ops, o) \in Seq(Op) BY AppendProperties
  <1>2. MutationsOf[o] = o.mutations BY DEF MutationsOf
  <1>. QED BY <1>1, <1>2, MutationsIs, FlatOfAppend

\* A list of one operation, and of none.
LEMMA MutationsOne ==
    /\ Mutations(<< >>) = << >>
    /\ \A o \in Op : Mutations(<<o>>) = o.mutations /\ <<o>> \in Seq(Op)
  <1>1. << >> \in Seq(Op) BY EmptySeq
  <1>2. Mutations(<< >>) = << >> BY <1>1, MutationsIs, FlatOfEmpty
  <1>3. ASSUME NEW o \in Op PROVE Mutations(<<o>>) = o.mutations /\ <<o>> \in Seq(Op)
    <2>1. <<o>> \in Seq(Op) BY EmptyAndOne
    <2>2. MutationsOf[o] = o.mutations BY DEF MutationsOf
    <2>. QED BY <2>1, <2>2, MutationsIs, FlatOfOne
  <1>. QED BY <1>2, <1>3

\* Operations that are not flag operations have no mutations.
LEMMA MutationsNone ==
    ASSUME NEW ops \in Seq(Op), \A i \in 1..Len(ops) : ops[i].op # "set_flags"
    PROVE  Mutations(ops) = << >>
  <1> DEFINE N == {o \in Op : o.op # "set_flags"}
             K == {x \in Seq(N) : Mutations(x) = << >>}
  <1>1. << >> \in K
    <2>1. << >> \in Seq(N) BY EmptySeq
    <2>. QED BY <2>1, MutationsOne
  <1>2. ASSUME NEW x \in Seq(N), NEW o \in N, x \in K PROVE Append(x, o) \in K
    <2>1. Append(x, o) \in Seq(N) BY AppendProperties
    <2>2. x \in Seq(Op) /\ o \in Op /\ o.mutations = << >>
      <3>1. N \subseteq Op OBVIOUS
      <3>2. x \in Seq(Op) BY <3>1, SeqMonotonic
      <3>. QED BY <3>2 DEF Op
    <2>3. Mutations(Append(x, o)) = << >> \o << >> BY <1>2, <2>2, MutationsAppend
    <2>. QED BY <2>1, <2>3
  <1>3. \A x \in Seq(N) : x \in K
    <2> HIDE DEF K
    <2>. QED BY <1>1, <1>2, SeqSetInduction
  <1>4. ops \in Seq(N)
    <2>1. Len(ops) \in Nat /\ ops \in [1..Len(ops) -> Op] BY LenProperties
    <2>2. ops \in [1..Len(ops) -> N] BY <2>1
    <2>3. \A n \in Nat : \A g \in [1..n -> N] : g \in Seq(N)
      <3> HIDE DEF N
      <3>. QED BY SeqDef
    <2>. QED BY <2>1, <2>2, <2>3
  <1>. QED BY <1>3, <1>4

\* The messages the deletes of a list name.
LEMMA RefsOfOps ==
    /\ RefsOf(<< >>) = {}
    /\ \A ops, more \in Seq(Op) : RefsOf(ops \o more) = RefsOf(ops) \cup RefsOf(more)
    /\ \A o \in Op : RefsOf(<<o>>) = o.refs
    /\ \A ops \in Seq(Op), o \in Op : RefsOf(Append(ops, o)) = RefsOf(ops) \cup o.refs
  <1>1. RefsOf(<< >>) = {}
    <2>1. Range(<< >>) = {} BY DEF Range
    <2>. QED BY <2>1 DEF RefsOf
  <1>2. ASSUME NEW ops \in Seq(Op), NEW more \in Seq(Op)
        PROVE RefsOf(ops \o more) = RefsOf(ops) \cup RefsOf(more)
    <2>1. Range(ops \o more) = Range(ops) \cup Range(more) BY RangeConcatenation
    <2>. QED BY <2>1 DEF RefsOf
  <1>3. ASSUME NEW o \in Op PROVE RefsOf(<<o>>) = o.refs
    <2>1. Range(<<o>>) = {o} BY DEF Range
    <2>. QED BY <2>1 DEF RefsOf
  <1>4. ASSUME NEW ops \in Seq(Op), NEW o \in Op
        PROVE RefsOf(Append(ops, o)) = RefsOf(ops) \cup o.refs
    <2>1. Append(ops, o) = ops \o <<o>> BY AppendIsConcat
    <2>2. <<o>> \in Seq(Op) BY EmptyAndOne
    <2>. QED BY <1>2, <1>3, <2>1, <2>2
  <1>. QED BY <1>1, <1>2, <1>3, <1>4

\* A list taken apart at its first operation.
LEMMA HeadOfOps ==
    ASSUME NEW S, S \subseteq Op, NEW ops \in Seq(S), ops # << >>
    PROVE  /\ Head(ops) \in S /\ Tail(ops) \in Seq(S)
           /\ ops = <<Head(ops)>> \o Tail(ops)
           /\ Mutations(ops) = Head(ops).mutations \o Mutations(Tail(ops))
           /\ RefsOf(ops) = Head(ops).refs \cup RefsOf(Tail(ops))
  <1>1. Head(ops) \in S /\ Tail(ops) \in Seq(S) BY HeadTailProperties
  <1>2. ops = <<Head(ops)>> \o Tail(ops)
    <2>1. Len(ops) \in Nat \ {0} BY EmptySeq
    <2>2. Tail(ops) = SubSeq(ops, 2, Len(ops)) BY TailIsSubSeq
    <2>4. 1 \in 1..Len(ops) /\ Len(ops) \in 1..Len(ops) /\ 1 + 1 = 2 BY <2>1
    <2>5. SubSeq(ops, 1, Len(ops)) = <<ops[1]>> \o SubSeq(ops, 1 + 1, Len(ops))
      BY <2>4, SubSeqRecursiveFirst
    <2>6. SubSeq(ops, 1, Len(ops)) = ops BY SubSeqFull
    <2>3. Head(ops) = ops[1]
      <3>1. Head(SubSeq(ops, 1, Len(ops))) = ops[1] BY <2>4, HeadTailOfSubSeq
      <3>. QED BY <2>6, <3>1, Zenon
    <2>. QED BY <2>2, <2>3, <2>4, <2>5, <2>6
  <1>3. <<Head(ops)>> \in Seq(Op) /\ Tail(ops) \in Seq(Op) /\ Head(ops) \in Op
    <2>1. Head(ops) \in Op BY <1>1
    <2>2. Tail(ops) \in Seq(Op) BY <1>1, SeqMonotonic
    <2>. QED BY <2>1, <2>2, EmptyAndOne
  <1>4. Mutations(<<Head(ops)>> \o Tail(ops)) = Mutations(<<Head(ops)>>) \o Mutations(Tail(ops))
    BY <1>3, MutationsConcat
  <1>5. RefsOf(<<Head(ops)>> \o Tail(ops)) = RefsOf(<<Head(ops)>>) \cup RefsOf(Tail(ops))
    BY <1>3, RefsOfOps
  <1>6. Mutations(<<Head(ops)>>) = Head(ops).mutations /\ RefsOf(<<Head(ops)>>) = Head(ops).refs
    BY <1>3, MutationsOne, RefsOfOps
  <1>. QED BY ONLY <1>1, <1>2, <1>4, <1>5, <1>6, Zenon

\* A list taken apart at its i-th operation.
SplitAt(S, ops, i) ==
    LET before == SubSeq(ops, 1, i - 1)
        after == SubSeq(ops, i + 1, Len(ops))
    IN  /\ before \in Seq(S) /\ after \in Seq(S) /\ ops[i] \in S
        /\ RemoveAt(ops, i) = before \o after /\ RemoveAt(ops, i) \in Seq(S)
        /\ \A j \in 1..Len(before) : j < i /\ j \in 1..Len(ops) /\ before[j] = ops[j]
        /\ Mutations(ops) = (Mutations(before) \o ops[i].mutations) \o Mutations(after)
        /\ Mutations(RemoveAt(ops, i)) = Mutations(before) \o Mutations(after)
        /\ RefsOf(ops) = RefsOf(RemoveAt(ops, i)) \cup ops[i].refs

\* Any list can be.
LEMMA SplitOps ==
    ASSUME NEW S, S \subseteq Op, NEW ops \in Seq(S), NEW i \in 1..Len(ops)
    PROVE  SplitAt(S, ops, i)
  <1> DEFINE before == SubSeq(ops, 1, i - 1)
             after == SubSeq(ops, i + 1, Len(ops))
             upto == SubSeq(ops, 1, i)
  <1>0. Len(ops) \in Nat /\ \A j \in 1..Len(ops) : ops[j] \in S BY LenProperties, ElementOfSeq
  <1>1. before \in Seq(S) /\ \A j \in 1..Len(before) : j < i /\ j \in 1..Len(ops) /\ before[j] = ops[j]
    <2>1. \A j \in 1..(i - 1) : ops[j] \in S BY <1>0
    <2> DEFINE k == i - 1
    <2>2. k \in Int /\ 1 \in Int /\ 0 <= k /\ k < i /\ k < Len(ops) BY <1>0
    <2>3. before = SubSeq(ops, 1, k) OBVIOUS
    <2> HIDE DEF before, k
    <2>4. \A j \in 1..k : ops[j] \in S BY <2>1 DEF k
    <2>5. before \in Seq(S) /\ Len(before) = (IF 1 <= k THEN k - 1 + 1 ELSE 0)
          /\ \A j \in 1..(k - 1 + 1) : before[j] = ops[1 + j - 1]
      <3>1. /\ SubSeq(ops, 1, k) \in Seq(S)
            /\ Len(SubSeq(ops, 1, k)) = (IF 1 <= k THEN k - 1 + 1 ELSE 0)
            /\ \A j \in 1..(k - 1 + 1) : SubSeq(ops, 1, k)[j] = ops[1 + j - 1]
        BY <2>2, <2>4, SubSeqProperties
      <3>. QED BY <2>3, <3>1
    <2>6. Len(before) = k /\ k - 1 + 1 = k /\ \A j \in 1..k : 1 + j - 1 = j BY <2>2, <2>5
    <2>7. \A j \in 1..k : before[j] = ops[j] BY <2>5, <2>6
    <2>8. \A j \in 1..k : j < i /\ j \in 1..Len(ops) BY <1>0, <2>2
    <2>. QED BY <2>5, <2>6, <2>7, <2>8
  <1>2. after \in Seq(S)
    <2>1. \A j \in (i + 1)..Len(ops) : ops[j] \in S BY <1>0
    <2>. QED BY <1>0, <2>1, SubSeqProperties
  <1>3. RemoveAt(ops, i) = before \o after BY DEF RemoveAt
  <1>4. upto = before \o <<ops[i]>>
    <2>1. 1 \in 1..Len(ops) /\ i \in 1..Len(ops) BY <1>0
    <2>. QED BY <2>1, SubSeqRecursiveSecond
  <1>5. ops = upto \o after
    <2>1. 1 \in 1..(Len(ops) + 1) /\ i \in (1 - 1)..Len(ops) /\ Len(ops) \in i..Len(ops) BY <1>0
    <2>2. upto \o after = SubSeq(ops, 1, Len(ops)) BY <2>1, ConcatAdjacentSubSeq
    <2>. QED BY <2>2, SubSeqFull
  <1> HIDE DEF before, after, upto
  <1>6. before \in Seq(Op) /\ after \in Seq(Op) /\ ops[i] \in Op /\ <<ops[i]>> \in Seq(Op)
    <2>1. before \in Seq(Op) /\ after \in Seq(Op) BY <1>1, <1>2, SeqMonotonic
    <2>2. ops[i] \in Op BY <1>0
    <2>. QED BY <2>1, <2>2, EmptyAndOne
  <1>7. upto \in Seq(Op) BY <1>4, <1>6, ConcatProperties
  <1>8. Mutations(ops) = (Mutations(before) \o ops[i].mutations) \o Mutations(after)
    <2>1. Mutations(upto) = Mutations(before) \o Mutations(<<ops[i]>>) BY <1>4, <1>6, MutationsConcat
    <2>2. Mutations(upto \o after) = Mutations(upto) \o Mutations(after) BY <1>6, <1>7, MutationsConcat
    <2>3. Mutations(<<ops[i]>>) = ops[i].mutations BY <1>6, MutationsOne
    <2>. QED BY ONLY <1>5, <2>1, <2>2, <2>3, Zenon
  <1>9. Mutations(before \o after) = Mutations(before) \o Mutations(after) BY <1>6, MutationsConcat
  <1>10. RefsOf(ops) = RefsOf(before \o after) \cup ops[i].refs
    <2>1. RefsOf(upto) = RefsOf(before) \cup ops[i].refs 
      <3>1. RefsOf(before \o <<ops[i]>>) = RefsOf(before) \cup RefsOf(<<ops[i]>>) BY <1>6, RefsOfOps
      <3>2. RefsOf(<<ops[i]>>) = ops[i].refs BY <1>6, RefsOfOps
      <3>. QED BY ONLY <1>4, <3>1, <3>2, Zenon
    <2>2. RefsOf(upto \o after) = RefsOf(upto) \cup RefsOf(after) BY <1>6, <1>7, RefsOfOps
    <2>3. RefsOf(before \o after) = RefsOf(before) \cup RefsOf(after) BY <1>6, RefsOfOps
    <2>4. RefsOf(ops) = RefsOf(upto \o after) BY <1>5
    <2>. QED BY <2>1, <2>2, <2>3, <2>4
  <1>11. before \o after \in Seq(S) BY <1>1, <1>2, ConcatProperties
  <1>12. ops[i] \in S BY <1>0
  <1>13. Mutations(RemoveAt(ops, i)) = Mutations(before) \o Mutations(after) BY <1>3, <1>9
  <1>14. RefsOf(ops) = RefsOf(RemoveAt(ops, i)) \cup ops[i].refs /\ RemoveAt(ops, i) \in Seq(S)
    BY <1>3, <1>10, <1>11
  <1>. QED BY <1>1, <1>2, <1>3, <1>8, <1>12, <1>13, <1>14 DEF SplitAt, before, after

-----------------------------------------------------------------------------
(* Rewriting the queued rows *)

\* Superseding by a single newer mutation.
LEMMA SupersededOne ==
    ASSUME NEW ms \in Seq(Mutation), NEW n \in FreshMutation
    PROVE  Superseded(ms, <<n>>) = FlatOf(LeftOf(n), ms)
  <1> DEFINE left == FlattenSeq([i \in 1..Len(ms) |-> subtract_flag_mutation(ms[i], n)])
             Step(current, k) == FlattenSeq([i \in 1..Len(current) |-> subtract_flag_mutation(current[i], <<n>>[k])])
             G(f) == [x \in SUBSET (DOMAIN <<n>>) |->
                        IF x = {} THEN ms ELSE Step(f[x \ {Max(x)}], Max(x))]
             iter == CHOOSE f : f = G(f)
             good == [x \in SUBSET (1..1) |-> IF x = {} THEN ms ELSE left]
  <1>1. DOMAIN <<n>> = 1..1 /\ <<n>>[1] = n OBVIOUS
  <1>2. Superseded(ms, <<n>>) = iter[DOMAIN <<n>>]
    BY DEF Superseded, FoldLeft, MapThenFoldSet, FlatMap
  <1>3. \A x \in SUBSET (1..1) : x # {} => x = 1..1 /\ Max(x) = 1 /\ x \ {Max(x)} = {}
    <2> SUFFICES ASSUME NEW x \in SUBSET (1..1), x # {}
                 PROVE  x = 1..1 /\ Max(x) = 1 /\ x \ {Max(x)} = {}
      OBVIOUS
    <2>0. 1..1 = {1} OBVIOUS
    <2>1. x = 1..1 /\ 1 \in x /\ 1 \in Nat /\ x \ {1} = {} BY <2>0
    <2>2. Max(x) = 1 BY <2>1, MaxOfInterval
    <2>. QED BY <2>1, <2>2
  <1>4. Step(ms, 1) = left BY <1>1
  <1>5. good = G(good)
    <2>1. \A x \in SUBSET (1..1) : good[x] = IF x = {} THEN ms ELSE Step(good[x \ {Max(x)}], Max(x))
      <3> SUFFICES ASSUME NEW x \in SUBSET (1..1), x # {} PROVE good[x] = Step(good[x \ {Max(x)}], Max(x))
        OBVIOUS
      <3>1. Max(x) = 1 /\ x \ {Max(x)} = {} BY <1>3
      <3>2. good[x] = left /\ good[{}] = ms OBVIOUS
      <3> HIDE DEF good, left, Step
      <3>. QED BY <1>4, <3>1, <3>2
    <2>2. good = [x \in SUBSET (1..1) |-> good[x]] OBVIOUS
    <2> HIDE DEF good, Step
    <2>. QED BY <1>1, <2>1, <2>2
  <1> HIDE DEF good
  <1>6. iter = G(iter) BY <1>5
  <1> HIDE DEF iter, Step
  <1>7. iter[{}] = ms BY <1>6
  <1>8. iter[1..1] = Step(iter[(1..1) \ {Max(1..1)}], Max(1..1))
    <2>1. 1..1 \in SUBSET (1..1) /\ 1..1 # {} OBVIOUS
    <2>. QED BY <1>1, <1>6, <2>1
  <1>9. Max(1..1) = 1 /\ (1..1) \ {Max(1..1)} = {}
    <2>1. 1..1 \in SUBSET (1..1) /\ 1..1 # {} OBVIOUS
    <2>. QED BY <1>3, <2>1
  <1> HIDE DEF left
  <1>10. Superseded(ms, <<n>>) = left BY <1>1, <1>2, <1>4, <1>7, <1>8, <1>9
  <1>11. left = FlatOf(LeftOf(n), ms)
    <2>1. \A i \in 1..Len(ms) : ms[i] \in Mutation BY ElementOfSeq
    <2>2. [i \in 1..Len(ms) |-> subtract_flag_mutation(ms[i], n)] = [i \in 1..Len(ms) |-> LeftOf(n)[ms[i]]]
      BY <2>1 DEF LeftOf
    <2>. QED BY <2>2 DEF FlatOf, left
  <1>. QED BY <1>10, <1>11

\* What an operation does to the mutations of the queued rows.
EffectOf(op) == IF op.op = "set_flags" THEN LeftOf(op.mutations[1]) ELSE KeptOf(op.refs)

\* It gives mutations.
LEMMA EffectOfType ==
    ASSUME NEW op \in UserOp
    PROVE  EffectOf(op) \in [Mutation -> Seq(Mutation)]
  <1>1. CASE op.op = "set_flags"
    <2>1. PICK n \in FreshMutation : op.mutations = <<n>> BY <1>1 DEF UserOp, TravelOp
    <2>2. EffectOf(op) = LeftOf(n) BY <1>1, <2>1 DEF EffectOf
    <2>. QED BY <2>2, LeftOfType
  <1>2. CASE op.op # "set_flags"
    <2>1. op.refs \in SUBSET Refs BY DEF UserOp, TravelOp, Op
    <2>2. EffectOf(op) = KeptOf(op.refs) BY <1>2 DEF EffectOf
    <2>. QED BY <2>1, <2>2, KeptOfType
  <1>. QED BY <1>1, <1>2

\* A rewritten row has the mutations left, and keeps what it deletes.
LEMMA RewrittenIs ==
    ASSUME NEW row \in RowOp, NEW op \in UserOp
    PROVE  /\ Rewritten(row, op) \in Seq(RowOp)
           /\ Mutations(Rewritten(row, op)) = FlatOf(EffectOf(op), row.mutations)
           /\ RefsOf(Rewritten(row, op)) = row.refs
  <1>0. row \in Op /\ row.op # "replay" BY DEF RowOp
  <1>1. CASE row.op # "set_flags"
    <2>1. Rewritten(row, op) = <<row>> BY <1>1 DEF Rewritten
    <2>2. row.mutations = << >> BY <1>0, <1>1 DEF Op
    <2>3. FlatOf(EffectOf(op), << >>) = << >> BY FlatOfEmpty
    <2>4. <<row>> \in Seq(RowOp) BY EmptyAndOne
    <2>5. Mutations(<<row>>) = row.mutations BY <1>0, MutationsOne
    <2>6. RefsOf(<<row>>) = row.refs BY <1>0, RefsOfOps
    <2>. QED BY <2>1, <2>2, <2>3, <2>4, <2>5, <2>6
  <1>2. CASE row.op = "set_flags"
    <2> DEFINE left == FlatOf(EffectOf(op), row.mutations)
    <2>1. row.mutations \in Seq(Mutation) /\ row.refs = {} BY <1>0, <1>2 DEF Op
    <2>2. left \in Seq(Mutation) BY <2>1, EffectOfType, FlatOfType
    <2>3. Rewritten(row, op) = IF left = << >> THEN << >> ELSE <<SetFlags(left)>>
      <3>1. CASE op.op = "set_flags"
        <4>1. PICK n \in FreshMutation : op.mutations = <<n>> BY <3>1 DEF UserOp, TravelOp
        <4>2. EffectOf(op) = LeftOf(n) BY <3>1, <4>1 DEF EffectOf
        <4>3. Superseded(row.mutations, op.mutations) = left BY <2>1, <4>1, <4>2, SupersededOne
        <4> HIDE DEF left
        <4>4. Rewritten(row, op) = IF Superseded(row.mutations, op.mutations) = << >> THEN << >>
                                   ELSE <<SetFlags(Superseded(row.mutations, op.mutations))>>
          BY <1>2, <3>1 DEF Rewritten
        <4>. QED BY <4>3, <4>4
      <3>2. CASE op.op # "set_flags"
        <4>1. op.op = "delete" BY <3>2 DEF UserOp, TravelOp, Op
        <4>2. EffectOf(op) = KeptOf(op.refs) BY <3>2 DEF EffectOf
        <4> DEFINE kept == FlatMap(LAMBDA m : remove_deleted_refs(m, op.refs), row.mutations)
        <4>3. kept = left
          <5>1. \A i \in 1..Len(row.mutations) : row.mutations[i] \in Mutation BY <2>1, ElementOfSeq
          <5>2. [i \in 1..Len(row.mutations) |-> remove_deleted_refs(row.mutations[i], op.refs)]
                  = [i \in 1..Len(row.mutations) |-> KeptOf(op.refs)[row.mutations[i]]]
            BY <5>1 DEF KeptOf
          <5>. QED BY <4>2, <5>2 DEF FlatMap, FlatOf
        <4>4. Rewritten(row, op) = IF kept = << >> THEN << >> ELSE <<SetFlags(kept)>>
          BY <1>2, <4>1 DEF Rewritten
        <4> HIDE DEF left, kept
        <4>. QED BY <4>3, <4>4
      <3>. QED BY <3>1, <3>2
    <2> HIDE DEF left
    <2>4. CASE left = << >>
      <3>1. << >> \in Seq(RowOp) BY EmptySeq
      <3>2. Mutations(<< >>) = << >> /\ RefsOf(<< >>) = {} BY MutationsOne, RefsOfOps
      <3>. QED BY <2>1, <2>3, <2>4, <3>1, <3>2 DEF left
    <2>5. CASE left # << >>
      <3> DEFINE new == SetFlags(left)
      <3>1. new \in RowOp /\ new \in Op /\ new.mutations = left /\ new.refs = {}
        BY <2>2 DEF SetFlags, RowOp, Op
      <3>2. Rewritten(row, op) = <<new>> BY <2>3, <2>5
      <3> HIDE DEF new
      <3>3. <<new>> \in Seq(RowOp) BY <3>1, EmptyAndOne
      <3>4. Mutations(<<new>>) = left BY <3>1, MutationsOne
      <3>5. RefsOf(<<new>>) = {} BY <3>1, RefsOfOps
      <3>. QED BY <2>1, <3>2, <3>3, <3>4, <3>5 DEF left
    <2>. QED BY <2>4, <2>5
  <1>. QED BY <1>1, <1>2

\* Superseding rewrites the mutations of all rows and keeps every delete.
LEMMA SupersedeIs ==
    ASSUME NEW table \in Seq(RowOp), NEW op \in UserOp
    PROVE  /\ supersede_pending(table, op) \in Seq(RowOp)
           /\ Mutations(supersede_pending(table, op)) = FlatOf(EffectOf(op), Mutations(table))
           /\ RefsOf(supersede_pending(table, op)) = RefsOf(table)
  <1> DEFINE W == [row \in RowOp |-> Rewritten(row, op)]
             P(x) == /\ FlatOf(W, x) \in Seq(RowOp)
                     /\ Mutations(FlatOf(W, x)) = FlatOf(EffectOf(op), Mutations(x))
                     /\ RefsOf(FlatOf(W, x)) = RefsOf(x)
             K == {x \in Seq(RowOp) : P(x)}
  <1>1. W \in [RowOp -> Seq(RowOp)] BY RewrittenIs
  <1>2. supersede_pending(table, op) = FlatOf(W, table)
    <2>1. \A i \in 1..Len(table) : table[i] \in RowOp BY ElementOfSeq
    <2>2. [i \in 1..Len(table) |-> Rewritten(table[i], op)] = [i \in 1..Len(table) |-> W[table[i]]]
      BY <2>1
    <2> HIDE DEF W
    <2>. QED BY <2>2 DEF supersede_pending, FlatMap, FlatOf
  <1>3. \A row \in RowOp : W[row] = Rewritten(row, op) OBVIOUS
  <1> HIDE DEF W
  <1>4. << >> \in K
    <2>1. << >> \in Seq(RowOp) BY EmptySeq
    <2>2. FlatOf(W, << >>) = << >> /\ FlatOf(EffectOf(op), << >>) = << >> BY FlatOfEmpty
    <2>3. Mutations(<< >>) = << >> BY MutationsOne
    <2>4. P(<< >>) BY <2>1, <2>2, <2>3
    <2>. QED BY <2>1, <2>4
  <1>5. ASSUME NEW x \in Seq(RowOp), NEW row \in RowOp, x \in K PROVE Append(x, row) \in K
    <2>1. Append(x, row) \in Seq(RowOp) BY AppendProperties
    <2>2. FlatOf(W, Append(x, row)) = FlatOf(W, x) \o Rewritten(row, op) BY <1>1, <1>3, FlatOfAppend
    <2>3. P(x) BY <1>5
    <2>4. /\ Rewritten(row, op) \in Seq(RowOp) /\ RefsOf(Rewritten(row, op)) = row.refs
          /\ Mutations(Rewritten(row, op)) = FlatOf(EffectOf(op), row.mutations)
      BY RewrittenIs
    <2>5. x \in Seq(Op) /\ row \in Op /\ FlatOf(W, x) \in Seq(Op) /\ Rewritten(row, op) \in Seq(Op)
      BY <2>3, <2>4, OpKinds
    <2>6. FlatOf(W, x) \o Rewritten(row, op) \in Seq(RowOp) BY <2>3, <2>4, ConcatProperties
    <2>7. Mutations(FlatOf(W, x) \o Rewritten(row, op)) = Mutations(FlatOf(W, x)) \o Mutations(Rewritten(row, op))
      BY <2>5, MutationsConcat
    <2>8. Mutations(Append(x, row)) = Mutations(x) \o row.mutations /\ row.mutations \in Seq(Mutation)
      BY <2>5, MutationsAppend
    <2>9. Mutations(x) \in Seq(Mutation) BY <2>5, MutationsType
    <2>10. FlatOf(EffectOf(op), Mutations(x) \o row.mutations)
             = FlatOf(EffectOf(op), Mutations(x)) \o FlatOf(EffectOf(op), row.mutations)
      BY <2>8, <2>9, EffectOfType, FlatOfBoth
    <2>11. Mutations(FlatOf(W, Append(x, row))) = FlatOf(EffectOf(op), Mutations(Append(x, row)))
      BY ONLY <2>2, <2>3, <2>4, <2>7, <2>8, <2>10, Zenon
    <2>12. RefsOf(FlatOf(W, x) \o Rewritten(row, op)) = RefsOf(FlatOf(W, x)) \cup RefsOf(Rewritten(row, op))
      BY <2>5, RefsOfOps
    <2>13. RefsOf(Append(x, row)) = RefsOf(x) \cup row.refs BY <2>5, RefsOfOps
    <2>14. RefsOf(FlatOf(W, Append(x, row))) = RefsOf(Append(x, row)) BY <2>2, <2>3, <2>4, <2>12, <2>13
    <2>. QED BY <2>1, <2>2, <2>6, <2>11, <2>14
  <1>6. \A x \in Seq(RowOp) : x \in K
    <2> HIDE DEF K
    <2>. QED BY <1>4, <1>5, SeqSetInduction
  <1>. QED BY <1>2, <1>6

-----------------------------------------------------------------------------
(* Coalescing *)

\* The steps of coalescing.
CoalesceSteps(ops) == [i \in 1..Len(ops) |-> [v \in Seq(TravelOp) |-> CoalesceInto(v, ops[i])]]
Coalesced(ops) == FoldLeft(CoalesceInto, << >>, ops)

\* Two lists of mutations have the same effect.
SameRun(x, y) == \A s \in Servers : RunMutations(s, x) = RunMutations(s, y)

\* Replacing the last element of a list.
LEMMA ReplaceLast ==
    ASSUME NEW S, NEW s \in Seq(S), NEW e \in S, NEW d \in S
    PROVE  LET t == Append(s, e)
           IN  t[Len(t)] = e /\ t # << >> /\ [t EXCEPT ![Len(t)] = d] = Append(s, d)
  <1> DEFINE t == Append(s, e)
             u == Append(s, d)
             v == [t EXCEPT ![Len(t)] = d]
  <1>1. t \in Seq(S) /\ t # << >> /\ Len(t) = Len(s) + 1 /\ Len(s) \in Nat /\ t[Len(s) + 1] = e
        /\ \A i \in 1..Len(s) : t[i] = s[i]
    BY AppendProperties, LenProperties
  <1>2. u \in Seq(S) /\ Len(u) = Len(s) + 1 /\ u[Len(s) + 1] = d /\ \A i \in 1..Len(s) : u[i] = s[i]
    BY AppendProperties
  <1> HIDE DEF t, u
  <1>3. Len(t) \in 1..Len(t) BY <1>1
  <1>4. v \in Seq(S) /\ Len(v) = Len(t) /\ \A j \in 1..Len(t) : v[j] = IF j = Len(t) THEN d ELSE t[j]
    BY <1>1, <1>3, ExceptSeq
  <1>5. \A j \in 1..Len(v) : v[j] = u[j]
    <2> HIDE DEF v
    <2> SUFFICES ASSUME NEW j \in 1..Len(v) PROVE v[j] = u[j] OBVIOUS
    <2>1. CASE j = Len(t) BY <1>1, <1>2, <1>4, <2>1
    <2>2. CASE j # Len(t)
      <3>1. j \in 1..Len(s) BY <1>1, <1>4, <2>2
      <3>. QED BY <1>1, <1>2, <1>4, <2>2, <3>1
    <2>. QED BY <2>1, <2>2
  <1>6. Len(v) = Len(u) BY <1>1, <1>2, <1>4
  <1>7. v = u
    <2> HIDE DEF v
    <2>. QED BY <1>2, <1>4, <1>5, <1>6, SeqEqual
  <1>. QED BY <1>1, <1>7 DEF t, u

\* Two flag changes with the same flags and direction are one.
LEMMA MergeRun ==
    ASSUME NEW p \in FreshMutation, NEW q \in FreshMutation, ~p.bulk, ~q.bulk,
           p.flags = q.flags, p.add = q.add
    PROVE  LET m == [p EXCEPT !.refs = p.refs \cup q.refs]
           IN  m \in FreshMutation /\ \A s \in Servers : set_flags(s, m) = set_flags(set_flags(s, p), q)
  <1> DEFINE m == [p EXCEPT !.refs = p.refs \cup q.refs]
  <1>1. p \in Mutation /\ q \in Mutation BY DEF FreshMutation
  <1>2. p.refs \cup q.refs \in SUBSET Refs /\ q.refs \in SUBSET Refs /\ p.add \in BOOLEAN /\ q.bulk \in BOOLEAN
    BY <1>1, MutationFields
  <1>3. m \in Mutation /\ m.refs = p.refs \cup q.refs /\ m.bulk = p.bulk /\ m.flags = p.flags /\ m.add = p.add
    BY <1>1, <1>2, WithRefs
  <1> HIDE DEF m
  <1>4. m \in FreshMutation BY <1>3 DEF FreshMutation
  <1>5. ASSUME NEW s \in Servers PROVE set_flags(s, m) = set_flags(set_flags(s, p), q)
    <2> DEFINE t == Store(s, p.refs, p.flags, p.add)
    <2>1. set_flags(s, p) = t BY DEF set_flags
    <2>2. set_flags(t, q) = Store(t, q.refs, p.flags, p.add)
      <3> HIDE DEF t
      <3>. QED BY DEF set_flags
    <2>3. set_flags(s, m) = Store(s, p.refs \cup q.refs, p.flags, p.add) BY <1>3 DEF set_flags
    <2>4. \A f \in Flags : t[f] = IF f \notin p.flags THEN s[f]
                                  ELSE IF p.add THEN s[f] \cup p.refs ELSE s[f] \ p.refs
      BY DEF Store
    <2> HIDE DEF t
    <2>5. \A f \in Flags : (IF f \notin p.flags THEN s[f]
                            ELSE IF p.add THEN s[f] \cup (p.refs \cup q.refs) ELSE s[f] \ (p.refs \cup q.refs))
                         = (IF f \notin p.flags THEN t[f]
                            ELSE IF p.add THEN t[f] \cup q.refs ELSE t[f] \ q.refs)
      <3> SUFFICES ASSUME NEW f \in Flags
                   PROVE (IF f \notin p.flags THEN s[f]
                            ELSE IF p.add THEN s[f] \cup (p.refs \cup q.refs) ELSE s[f] \ (p.refs \cup q.refs))
                         = (IF f \notin p.flags THEN t[f]
                            ELSE IF p.add THEN t[f] \cup q.refs ELSE t[f] \ q.refs)
        OBVIOUS
      <3>1. CASE f \notin p.flags BY <2>4, <3>1
      <3>2. CASE f \in p.flags /\ p.add BY <2>4, <3>2
      <3>3. CASE f \in p.flags /\ ~p.add BY <2>4, <3>3
      <3>. QED BY <3>1, <3>2, <3>3
    <2>6. Store(s, p.refs \cup q.refs, p.flags, p.add) = Store(t, q.refs, p.flags, p.add)
      BY <2>5 DEF Store
    <2>. QED BY <2>1, <2>2, <2>3, <2>6
  <1>. QED BY <1>4, <1>5 DEF m

\* An operation that joins the result changes neither its effect nor its deletes.
LEMMA CoalesceIntoIs ==
    ASSUME NEW result \in Seq(TravelOp), NEW e \in TravelOp
    PROVE  /\ CoalesceInto(result, e) \in Seq(TravelOp)
           /\ RefsOf(CoalesceInto(result, e)) = RefsOf(result) \cup e.refs
           /\ SameRun(Mutations(CoalesceInto(result, e)), Mutations(result) \o e.mutations)
  <1> DEFINE last == result[Len(result)]
  <1>0. e \in Op /\ result \in Seq(Op) /\ e.mutations \in Seq(Mutation) BY OpKinds DEF Op
  <1>1. CASE result # << >> /\ last.op = "delete" /\ e.op = "delete"
    <2>1. PICK s \in Seq(TravelOp), d \in TravelOp : result = Append(s, d)
      BY <1>1, SequenceEmptyOrAppend
    <2>2. last = d BY <2>1, ReplaceLast
    <2> DEFINE new == DeleteMessages(last.refs \cup e.refs)
    <2>3. d \in Op /\ s \in Seq(Op) BY OpKinds
    <2>4. new \in TravelOp /\ new \in Op /\ new.refs = d.refs \cup e.refs /\ new.mutations = << >>
      <3>1. d.refs \cup e.refs \in SUBSET Refs BY <1>0, <2>3 DEF Op
      <3>2. << >> \in Seq(Mutation) BY EmptySeq
      <3>. QED BY <2>2, <3>1, <3>2 DEF DeleteMessages, TravelOp, Op
    <2>5. CoalesceInto(result, e) = [result EXCEPT ![Len(result)] = new]
      <3>1. ~Mergeable(last, e) /\ e.op # "replay" BY <1>1 DEF Mergeable
      <3> HIDE DEF last
      <3>. QED BY <1>1, <3>1 DEF CoalesceInto, last
    <2> HIDE DEF new
    <2>6. CoalesceInto(result, e) = Append(s, new) BY <2>1, <2>4, <2>5, ReplaceLast
    <2>7. Append(s, new) \in Seq(TravelOp) BY <2>4, AppendProperties
    <2>8. RefsOf(Append(s, new)) = RefsOf(s) \cup new.refs /\ RefsOf(result) = RefsOf(s) \cup d.refs
      BY <2>1, <2>3, <2>4, RefsOfOps
    <2>9. RefsOf(Append(s, new)) = RefsOf(result) \cup e.refs BY <2>4, <2>8
    <2>10. d.mutations = << >> /\ e.mutations = << >> BY <1>0, <1>1, <2>2, <2>3 DEF Op
    <2>11. Mutations(Append(s, new)) = Mutations(s) \o << >> /\ Mutations(result) = Mutations(s) \o << >>
      BY <2>1, <2>3, <2>4, <2>10, MutationsAppend
    <2>12. Mutations(result) \in Seq(Mutation) BY <1>0, MutationsType
    <2>13. Mutations(result) \o << >> = Mutations(result) BY <2>12, ConcatEmptySeq
    <2>14. Mutations(Append(s, new)) = Mutations(result) \o e.mutations BY <2>10, <2>11, <2>13
    <2>. QED BY <2>6, <2>7, <2>9, <2>14 DEF SameRun
  <1>2. CASE result # << >> /\ Mergeable(last, e)
    <2>1. PICK s \in Seq(TravelOp), d \in TravelOp : result = Append(s, d)
      BY <1>2, SequenceEmptyOrAppend
    <2>2. last = d BY <2>1, ReplaceLast
    <2>3. d \in Op /\ s \in Seq(Op) BY OpKinds
    <2>4. d.op = "set_flags" /\ e.op = "set_flags" BY <1>2, <2>2 DEF Mergeable
    <2>5. PICK p \in FreshMutation : d.mutations = <<p>> BY <2>4 DEF TravelOp
    <2>6. PICK q \in FreshMutation : e.mutations = <<q>> BY <2>4 DEF TravelOp
    <2>7. p.flags = q.flags /\ p.add = q.add /\ ~p.bulk /\ ~q.bulk
      <3>1. LET pp == d.mutations[1]
                qq == e.mutations[1]
            IN  pp.flags = qq.flags /\ pp.add = qq.add /\ ~pp.bulk /\ ~qq.bulk
        BY <1>2, <2>2 DEF Mergeable
      <3>2. d.mutations[1] = p /\ e.mutations[1] = q BY <2>5, <2>6
      <3>. QED BY <3>1, <3>2
    <2> DEFINE m == [p EXCEPT !.refs = p.refs \cup q.refs]
               new == SetFlags(<<m>>)
    <2>8. m \in FreshMutation /\ \A v \in Servers : set_flags(v, m) = set_flags(set_flags(v, p), q)
      BY <2>7, MergeRun
    <2>9. CoalesceInto(result, e) = [result EXCEPT ![Len(result)] = new]
      <3>1. last.mutations[1] = p /\ e.mutations[1] = q BY <2>2, <2>5, <2>6
      <3>2. ~(result # << >> /\ last.op = "delete" /\ e.op = "delete") BY <2>4
      <3>3. CoalesceInto(result, e) = [result EXCEPT ![Len(result)] =
               SetFlags(<<[last.mutations[1] EXCEPT !.refs = last.mutations[1].refs \cup e.mutations[1].refs]>>)]
        BY <1>2, <2>4, <3>2 DEF CoalesceInto
      <3>. QED BY <3>1, <3>3
    <2>10. p \in Mutation /\ q \in Mutation /\ m \in Mutation
      <3> HIDE DEF m
      <3>. QED BY <2>8 DEF FreshMutation
    <2> HIDE DEF m
    <2>11. new \in TravelOp /\ new \in Op /\ new.refs = {} /\ new.mutations = <<m>>
      <3>1. <<m>> \in Seq(Mutation) BY <2>10, EmptyAndOne
      <3>. QED BY <2>8, <3>1 DEF SetFlags, TravelOp, Op
    <2> HIDE DEF new
    <2>12. CoalesceInto(result, e) = Append(s, new) BY <2>1, <2>9, <2>11, ReplaceLast
    <2>13. Append(s, new) \in Seq(TravelOp) BY <2>11, AppendProperties
    <2>14. RefsOf(Append(s, new)) = RefsOf(result) \cup e.refs
      <3>1. RefsOf(Append(s, new)) = RefsOf(s) \cup new.refs /\ RefsOf(result) = RefsOf(s) \cup d.refs
        BY <2>1, <2>3, <2>11, RefsOfOps
      <3>2. d.refs = {} /\ e.refs = {} BY <1>0, <2>3, <2>4 DEF Op
      <3>. QED BY <2>11, <3>1, <3>2
    <2>15. Mutations(Append(s, new)) = Mutations(s) \o <<m>> /\ Mutations(result) = Mutations(s) \o <<p>>
      BY <2>1, <2>3, <2>5, <2>11, MutationsAppend
    <2>16. ASSUME NEW v \in Servers
           PROVE  RunMutations(v, Mutations(Append(s, new))) = RunMutations(v, Mutations(result) \o e.mutations)
      <3>1. Mutations(s) \in Seq(Mutation) /\ Mutations(result) \in Seq(Mutation) BY <1>0, <2>3, MutationsType
      <3>2. <<m>> \in Seq(Mutation) /\ <<p>> \in Seq(Mutation) /\ <<q>> \in Seq(Mutation) BY <2>10, EmptyAndOne
      <3> DEFINE w == RunMutations(v, Mutations(s))
      <3>3. w \in Servers BY <3>1, RunType
      <3>4. RunMutations(v, Mutations(s) \o <<m>>) = RunMutations(w, <<m>>) BY <3>1, <3>2, RunConcat
      <3>5. RunMutations(v, Mutations(s) \o <<p>>) = RunMutations(w, <<p>>) BY <3>1, <3>2, RunConcat
      <3>6. RunMutations(v, Mutations(result) \o <<q>>) = RunMutations(RunMutations(v, Mutations(result)), <<q>>)
        BY <3>1, <3>2, RunConcat
      <3> HIDE DEF w
      <3>7. RunMutations(w, <<m>>) = set_flags(w, m) /\ RunMutations(w, <<p>>) = set_flags(w, p)
        BY <2>10, <3>3, RunOne
      <3>8. set_flags(w, p) \in Servers BY <2>10, <3>3, SetFlagsType
      <3>9. RunMutations(set_flags(w, p), <<q>>) = set_flags(set_flags(w, p), q) BY <2>10, <3>8, RunOne
      <3>10. set_flags(w, m) = set_flags(set_flags(w, p), q) BY <2>8, <3>3
      <3>11. RunMutations(v, Mutations(result)) = set_flags(w, p) BY ONLY <2>15, <3>5, <3>7, Zenon
      <3>. QED BY ONLY <2>6, <2>15, <3>4, <3>6, <3>7, <3>9, <3>10, <3>11, Zenon
    <2>. QED BY <2>12, <2>13, <2>14, <2>16 DEF SameRun
  <1>3. CASE CoalesceInto(result, e) = result /\ e.op = "replay"
    <2>1. e.mutations = << >> /\ e.refs = {} BY <1>0, <1>3 DEF Op
    <2>2. Mutations(result) \in Seq(Mutation) BY <1>0, MutationsType
    <2>3. Mutations(result) \o << >> = Mutations(result) BY <2>2, ConcatEmptySeq
    <2>. QED BY <1>3, <2>1, <2>3 DEF SameRun
  <1>4. CASE CoalesceInto(result, e) = Append(result, e)
    <2>1. Append(result, e) \in Seq(TravelOp) BY AppendProperties
    <2>2. RefsOf(Append(result, e)) = RefsOf(result) \cup e.refs BY <1>0, RefsOfOps
    <2>3. Mutations(Append(result, e)) = Mutations(result) \o e.mutations BY <1>0, MutationsAppend
    <2>. QED BY <1>4, <2>1, <2>2, <2>3 DEF SameRun
  <1>5. ASSUME ~(result # << >> /\ last.op = "delete" /\ e.op = "delete"), ~(result # << >> /\ Mergeable(last, e))
        PROVE  \/ CoalesceInto(result, e) = result /\ e.op = "replay"
               \/ CoalesceInto(result, e) = Append(result, e)
    <2>1. CASE e.op = "replay" /\ e \in Range(result) BY <1>5, <2>1 DEF CoalesceInto
    <2>2. CASE ~(e.op = "replay" /\ e \in Range(result)) BY <1>5, <2>2 DEF CoalesceInto
    <2>. QED BY <2>1, <2>2
  <1>. QED BY <1>1, <1>2, <1>3, <1>4, <1>5

\* The steps of coalescing keep lists of operations.
LEMMA CoalesceStepsType ==
    ASSUME NEW ops \in Seq(TravelOp)
    PROVE  /\ Len(ops) \in Nat /\ \A i \in 1..Len(ops) : ops[i] \in TravelOp
           /\ CoalesceSteps(ops) \in [1..Len(ops) -> [Seq(TravelOp) -> Seq(TravelOp)]]
  <1>1. Len(ops) \in Nat /\ \A i \in 1..Len(ops) : ops[i] \in TravelOp BY LenProperties, ElementOfSeq
  <1>. QED BY <1>1, CoalesceIntoIs DEF CoalesceSteps

\* Coalescing is the fold of these steps.
LEMMA CoalesceChain ==
    ASSUME NEW ops \in Seq(TravelOp)
    PROVE  \E c : /\ IsChain(c, Seq(TravelOp), << >>, Len(ops), CoalesceSteps(ops))
                  /\ Coalesced(ops) = c[Len(ops)]
  <1> DEFINE n == Len(ops)
             V == Seq(TravelOp)
             G(f) == [x \in SUBSET (1..n) |->
                        IF x = {} THEN << >> ELSE CoalesceInto(f[x \ {Max(x)}], ops[Max(x)])]
             iter == CHOOSE f : f = G(f)
             g == CoalesceSteps(ops)
  <1>0. << >> \in V BY EmptySeq
  <1>1. DOMAIN ops = 1..n BY LenProperties
  <1>2. Coalesced(ops) = iter[1..n]
    BY <1>1 DEF Coalesced, FoldLeft, MapThenFoldSet
  <1>3. n \in Nat /\ (\A i \in 1..n : ops[i] \in TravelOp) /\ g \in [1..n -> [V -> V]]
    BY CoalesceStepsType
  <1>4. \A i \in 1..n : \A v \in V : g[i][v] = CoalesceInto(v, ops[i]) BY DEF CoalesceSteps
  <1> HIDE DEF V
  <1>5. \E f : f = G(f)
    <2>1. PICK f : IsFold(f, V, << >>, n, g)
      <3> HIDE DEF g, n
      <3>. QED BY <1>0, <1>3, FoldExists
    <2>2. \A x \in SUBSET (1..n) : x # {} => Max(x) \in 1..n /\ x \ {Max(x)} \in SUBSET (1..n)
      <3> HIDE DEF n
      <3>. QED BY <1>3, MaxOfSome
    <2>3. \A x \in SUBSET (1..n) : x # {} =>
             g[Max(x)][f[x \ {Max(x)}]] = CoalesceInto(f[x \ {Max(x)}], ops[Max(x)])
      <3> HIDE DEF g, n
      <3>. QED BY <1>4, <2>1, <2>2 DEF IsFold
    <2>4. f = G(f)
      <3> HIDE DEF g, n
      <3>. QED BY <2>1, <2>3 DEF IsFold
    <2>. QED BY <2>4
  <1>6. iter = G(iter) BY <1>5
  <1> HIDE DEF iter
  <1>7. iter[{}] = << >> BY <1>6
  <1>8. ASSUME NEW k \in 1..n, iter[1..(k - 1)] \in V
        PROVE  iter[1..k] = g[k][iter[1..(k - 1)]]
    <2>1. k \in Nat /\ 1..k \in SUBSET (1..n) /\ 1..k # {} /\ k \in 1..k BY <1>3
    <2>2. Max(1..k) = k BY <2>1, MaxOfInterval
    <2>3. (1..k) \ {k} = 1..(k - 1) BY <2>1
    <2>4. iter[1..k] = CoalesceInto(iter[(1..k) \ {Max(1..k)}], ops[Max(1..k)]) BY <1>6, <2>1
    <2>5. iter[1..k] = CoalesceInto(iter[1..(k - 1)], ops[k]) BY <2>2, <2>3, <2>4
    <2> HIDE DEF g, n
    <2>. QED BY <1>4, <1>8, <2>5
  <1> DEFINE c == [k \in 0..n |-> iter[1..k]]
  <1>9. IsChain(c, V, << >>, n, g)
    <2> HIDE DEF g, n
    <2>1. StepsAlong(iter, V, << >>, n, g) BY <1>7, <1>8 DEF StepsAlong
    <2>. QED BY <1>0, <1>3, <2>1, ChainOfIter
  <1>10. c[n] = iter[1..n] BY <1>3
  <1> HIDE DEF c
  <1>. QED BY <1>2, <1>9, <1>10 DEF V

\* Coalescing nothing, and one operation more.
LEMMA CoalesceAppend ==
    /\ Coalesced(<< >>) = << >>
    /\ \A ops \in Seq(TravelOp), e \in TravelOp :
          Coalesced(ops) \in Seq(TravelOp) => Coalesced(Append(ops, e)) = CoalesceInto(Coalesced(ops), e)
  <1>1. Coalesced(<< >>) = << >>
    <2>1. << >> \in Seq(TravelOp) /\ Len(<< >>) = 0 BY EmptySeq
    <2>. QED BY <2>1, CoalesceChain DEF IsChain
  <1>2. ASSUME NEW ops \in Seq(TravelOp), NEW e \in TravelOp
        PROVE  Coalesced(Append(ops, e)) = CoalesceInto(Coalesced(ops), e)
    <2> DEFINE n == Len(ops)
               more == Append(ops, e)
               V == Seq(TravelOp)
    <2>1. PICK c : IsChain(c, V, << >>, n, CoalesceSteps(ops)) /\ Coalesced(ops) = c[n]
      BY CoalesceChain
    <2>2. more \in V /\ Len(more) = n + 1 /\ n \in Nat
          /\ (\A i \in 1..n : more[i] = ops[i]) /\ more[n + 1] = e
      BY AppendProperties, LenProperties
    <2>3. PICK d : IsChain(d, V, << >>, n + 1, CoalesceSteps(more)) /\ Coalesced(more) = d[n + 1]
      <3> HIDE DEF more, n
      <3>. QED BY <2>2, CoalesceChain
    <2>4. SameSteps(CoalesceSteps(ops), CoalesceSteps(more), n) BY <2>2 DEF CoalesceSteps, SameSteps
    <2> HIDE DEF V
    <2>5. d[n] = c[n]
      <3> HIDE DEF more, n
      <3>1. n <= n + 1 /\ n + 1 \in Nat BY <2>2
      <3>. QED BY <2>1, <2>2, <2>3, <2>4, <3>1, ChainUnique
    <2>6. d[n + 1] = CoalesceSteps(more)[n + 1][d[n]] /\ d[n] \in V
      <3> HIDE DEF more, n
      <3>1. n + 1 \in 1..(n + 1) /\ (n + 1) - 1 = n /\ n \in 0..(n + 1) BY <2>2
      <3>. QED BY <2>3, <3>1 DEF IsChain
    <2>7. CoalesceSteps(more)[n + 1][d[n]] = CoalesceInto(d[n], e)
      <3> HIDE DEF more, n
      <3>1. n + 1 \in 1..Len(more) BY <2>2
      <3>. QED BY <2>2, <2>6, <3>1 DEF CoalesceSteps, V
    <2>. QED BY <2>1, <2>3, <2>5, <2>6, <2>7
  <1>. QED BY <1>1, <1>2

\* Coalescing keeps the effect of a list of operations, and its deletes.
LEMMA CoalescedIs ==
    ASSUME NEW ops \in Seq(TravelOp)
    PROVE  /\ Coalesced(ops) \in Seq(TravelOp)
           /\ RefsOf(Coalesced(ops)) = RefsOf(ops)
           /\ SameRun(Mutations(Coalesced(ops)), Mutations(ops))
  <1> DEFINE P(x) == /\ Coalesced(x) \in Seq(TravelOp)
                     /\ RefsOf(Coalesced(x)) = RefsOf(x)
                     /\ SameRun(Mutations(Coalesced(x)), Mutations(x))
             K == {x \in Seq(TravelOp) : P(x)}
  <1>1. << >> \in K
    <2>1. << >> \in Seq(TravelOp) BY EmptySeq
    <2>. QED BY <2>1, CoalesceAppend DEF SameRun
  <1>2. ASSUME NEW x \in Seq(TravelOp), NEW e \in TravelOp, x \in K PROVE Append(x, e) \in K
    <2>1. Append(x, e) \in Seq(TravelOp) BY AppendProperties
    <2>2. P(x) BY <1>2
    <2>3. Coalesced(Append(x, e)) = CoalesceInto(Coalesced(x), e) BY <2>2, CoalesceAppend
    <2> DEFINE y == Coalesced(x)
               z == CoalesceInto(y, e)
    <2>4. y \in Seq(TravelOp) /\ RefsOf(y) = RefsOf(x) /\ SameRun(Mutations(y), Mutations(x)) BY <2>2
    <2> HIDE DEF y
    <2>5. z \in Seq(TravelOp) /\ RefsOf(z) = RefsOf(y) \cup e.refs
          /\ SameRun(Mutations(z), Mutations(y) \o e.mutations)
      BY <2>4, CoalesceIntoIs
    <2>6. x \in Seq(Op) /\ y \in Seq(Op) /\ e \in Op BY <2>4, OpKinds
    <2>7. RefsOf(Append(x, e)) = RefsOf(x) \cup e.refs BY <2>6, RefsOfOps
    <2>8. Mutations(Append(x, e)) = Mutations(x) \o e.mutations /\ e.mutations \in Seq(Mutation)
      BY <2>6, MutationsAppend
    <2>9. Mutations(x) \in Seq(Mutation) /\ Mutations(y) \in Seq(Mutation) BY <2>6, MutationsType
    <2> HIDE DEF z
    <2>10. ASSUME NEW s \in Servers PROVE RunMutations(s, Mutations(z)) = RunMutations(s, Mutations(Append(x, e)))
      <3>1. RunMutations(s, Mutations(y) \o e.mutations) = RunMutations(RunMutations(s, Mutations(y)), e.mutations)
        BY <2>8, <2>9, RunConcat
      <3>2. RunMutations(s, Mutations(x) \o e.mutations) = RunMutations(RunMutations(s, Mutations(x)), e.mutations)
        BY <2>8, <2>9, RunConcat
      <3>3. RunMutations(s, Mutations(y)) = RunMutations(s, Mutations(x)) BY <2>4 DEF SameRun
      <3>4. RunMutations(s, Mutations(z)) = RunMutations(s, Mutations(y) \o e.mutations) BY <2>5 DEF SameRun
      <3>. QED BY ONLY <2>8, <3>1, <3>2, <3>3, <3>4, Zenon
    <2>11. SameRun(Mutations(z), Mutations(Append(x, e))) BY <2>10 DEF SameRun
    <2>12. Coalesced(Append(x, e)) = z BY <2>3 DEF y, z
    <2>13. P(Append(x, e)) BY <2>4, <2>5, <2>7, <2>11, <2>12
    <2>. QED BY <2>1, <2>13
  <1>3. \A x \in Seq(TravelOp) : x \in K
    <2> HIDE DEF K
    <2>. QED BY <1>1, <1>2, SeqSetInduction
  <1>. QED BY <1>3

\* Sorting out the replay requests changes neither effect nor deletes.
LEMMA UserOpsIs ==
    ASSUME NEW ops \in Seq(TravelOp)
    PROVE  /\ UserOps(ops) \in Seq(UserOp) /\ Replays(ops) \in Seq(TravelOp)
           /\ Mutations(UserOps(ops)) = Mutations(ops) /\ RefsOf(UserOps(ops)) = RefsOf(ops)
           /\ Mutations(Replays(ops)) = << >> /\ RefsOf(Replays(ops)) = {}
  <1> DEFINE U == [o \in TravelOp |-> IF o.op # "replay" THEN <<o>> ELSE << >>]
             W == [o \in TravelOp |-> IF o.op = "replay" THEN <<o>> ELSE << >>]
             P(x) == /\ FlatOf(U, x) \in Seq(UserOp) /\ FlatOf(W, x) \in Seq(TravelOp)
                     /\ Mutations(FlatOf(U, x)) = Mutations(x) /\ RefsOf(FlatOf(U, x)) = RefsOf(x)
                     /\ Mutations(FlatOf(W, x)) = << >> /\ RefsOf(FlatOf(W, x)) = {}
             K == {x \in Seq(TravelOp) : P(x)}
  <1>1. UserOps(ops) = FlatOf(U, ops) /\ Replays(ops) = FlatOf(W, ops)
    <2>1. \A i \in 1..Len(ops) : ops[i] \in TravelOp BY ElementOfSeq
    <2>2. [i \in 1..Len(ops) |-> IF ops[i].op # "replay" THEN <<ops[i]>> ELSE << >>] = [i \in 1..Len(ops) |-> U[ops[i]]]
      BY <2>1
    <2>3. [i \in 1..Len(ops) |-> IF ops[i].op = "replay" THEN <<ops[i]>> ELSE << >>] = [i \in 1..Len(ops) |-> W[ops[i]]]
      BY <2>1
    <2> HIDE DEF U, W
    <2>. QED BY <2>2, <2>3 DEF UserOps, Replays, FlatMap, FlatOf
  <1>2. ASSUME NEW o \in TravelOp
        PROVE  /\ U[o] \in Seq(UserOp) /\ U[o] \in Seq(Op) /\ Mutations(U[o]) = o.mutations /\ RefsOf(U[o]) = o.refs
               /\ W[o] \in Seq(TravelOp) /\ W[o] \in Seq(Op) /\ Mutations(W[o]) = << >> /\ RefsOf(W[o]) = {}
    <2>0. o \in Op BY OpKinds
    <2>1. << >> \in Seq(UserOp) /\ << >> \in Seq(TravelOp) /\ << >> \in Seq(Op) BY EmptySeq
    <2>2. <<o>> \in Seq(TravelOp) /\ <<o>> \in Seq(Op) BY <2>0, EmptyAndOne
    <2>3. Mutations(<<o>>) = o.mutations /\ RefsOf(<<o>>) = o.refs /\ Mutations(<< >>) = << >> /\ RefsOf(<< >>) = {}
      BY <2>0, MutationsOne, RefsOfOps
    <2>4. CASE o.op = "replay"
      <3>1. o.mutations = << >> /\ o.refs = {} BY <2>0, <2>4 DEF Op
      <3>2. U[o] = << >> /\ W[o] = <<o>> BY <2>4
      <3>. QED BY <2>1, <2>2, <2>3, <3>1, <3>2
    <2>5. CASE o.op # "replay"
      <3>1. o \in UserOp BY <2>5 DEF UserOp
      <3>2. <<o>> \in Seq(UserOp) BY <3>1, EmptyAndOne
      <3>3. U[o] = <<o>> /\ W[o] = << >> BY <2>5
      <3>. QED BY <2>1, <2>2, <2>3, <3>2, <3>3
    <2>. QED BY <2>4, <2>5
  <1>3. U \in [TravelOp -> Seq(UserOp)] /\ W \in [TravelOp -> Seq(TravelOp)] BY <1>2
  <1> HIDE DEF U, W
  <1>4. << >> \in K
    <2>1. << >> \in Seq(UserOp) /\ << >> \in Seq(TravelOp) BY EmptySeq
    <2>2. FlatOf(U, << >>) = << >> /\ FlatOf(W, << >>) = << >> BY FlatOfEmpty
    <2>3. Mutations(<< >>) = << >> /\ RefsOf(<< >>) = {} BY MutationsOne, RefsOfOps
    <2>. QED BY <2>1, <2>2, <2>3
  <1>5. ASSUME NEW x \in Seq(TravelOp), NEW o \in TravelOp, x \in K PROVE Append(x, o) \in K
    <2>1. Append(x, o) \in Seq(TravelOp) BY AppendProperties
    <2>2. P(x) BY <1>5
    <2>3. FlatOf(U, Append(x, o)) = FlatOf(U, x) \o U[o] /\ FlatOf(W, Append(x, o)) = FlatOf(W, x) \o W[o]
      BY <1>3, FlatOfAppend
    <2>4. FlatOf(U, x) \o U[o] \in Seq(UserOp) /\ FlatOf(W, x) \o W[o] \in Seq(TravelOp)
      BY <1>2, <2>2, ConcatProperties
    <2>5. FlatOf(U, x) \in Seq(Op) /\ FlatOf(W, x) \in Seq(Op) /\ x \in Seq(Op) /\ o \in Op BY <2>2, OpKinds
    <2>6. Mutations(FlatOf(U, x) \o U[o]) = Mutations(FlatOf(U, x)) \o Mutations(U[o]) BY <1>2, <2>5, MutationsConcat
    <2>7. Mutations(FlatOf(W, x) \o W[o]) = Mutations(FlatOf(W, x)) \o Mutations(W[o]) BY <1>2, <2>5, MutationsConcat
    <2>8. RefsOf(FlatOf(U, x) \o U[o]) = RefsOf(FlatOf(U, x)) \cup RefsOf(U[o]) BY <1>2, <2>5, RefsOfOps
    <2>9. RefsOf(FlatOf(W, x) \o W[o]) = RefsOf(FlatOf(W, x)) \cup RefsOf(W[o]) BY <1>2, <2>5, RefsOfOps
    <2>10. Mutations(Append(x, o)) = Mutations(x) \o o.mutations /\ RefsOf(Append(x, o)) = RefsOf(x) \cup o.refs
      BY <2>5, MutationsAppend, RefsOfOps
    <2>11. Mutations(U[o]) = o.mutations /\ RefsOf(U[o]) = o.refs /\ Mutations(W[o]) = << >> /\ RefsOf(W[o]) = {}
      BY <1>2
    <2>12. << >> \o << >> = << >> OBVIOUS
    <2>13. Mutations(FlatOf(U, Append(x, o))) = Mutations(Append(x, o))
      BY ONLY <2>2, <2>3, <2>6, <2>10, <2>11, Zenon
    <2>14. Mutations(FlatOf(W, Append(x, o))) = << >>
      BY ONLY <2>2, <2>3, <2>7, <2>11, <2>12, Zenon
    <2>15. RefsOf(FlatOf(U, Append(x, o))) = RefsOf(Append(x, o)) /\ RefsOf(FlatOf(W, Append(x, o))) = {}
      BY <2>2, <2>3, <2>8, <2>9, <2>10, <2>11
    <2>16. P(Append(x, o)) BY <2>3, <2>4, <2>13, <2>14, <2>15
    <2>. QED BY <2>1, <2>16
  <1>6. \A x \in Seq(TravelOp) : x \in K
    <2> HIDE DEF K
    <2>. QED BY <1>4, <1>5, SeqSetInduction
  <1>. QED BY <1>1, <1>6

\* The batch the worker takes does what the channel would have done.
LEMMA CoalesceBatch ==
    ASSUME NEW ops \in Seq(TravelOp)
    PROVE  /\ UserOps(coalesce(ops)) \in Seq(UserOp)
           /\ RefsOf(UserOps(coalesce(ops))) = RefsOf(ops)
           /\ SameRun(Mutations(UserOps(coalesce(ops))), Mutations(ops))
  <1> DEFINE u == UserOps(ops)
             w == Replays(ops)
             c == Coalesced(u \o w)
  <1>1. /\ u \in Seq(UserOp) /\ w \in Seq(TravelOp)
        /\ Mutations(u) = Mutations(ops) /\ RefsOf(u) = RefsOf(ops)
        /\ Mutations(w) = << >> /\ RefsOf(w) = {}
    BY UserOpsIs
  <1>2. coalesce(ops) = c BY DEF coalesce, Coalesced
  <1> HIDE DEF u, w
  <1>3. u \in Seq(TravelOp) /\ u \in Seq(Op) /\ w \in Seq(Op) BY <1>1, OpKinds
  <1>4. u \o w \in Seq(TravelOp) BY <1>1, <1>3, ConcatProperties
  <1>5. c \in Seq(TravelOp) /\ RefsOf(c) = RefsOf(u \o w) /\ SameRun(Mutations(c), Mutations(u \o w))
    BY <1>4, CoalescedIs
  <1>6. RefsOf(u \o w) = RefsOf(ops)
    <2>1. RefsOf(u \o w) = RefsOf(u) \cup RefsOf(w) BY <1>3, RefsOfOps
    <2>. QED BY <1>1, <2>1
  <1>7. Mutations(u \o w) = Mutations(ops)
    <2>1. Mutations(u \o w) = Mutations(u) \o Mutations(w) BY <1>3, MutationsConcat
    <2>2. Mutations(u) \in Seq(Mutation) BY <1>3, MutationsType
    <2>3. Mutations(u) \o << >> = Mutations(u) BY <2>2, ConcatEmptySeq
    <2>. QED BY ONLY <1>1, <2>1, <2>3, Zenon
  <1> HIDE DEF c
  <1>8. UserOps(c) \in Seq(UserOp) /\ Mutations(UserOps(c)) = Mutations(c) /\ RefsOf(UserOps(c)) = RefsOf(c)
    BY <1>5, UserOpsIs
  <1>. QED BY <1>2, <1>5, <1>6, <1>7, <1>8

-----------------------------------------------------------------------------
(* What a step executes *)

\* Marking messages gives a server state.
LEMMA StoreType ==
    ASSUME NEW s \in Servers, NEW refs \in SUBSET Refs, NEW flags, NEW add
    PROVE  Store(s, refs, flags, add) \in Servers
  BY DEF Store, Servers

\* A bulk read that failed has set and cleared some marks.
PartlyRead(u, m, t) ==
    \E done \in SUBSET RefsIn(m.folders), undone \in SUBSET m.refs :
        t = [u EXCEPT !["seen"] = (u["seen"] \ undone) \cup done]

\* That is what the executor of a bulk read may leave.
LEMMA PartlyBulk ==
    ASSUME NEW u, NEW m, m.bulk, NEW t, t \in set_flags_partly(u, m)
    PROVE  PartlyRead(u, m, t)
  BY SMT DEF set_flags_partly, PartlyRead

\* A failed execution has changed nothing but what its mutations cover.
LEMMA PartlyTouched ==
    ASSUME NEW s \in Servers, NEW ms \in Seq(Mutation), NEW k \in 1..Len(ms), NEW t,
           t \in set_flags_partly(RunMutations(s, SubSeq(ms, 1, k - 1)), ms[k])
    PROVE  /\ t \in Servers
           /\ \A f \in Flags, r \in Refs : Touched(ms, f, r) \/ Alike(t, s, f, r)
  <1> DEFINE before == SubSeq(ms, 1, k - 1)
             m == ms[k]
             u == RunMutations(s, before)
  <1>1. Len(ms) \in Nat /\ \A j \in 1..Len(ms) : ms[j] \in Mutation BY LenProperties, ElementOfSeq
  <1>2. before \in Seq(Mutation) /\ \A j \in 1..Len(before) : j \in 1..Len(ms) /\ before[j] = ms[j]
    <2> DEFINE i == k - 1
    <2>1. i \in Int /\ 1 \in Int /\ 0 <= i /\ i < Len(ms) BY <1>1
    <2>2. before = SubSeq(ms, 1, i) OBVIOUS
    <2> HIDE DEF i, before
    <2>3. \A j \in 1..i : ms[j] \in Mutation BY <1>1, <2>1
    <2>4. /\ SubSeq(ms, 1, i) \in Seq(Mutation)
          /\ Len(SubSeq(ms, 1, i)) = (IF 1 <= i THEN i - 1 + 1 ELSE 0)
          /\ \A j \in 1..(i - 1 + 1) : SubSeq(ms, 1, i)[j] = ms[1 + j - 1]
      BY <2>1, <2>3, SubSeqProperties
    <2>5. Len(before) = i /\ i - 1 + 1 = i /\ \A j \in 1..i : 1 + j - 1 = j BY <2>1, <2>2, <2>4
    <2>6. \A j \in 1..i : before[j] = ms[j] BY <2>2, <2>4, <2>5
    <2>. QED BY <1>1, <2>1, <2>2, <2>4, <2>5, <2>6
  <1>3. m \in Mutation BY <1>1
  <1> HIDE DEF before, m
  <1>4. u \in Servers BY <1>2, RunType
  <1>5. t \in set_flags_partly(u, m) BY DEF before, m
  <1> HIDE DEF u
  <1>6. m.bulk \in BOOLEAN /\ m.refs \in SUBSET Refs /\ RefsIn(m.folders) \in SUBSET Refs
        /\ (m.bulk => m.refs \subseteq RefsIn(m.folders))
    BY <1>3, MutationFields DEF RefsIn
  <1>7. t \in Servers /\ \A f \in Flags, r \in Refs : Covers(m, f, r) \/ Alike(t, u, f, r)
    <2>1. CASE m.bulk
      <3>1. PICK done \in SUBSET RefsIn(m.folders), undone \in SUBSET m.refs :
               t = [u EXCEPT !["seen"] = (u["seen"] \ undone) \cup done]
        <4>1. PartlyRead(u, m, t) BY <1>5, <2>1, PartlyBulk
        <4>. QED BY ONLY <4>1, Zenon DEF PartlyRead
      <3>2. t \in Servers BY <1>4, <1>6, <3>1, FlagsAssumption DEF Servers
      <3>3. \A f \in Flags : t[f] = IF f = "seen" THEN (u[f] \ undone) \cup done ELSE u[f]
        BY <1>4, <3>1 DEF Servers
      <3>4. \A f \in Flags, r \in Refs : Covers(m, f, r) <=> f = "seen" /\ r \in RefsIn(m.folders)
        BY <2>1 DEF Covers
      <3>5. ASSUME NEW f \in Flags, NEW r \in Refs, ~Covers(m, f, r) PROVE Alike(t, u, f, r)
        <4>1. CASE f = "seen"
          <5>1. r \notin RefsIn(m.folders) BY <3>4, <3>5, <4>1
          <5>2. r \notin done /\ r \notin undone BY <1>6, <2>1, <5>1
          <5>. QED BY <3>3, <4>1, <5>2 DEF Alike
        <4>2. CASE f # "seen" BY <3>3, <4>2 DEF Alike
        <4>. QED BY <4>1, <4>2
      <3>. QED BY <3>2, <3>5
    <2>2. CASE ~m.bulk
      <3>1. PICK reached \in SUBSET m.refs : t = Store(u, reached, m.flags, m.add)
        BY <1>5, <2>2 DEF set_flags_partly
      <3>2. reached \in SUBSET Refs BY <1>6
      <3>3. t \in Servers BY <1>4, <3>1, <3>2, StoreType
      <3>4. \A f \in Flags : t[f] = IF f \notin m.flags THEN u[f]
                                    ELSE IF m.add THEN u[f] \cup reached ELSE u[f] \ reached
        BY <3>1 DEF Store
      <3>5. ASSUME NEW f \in Flags, NEW r \in Refs, ~Covers(m, f, r) PROVE Alike(t, u, f, r)
        <4>1. f \notin m.flags \/ r \notin reached BY <2>2, <3>5 DEF Covers
        <4>. QED BY <3>4, <4>1 DEF Alike
      <3>. QED BY <3>3, <3>5
    <2>. QED BY <1>6, <2>1, <2>2
  <1>8. ASSUME NEW f \in Flags, NEW r \in Refs, ~Touched(ms, f, r) PROVE Alike(t, s, f, r)
    <2>1. ~Covers(m, f, r) BY <1>8 DEF Touched, m
    <2>2. ~Touched(before, f, r) BY <1>2, <1>8 DEF Touched
    <2>3. Alike(u, s, f, r) BY <1>2, <2>2, RunTouched DEF u
    <2>. QED BY <1>7, <2>1, <2>3 DEF Alike
  <1>. QED BY <1>7, <1>8

\* What such a change does not cover comes out as before, what it covers is
\* overwritten when the mutations run again.
LEMMA RunAgain ==
    ASSUME NEW s \in Servers, NEW t \in Servers, NEW xs \in Seq(Mutation), NEW ms \in Seq(Mutation),
           NEW f \in Flags, NEW r \in Refs, Touched(ms, f, r) \/ Alike(t, s, f, r)
    PROVE  Alike(RunMutations(RunMutations(t, xs), ms), RunMutations(RunMutations(s, xs), ms), f, r)
  <1>1. RunMutations(t, xs) \in Servers /\ RunMutations(s, xs) \in Servers BY RunType
  <1>2. CASE Touched(ms, f, r)
    <2> DEFINE u == RunMutations(t, xs)
               v == RunMutations(s, xs)
    <2> HIDE DEF u, v
    <2>1. u \in Servers /\ v \in Servers BY <1>1 DEF u, v
    <2>2. Alike(RunMutations(u, ms), RunMutations(v, ms), f, r) BY <1>2, <2>1, RunTouched
    <2>. QED BY <2>2 DEF u, v
  <1>3. CASE Alike(t, s, f, r)
    <2>1. Alike(RunMutations(t, xs), RunMutations(s, xs), f, r) BY <1>3, RunLocal
    <2>. QED BY <1>1, <2>1, RunLocal
  <1>. QED BY <1>2, <1>3

\* The operations the commands make.
LEMMA CommandOps ==
    /\ \A refs \in SUBSET Refs, flags \in FlagSets, add \in BOOLEAN :
          /\ Messages(refs, flags, add) \in FreshMutation
          /\ SetFlags(<<Messages(refs, flags, add)>>) \in UserOp
    /\ \A folders \in SUBSET Folders :
          /\ AllMessagesInFolders(folders, {}, {"seen"}, TRUE) \in FreshMutation
          /\ SetFlags(<<AllMessagesInFolders(folders, {}, {"seen"}, TRUE)>>) \in UserOp
    /\ \A refs \in SUBSET Refs : DeleteMessages(refs) \in UserOp
    /\ ReplayOffline \in TravelOp
  <1>1. ASSUME NEW n \in FreshMutation PROVE SetFlags(<<n>>) \in UserOp
    <2>1. n \in Mutation BY DEF FreshMutation
    <2>2. <<n>> \in Seq(Mutation) BY <2>1, EmptyAndOne
    <2>. QED BY <2>2 DEF SetFlags, UserOp, TravelOp, Op
  <1>2. ASSUME NEW refs \in SUBSET Refs, NEW flags \in FlagSets, NEW add \in BOOLEAN
        PROVE  Messages(refs, flags, add) \in FreshMutation
    <2>1. flags \in SUBSET Flags /\ (OneFlag => \E f \in Flags : flags = {f}) BY QueueAssumption DEF OneFlag
    <2>. QED BY <2>1 DEF Messages, FreshMutation, Mutation, MutationRecords, flag_mutation_from_json_accepts
  <1>3. ASSUME NEW folders \in SUBSET Folders
        PROVE  AllMessagesInFolders(folders, {}, {"seen"}, TRUE) \in FreshMutation
    <2>1. "seen" \in Flags BY FlagsAssumption
    <2>. QED BY <2>1 DEF AllMessagesInFolders, FreshMutation, Mutation, MutationRecords,
                         flag_mutation_from_json_accepts
  <1>4. << >> \in Seq(Mutation) BY EmptySeq
  <1>5. \A refs \in SUBSET Refs : DeleteMessages(refs) \in UserOp
    BY <1>4 DEF DeleteMessages, UserOp, TravelOp, Op
  <1>6. ReplayOffline \in TravelOp BY <1>4 DEF ReplayOffline, TravelOp, Op
  <1>. QED BY <1>1, <1>2, <1>3, <1>5, <1>6

-----------------------------------------------------------------------------
(* The inductive invariant *)

\* The types; a batch is only there between two recv calls.
Typed ==
    /\ sending \in Seq(TravelOp) /\ channel \in Seq(TravelOp)
    /\ batch \in Seq(UserOp) /\ rows \in Seq(RowOp)
    /\ server \in Servers /\ local \in Servers
    /\ deleted \in SUBSET Refs /\ expunged \in SUBSET Refs
    /\ pc \in {"idle", "preflight", "execute", "replay"}
    /\ pc \in {"idle", "replay"} => batch = << >>
    /\ pc = "execute" => batch # << >>

\* After the preflight no queued mutation contradicts the one about to run.
Preflighted ==
    pc = "execute" =>
        \A n \in FreshMutation : Head(batch).mutations = <<n>> => Mutations(rows) \in Seq(AgreesWith(n))

\* With one command under way there is at most one operation to send.
OnePending == Len(sending) <= 1

\* The deletes under way.
DeletesUnderWay == RefsOf(rows) \cup RefsOf(batch) \cup RefsOf(channel) \cup RefsOf(sending)
DeletesKept == expunged \subseteq deleted /\ deleted = expunged \cup DeletesUnderWay

\* The flags when everything under way has run.
FinalFlags == RunMutations(RunMutations(RunMutations(RunMutations(server, Mutations(rows)),
                  Mutations(batch)), Mutations(channel)), Mutations(sending))
IntentKept == \A f \in Flags, r \in Refs \ deleted : Alike(FinalFlags, local, f, r)

\* The row a replay takes first is a row.
LEMMA ReplayFirst ==
    ASSUME Typed, rows # << >>
    PROVE  /\ replay_order_first \in 1..Len(rows) /\ rows[replay_order_first] \in RowOp
           /\ \A j \in 1..Len(rows) : j < replay_order_first => rows[j].op # "set_flags"
  <1> DEFINE flagRows == {i \in 1..Len(rows) : IsFlagRow(rows[i])}
  <1>1. Len(rows) \in Nat \ {0} BY EmptySeq DEF Typed
  <1>2. CASE flagRows = {}
    <2>1. replay_order_first = 1 BY <1>2 DEF replay_order_first
    <2>2. 1 \in 1..Len(rows) BY <1>1
    <2>3. rows[1] \in RowOp BY <2>2, ElementOfSeq DEF Typed
    <2>4. \A j \in 1..Len(rows) : ~(j < 1) OBVIOUS
    <2>. QED BY <2>1, <2>2, <2>3, <2>4
  <1>3. CASE flagRows # {}
    <2>1. PICK i \in flagRows : \A j \in flagRows : i <= j
      <3>1. flagRows \subseteq Nat /\ flagRows # {} BY <1>1, <1>3
      <3> HIDE DEF flagRows
      <3>2. PICK x \in flagRows : \A y \in flagRows : ~(<<y, x>> \in OpToRel(<, Nat))
        BY <3>1, NatLessThanWellFounded, WFMin
      <3>3. \A y \in flagRows : y < x => <<y, x>> \in OpToRel(<, Nat) BY <3>1 DEF OpToRel
      <3>4. \A y \in flagRows : ~(y < x) BY <3>2, <3>3, Zenon
      <3>5. \A y \in flagRows : x <= y BY <3>1, <3>4
      <3>. QED BY <3>5
    <2>2. replay_order_first = CHOOSE x \in flagRows : \A j \in flagRows : x <= j
      BY <1>3 DEF replay_order_first
    <2>3. replay_order_first \in flagRows /\ \A j \in flagRows : replay_order_first <= j BY <2>1, <2>2
    <2>4. replay_order_first \in 1..Len(rows) BY <2>3
    <2>5. rows[replay_order_first] \in RowOp BY <2>4, ElementOfSeq DEF Typed
    <2>6. ASSUME NEW j \in 1..Len(rows), j < replay_order_first PROVE rows[j].op # "set_flags"
      BY <1>1, <2>3, <2>4, <2>6 DEF IsFlagRow
    <2>. QED BY <2>4, <2>5, <2>6
  <1>. QED BY <1>2, <1>3

\* What executing an operation does to the server.
LEMMA SucceedServer ==
    ASSUME server \in Servers, expunged \in SUBSET Refs, NEW op \in Op, Succeed(op)
    PROVE  /\ server' = RunMutations(server, op.mutations) /\ server' \in Servers
           /\ expunged' = expunged \cup op.refs /\ expunged' \in SUBSET Refs
           /\ op.mutations \in Seq(Mutation)
  <1>1. op.mutations \in Seq(Mutation) /\ op.refs \in SUBSET Refs BY DEF Op
  <1>2. RunMutations(server, op.mutations) \in Servers BY <1>1, RunType
  <1>. QED BY <1>1, <1>2 DEF Succeed

\* What a failed one does.
LEMMA FailServer ==
    ASSUME server \in Servers, expunged \in SUBSET Refs, NEW op \in Op, FailPartly(op)
    PROVE  /\ server' \in Servers /\ op.mutations \in Seq(Mutation)
           /\ \A f \in Flags, r \in Refs : Touched(op.mutations, f, r) \/ Alike(server', server, f, r)
           /\ expunged \subseteq expunged' /\ expunged' \subseteq expunged \cup op.refs
           /\ expunged' \in SUBSET Refs
  <1>1. op.mutations \in Seq(Mutation) /\ op.refs \in SUBSET Refs BY DEF Op
  <1>2. CASE op.op = "set_flags" /\ expunged' = expunged
             /\ \E k \in 1..Len(op.mutations) :
                   server' \in set_flags_partly(
                       RunMutations(server, SubSeq(op.mutations, 1, k - 1)), op.mutations[k])
    <2>1. PICK k \in 1..Len(op.mutations) :
             server' \in set_flags_partly(
                       RunMutations(server, SubSeq(op.mutations, 1, k - 1)), op.mutations[k])
      BY <1>2
    <2>2. server' \in Servers
          /\ \A f \in Flags, r \in Refs : Touched(op.mutations, f, r) \/ Alike(server', server, f, r)
      BY <1>1, <2>1, PartlyTouched
    <2>. QED BY <1>1, <1>2, <2>2
  <1>3. CASE op.op = "delete" /\ server' = server
             /\ \E some \in SUBSET op.refs : expunged' = expunged \cup some
    <2>1. PICK some \in SUBSET op.refs : expunged' = expunged \cup some BY <1>3
    <2>2. \A f \in Flags, r \in Refs : Alike(server', server, f, r) BY <1>3 DEF Alike
    <2>. QED BY <1>1, <1>3, <2>1, <2>2
  <1>. QED BY <1>2, <1>3 DEF FailPartly

-----------------------------------------------------------------------------
(* Typed is preserved *)

\* A command appends an operation.
LEMMA CommandTyped ==
    ASSUME Typed, NEW op \in UserOp, NEW flags \in Servers, NEW gone \in SUBSET Refs, Command(op, flags, gone)
    PROVE  Typed' /\ sending' = Append(sending, op) /\ op \in TravelOp /\ op \in Op
  <1>1. op \in TravelOp /\ op \in Op BY OpKinds
  <1>2. Append(sending, op) \in Seq(TravelOp) BY <1>1, AppendProperties DEF Typed
  <1>. QED BY <1>1, <1>2 DEF Typed, Command

\* Each command is one, with the flags it writes to the database.
LEMMA CommandsAre ==
    ASSUME Typed
    PROVE  /\ \A refs \in SUBSET Refs, flags \in FlagSets, add \in BOOLEAN :
                 set_message_flags(refs, flags, add) =>
                    Command(SetFlags(<<Messages(refs, flags, add)>>), Store(local, refs, flags, add), deleted)
                    /\ Store(local, refs, flags, add) \in Servers
           /\ \A folders \in SUBSET Folders :
                 mark_account_read(folders) =>
                    Command(SetFlags(<<AllMessagesInFolders(folders, {}, {"seen"}, TRUE)>>),
                            Store(local, RefsIn(folders), {"seen"}, TRUE), deleted)
                    /\ Store(local, RefsIn(folders), {"seen"}, TRUE) \in Servers
           /\ \A refs \in SUBSET Refs :
                 delete_messages(refs) => Command(DeleteMessages(refs), local, deleted \cup refs)
                                          /\ deleted \cup refs \in SUBSET Refs
  <1>1. local \in Servers /\ deleted \in SUBSET Refs BY DEF Typed
  <1>2. \A folders : RefsIn(folders) \in SUBSET Refs BY DEF RefsIn
  <1>. QED BY <1>1, <1>2, StoreType DEF set_message_flags, mark_account_read, delete_messages

\* The other steps of the front end.
LEMMA SendTyped ==
    ASSUME Typed, NEW i, SendOp(i)
    PROVE  /\ Typed' /\ i \in 1..Len(sending) /\ sending[i] \in TravelOp
           /\ channel' = Append(channel, sending[i]) /\ sending' = RemoveAt(sending, i)
  <1>1. i \in 1..Len(sending) BY DEF SendOp
  <1>2. sending \in Seq(TravelOp) /\ TravelOp \subseteq Op BY OpKinds DEF Typed
  <1>3. RemoveAt(sending, i) \in Seq(TravelOp) /\ sending[i] \in TravelOp
    BY <1>1, <1>2, SplitOps DEF SplitAt
  <1>4. Append(channel, sending[i]) \in Seq(TravelOp) BY <1>3, AppendProperties DEF Typed
  <1>. QED BY <1>1, <1>3, <1>4 DEF Typed, SendOp

\* A replay request travels like an operation.
LEMMA RequestTyped ==
    ASSUME Typed, RequestReplay
    PROVE  Typed'
  <1>1. Append(channel, ReplayOffline) \in Seq(TravelOp) BY CommandOps, AppendProperties DEF Typed
  <1>. QED BY <1>1 DEF Typed, RequestReplay

\* The worker takes what it coalesced.
LEMMA TakeBatchTyped ==
    ASSUME Typed, TakeBatch
    PROVE  /\ Typed' /\ batch = << >> /\ batch' = UserOps(coalesce(channel)) /\ channel' = << >>
           /\ UserOps(coalesce(channel)) \in Seq(UserOp)
  <1>1. channel \in Seq(TravelOp) /\ batch = << >> BY DEF Typed, TakeBatch
  <1>2. UserOps(coalesce(channel)) \in Seq(UserOp) BY <1>1, CoalesceBatch
  <1>3. << >> \in Seq(TravelOp) BY EmptySeq
  <1>4. batch' = UserOps(coalesce(channel)) /\ channel' = << >> BY DEF TakeBatch
  <1>. QED BY <1>1, <1>2, <1>3, <1>4 DEF Typed, TakeBatch

\* The first operation of the batch.
LEMMA HeadTyped ==
    ASSUME Typed, batch # << >>
    PROVE  /\ Head(batch) \in UserOp /\ Head(batch) \in RowOp /\ Head(batch) \in Op /\ Tail(batch) \in Seq(UserOp)
           /\ Append(rows, Head(batch)) \in Seq(RowOp)
           /\ supersede_pending(rows, Head(batch)) \in Seq(RowOp)
           /\ Mutations(batch) = Head(batch).mutations \o Mutations(Tail(batch))
           /\ RefsOf(batch) = Head(batch).refs \cup RefsOf(Tail(batch))
           /\ Head(batch).mutations \in Seq(Mutation) /\ Head(batch).refs \in SUBSET Refs
  <1>1. batch \in Seq(UserOp) /\ UserOp \subseteq Op /\ rows \in Seq(RowOp) BY OpKinds DEF Typed
  <1>2. /\ Head(batch) \in UserOp /\ Tail(batch) \in Seq(UserOp)
        /\ Mutations(batch) = Head(batch).mutations \o Mutations(Tail(batch))
        /\ RefsOf(batch) = Head(batch).refs \cup RefsOf(Tail(batch))
    BY <1>1, HeadOfOps
  <1>3. Head(batch) \in RowOp /\ Head(batch) \in Op BY <1>2, OpKinds
  <1>4. Append(rows, Head(batch)) \in Seq(RowOp) BY <1>1, <1>3, AppendProperties
  <1>5. supersede_pending(rows, Head(batch)) \in Seq(RowOp) BY <1>1, <1>2, SupersedeIs
  <1>6. Head(batch).mutations \in Seq(Mutation) /\ Head(batch).refs \in SUBSET Refs BY <1>3 DEF Op
  <1>. QED BY <1>2, <1>3, <1>4, <1>5, <1>6

\* The preflight rewrites rows or queues the operation.
LEMMA PreflightTyped ==
    ASSUME Typed, Preflight
    PROVE  Typed' /\ batch # << >>
  <1>1. batch # << >> BY DEF Preflight
  <1>. QED BY <1>1, HeadTyped DEF Typed, Preflight

\* Executing an operation.
LEMMA ExecuteTyped ==
    ASSUME Typed, Execute
    PROVE  Typed' /\ batch # << >>
  <1>1. batch # << >> BY DEF Typed, Execute
  <1>2. server' \in Servers /\ expunged' \in SUBSET Refs
    <2>1. server \in Servers /\ expunged \in SUBSET Refs /\ Head(batch) \in Op BY <1>1, HeadTyped DEF Typed
    <2>2. CASE Succeed(Head(batch)) BY <2>1, <2>2, SucceedServer
    <2>3. CASE FailPartly(Head(batch)) BY <2>1, <2>3, FailServer
    <2>. QED BY <2>2, <2>3 DEF Execute
  <1>3. rows' \in Seq(RowOp) BY <1>1, HeadTyped DEF Typed, Execute
  <1>4. batch' \in Seq(UserOp) BY <1>1, HeadTyped DEF Execute
  <1>. QED BY <1>1, <1>2, <1>3, <1>4 DEF Typed, Execute

\* Replaying a row.
LEMMA ReplayRowTyped ==
    ASSUME Typed, ReplayRow
    PROVE  /\ Typed' /\ rows # << >>
           /\ replay_order_first \in 1..Len(rows) /\ rows[replay_order_first] \in RowOp
           /\ rows[replay_order_first] \in Op
  <1>1. rows # << >> BY DEF ReplayRow
  <1> DEFINE i == replay_order_first
  <1>2. i \in 1..Len(rows) /\ rows[i] \in RowOp BY <1>1, ReplayFirst
  <1>3. rows[i] \in Op BY <1>2, OpKinds
  <1>4. \/ Succeed(rows[i]) /\ rows' = RemoveAt(rows, i) /\ pc' = pc
        \/ FailPartly(rows[i]) /\ rows' = rows /\ pc' = "idle"
    BY DEF ReplayRow
  <1> HIDE DEF i
  <1>5. rows \in Seq(RowOp) /\ RowOp \subseteq Op BY OpKinds DEF Typed
  <1>6. RemoveAt(rows, i) \in Seq(RowOp) BY <1>2, <1>5, SplitOps DEF SplitAt
  <1>7. server' \in Servers /\ expunged' \in SUBSET Refs
    <2>1. server \in Servers /\ expunged \in SUBSET Refs BY DEF Typed
    <2>. QED BY <1>3, <1>4, <2>1, SucceedServer, FailServer
  <1>8. rows' \in Seq(RowOp) BY <1>4, <1>5, <1>6
  <1>9. pc' \in {"replay", "idle"} /\ batch = << >> /\ batch' = batch BY <1>4 DEF Typed, ReplayRow
  <1>10. Typed' BY <1>7, <1>8, <1>9 DEF Typed, ReplayRow
  <1>. QED BY <1>1, <1>2, <1>3, <1>10 DEF i

\* The types are an invariant of every step.
LEMMA TypedNext ==
    ASSUME Typed, [Next]_vars
    PROVE  Typed'
  <1>1. ASSUME NEW refs \in SUBSET Refs, NEW flags \in FlagSets, NEW add \in BOOLEAN,
               set_message_flags(refs, flags, add)
        PROVE  Typed'
    <2>1. deleted \in SUBSET Refs BY DEF Typed
    <2>. QED BY <1>1, <2>1, CommandsAre, CommandOps, CommandTyped
  <1>2. ASSUME NEW refs \in SUBSET Refs, delete_messages(refs) PROVE Typed'
    <2>1. local \in Servers BY DEF Typed
    <2>. QED BY <1>2, <2>1, CommandsAre, CommandOps, CommandTyped
  <1>3. ASSUME NEW folders \in SUBSET Folders, mark_account_read(folders) PROVE Typed'
    <2>1. deleted \in SUBSET Refs BY DEF Typed
    <2>. QED BY <1>3, <2>1, CommandsAre, CommandOps, CommandTyped
  <1>4. ASSUME NEW i \in 1..MaxPending, SendOp(i) PROVE Typed' BY <1>4, SendTyped
  <1>5. CASE RequestReplay BY <1>5, RequestTyped
  <1>6. CASE TakeBatch BY <1>6, TakeBatchTyped
  <1>7. CASE Preflight BY <1>7, PreflightTyped
  <1>8. CASE Execute BY <1>8, ExecuteTyped
  <1>9. CASE EndBatch BY <1>9 DEF EndBatch, Typed
  <1>10. CASE ReplayRow BY <1>10, ReplayRowTyped
  <1>11. CASE ReplayDone BY <1>11 DEF ReplayDone, Typed
  <1>12. CASE UNCHANGED vars BY <1>12 DEF vars, Typed
  <1>. QED BY <1>1, <1>2, <1>3, <1>4, <1>5, <1>6, <1>7, <1>8, <1>9, <1>10, <1>11, <1>12 DEF Next

\* They hold at the start.
LEMMA TypedInit ==
    ASSUME Init
    PROVE  Typed
  <1>1. << >> \in Seq(TravelOp) /\ << >> \in Seq(UserOp) /\ << >> \in Seq(RowOp) BY EmptySeq
  <1>2. server \in Servers /\ local \in Servers BY DEF Init, Servers
  <1>. QED BY <1>1, <1>2 DEF Init, Typed

\* The queue is well formed: flag operations carry one mutation, rows carry
\* mutations and deletes only, and the worker's batch is empty while it waits.
THEOREM QueueTyped == Spec => []Typed
  <1>1. Init => Typed BY TypedInit
  <1>2. Typed /\ [Next]_vars => Typed' BY TypedNext
  <1>. QED BY <1>1, <1>2, PTL DEF Spec

\* Every row can be read back by outbox_to_mail_op: rewriting the folders and
\* the exclusions of a queued bulk read, and coalescing, never make a row that
\* goes dead unexecuted. For any number of commands, failures and flags.
THEOREM RowsAreReadBack == Spec => []RowsReadBack
  <1>1. Typed => RowsReadBack
    <2> SUFFICES ASSUME Typed PROVE RowsReadBack OBVIOUS
    <2>1. rows \in Seq(Op) BY OpKinds DEF Typed
    <2>2. Mutations(rows) \in Seq(Mutation) BY <2>1, MutationsType
    <2>3. Range(Mutations(rows)) \in SUBSET Mutation BY <2>2, RangeOfSeq
    <2>. QED BY <2>3 DEF RowsReadBack, Mutation
  <1>. QED BY <1>1, QueueTyped, PTL

-----------------------------------------------------------------------------
(* Deletes *)

\* The lists of a typed state.
LEMMA TypedLists ==
    ASSUME Typed
    PROVE  /\ rows \in Seq(Op) /\ batch \in Seq(Op) /\ channel \in Seq(Op) /\ sending \in Seq(Op)
           /\ rows \o batch \in Seq(Op) /\ (rows \o batch) \o channel \in Seq(Op)
  <1>1. rows \in Seq(Op) /\ batch \in Seq(Op) /\ channel \in Seq(Op) /\ sending \in Seq(Op)
    BY OpKinds DEF Typed
  <1>2. rows \o batch \in Seq(Op) BY <1>1, ConcatProperties
  <1>3. (rows \o batch) \o channel \in Seq(Op) BY <1>1, <1>2, ConcatProperties
  <1>. QED BY <1>1, <1>2, <1>3

\* DeletesPreserved, list by list.
LEMMA DeletesAre ==
    ASSUME Typed
    PROVE  DeletesPreserved <=> DeletesKept
  <1> DEFINE a == rows \o batch
             b == a \o channel
  <1>1. /\ rows \in Seq(Op) /\ batch \in Seq(Op) /\ channel \in Seq(Op) /\ sending \in Seq(Op)
        /\ a \in Seq(Op) /\ b \in Seq(Op)
    BY TypedLists
  <1>2. RefsOf(a) = RefsOf(rows) \cup RefsOf(batch) BY <1>1, RefsOfOps
  <1> HIDE DEF a
  <1>3. RefsOf(b) = RefsOf(a) \cup RefsOf(channel) BY <1>1, RefsOfOps
  <1> HIDE DEF b
  <1>4. RefsOf(b \o sending) = RefsOf(b) \cup RefsOf(sending) BY <1>1, RefsOfOps
  <1>5. RefsOf(b \o sending) = DeletesUnderWay BY <1>2, <1>3, <1>4 DEF DeletesUnderWay
  <1>6. DeletesPreserved <=> expunged \subseteq deleted /\ deleted = expunged \cup RefsOf(b \o sending)
    BY DEF DeletesPreserved, RefsOf, a, b
  <1>. QED BY <1>5, <1>6 DEF DeletesKept

\* Taking one operation out of a list.
LEMMA SplitRefs ==
    ASSUME NEW S, S \subseteq Op, NEW ops \in Seq(S), NEW i \in 1..Len(ops)
    PROVE  RefsOf(ops) = RefsOf(RemoveAt(ops, i)) \cup ops[i].refs
  <1>1. SplitAt(S, ops, i) BY SplitOps
  <1>. QED BY ONLY <1>1, Zenon DEF SplitAt

\* A command adds its delete.
LEMMA CommandDeletes ==
    ASSUME Typed, DeletesKept, NEW op \in UserOp, NEW flags \in Servers,
           Command(op, flags, deleted \cup op.refs), op.refs \in SUBSET Refs
    PROVE  DeletesKept'
  <1>1. deleted \cup op.refs \in SUBSET Refs BY DEF Typed
  <1>2. sending' = Append(sending, op) /\ op \in Op BY <1>1, CommandTyped
  <1>3. RefsOf(sending') = RefsOf(sending) \cup op.refs BY <1>2, TypedLists, RefsOfOps
  <1>. QED BY <1>3 DEF DeletesKept, DeletesUnderWay, Command

\* Every step keeps the deletes: a row that is superseded loses none, a failed
\* delete is queued, a successful one has expunged its messages.
LEMMA DeletesNext ==
    ASSUME Typed, DeletesKept, [Next]_vars
    PROVE  DeletesKept'
  <1>0. /\ rows \in Seq(Op) /\ batch \in Seq(Op) /\ channel \in Seq(Op) /\ sending \in Seq(Op)
        /\ deleted \in SUBSET Refs /\ local \in Servers
        /\ sending \in Seq(TravelOp) /\ rows \in Seq(RowOp) /\ TravelOp \subseteq Op /\ RowOp \subseteq Op
    BY TypedLists, OpKinds DEF Typed
  <1>1. ASSUME NEW refs \in SUBSET Refs, NEW flags \in FlagSets, NEW add \in BOOLEAN,
               set_message_flags(refs, flags, add)
        PROVE  DeletesKept'
    <2> DEFINE op == SetFlags(<<Messages(refs, flags, add)>>)
    <2>1. op \in UserOp /\ op.refs = {} BY CommandOps DEF SetFlags
    <2>2. Command(op, Store(local, refs, flags, add), deleted) /\ Store(local, refs, flags, add) \in Servers
      BY <1>1, CommandsAre
    <2> HIDE DEF op
    <2>3. deleted = deleted \cup op.refs /\ op.refs \in SUBSET Refs BY <2>1
    <2>. QED BY <2>1, <2>2, <2>3, CommandDeletes
  <1>2. ASSUME NEW refs \in SUBSET Refs, delete_messages(refs) PROVE DeletesKept'
    <2> DEFINE op == DeleteMessages(refs)
    <2>1. op \in UserOp /\ op.refs = refs BY CommandOps DEF DeleteMessages
    <2>2. Command(op, local, deleted \cup refs) BY <1>2, CommandsAre
    <2> HIDE DEF op
    <2>. QED BY <1>0, <2>1, <2>2, CommandDeletes
  <1>3. ASSUME NEW folders \in SUBSET Folders, mark_account_read(folders) PROVE DeletesKept'
    <2> DEFINE op == SetFlags(<<AllMessagesInFolders(folders, {}, {"seen"}, TRUE)>>)
               flags == Store(local, RefsIn(folders), {"seen"}, TRUE)
    <2>1. op \in UserOp /\ op.refs = {} BY CommandOps DEF SetFlags
    <2>2. Command(op, flags, deleted) /\ flags \in Servers BY <1>3, CommandsAre
    <2> HIDE DEF op, flags
    <2>3. deleted = deleted \cup op.refs /\ op.refs \in SUBSET Refs BY <2>1
    <2>. QED BY <2>1, <2>2, <2>3, CommandDeletes
  <1>4. ASSUME NEW i \in 1..MaxPending, SendOp(i) PROVE DeletesKept'
    <2>1. /\ i \in 1..Len(sending) /\ sending[i] \in TravelOp
          /\ channel' = Append(channel, sending[i]) /\ sending' = RemoveAt(sending, i)
      BY <1>4, SendTyped
    <2>2. sending[i] \in Op BY <2>1, OpKinds
    <2>3. RefsOf(sending) = RefsOf(RemoveAt(sending, i)) \cup sending[i].refs BY <1>0, <2>1, SplitRefs
    <2>4. RefsOf(Append(channel, sending[i])) = RefsOf(channel) \cup sending[i].refs BY <1>0, <2>2, RefsOfOps
    <2>5. rows' = rows /\ batch' = batch /\ expunged' = expunged /\ deleted' = deleted BY <1>4 DEF SendOp
    <2>6. DeletesUnderWay' = DeletesUnderWay BY <2>1, <2>3, <2>4, <2>5 DEF DeletesUnderWay
    <2>. QED BY <2>5, <2>6 DEF DeletesKept
  <1>5. CASE RequestReplay
    <2>0. ReplayOffline \in Op BY CommandOps, OpKinds
    <2>1. ReplayOffline \in Op /\ ReplayOffline.refs = {} BY <2>0 DEF ReplayOffline
    <2>2. RefsOf(Append(channel, ReplayOffline)) = RefsOf(channel)
      <3>1. RefsOf(Append(channel, ReplayOffline)) = RefsOf(channel) \cup ReplayOffline.refs
        BY <1>0, <2>0, RefsOfOps
      <3>. QED BY <2>1, <3>1
    <2>. QED BY <1>5, <2>2 DEF RequestReplay, DeletesKept, DeletesUnderWay
  <1>6. CASE TakeBatch
    <2>1. batch = << >> /\ batch' = UserOps(coalesce(channel)) /\ channel' = << >> BY <1>6, TakeBatchTyped
    <2>2. RefsOf(UserOps(coalesce(channel))) = RefsOf(channel) BY CoalesceBatch DEF Typed
    <2>3. RefsOf(<< >>) = {} BY RefsOfOps
    <2>4. rows' = rows /\ sending' = sending /\ expunged' = expunged /\ deleted' = deleted BY <1>6 DEF TakeBatch
    <2>5. DeletesUnderWay' = DeletesUnderWay BY <2>1, <2>2, <2>3, <2>4 DEF DeletesUnderWay
    <2>. QED BY <2>4, <2>5 DEF DeletesKept
  <1>7. CASE Preflight
    <2>1. batch # << >> BY <1>7, PreflightTyped
    <2>2. Head(batch) \in UserOp /\ Head(batch) \in Op /\ RefsOf(batch) = Head(batch).refs \cup RefsOf(Tail(batch))
      BY <2>1, HeadTyped
    <2>3. channel' = channel /\ sending' = sending /\ expunged' = expunged /\ deleted' = deleted
      BY <1>7 DEF Preflight
    <2>4. RefsOf(rows') \cup RefsOf(batch') = RefsOf(rows) \cup RefsOf(batch)
      <3>1. CASE rows' = supersede_pending(rows, Head(batch)) /\ batch' = batch
        <4>1. RefsOf(supersede_pending(rows, Head(batch))) = RefsOf(rows) BY <2>2, SupersedeIs DEF Typed
        <4>. QED BY <3>1, <4>1
      <3>2. CASE rows' = Append(rows, Head(batch)) /\ batch' = Tail(batch)
        <4>1. RefsOf(Append(rows, Head(batch))) = RefsOf(rows) \cup Head(batch).refs BY <1>0, <2>2, RefsOfOps
        <4>. QED BY <2>2, <3>2, <4>1
      <3>. QED BY <1>7, <3>1, <3>2 DEF Preflight
    <2>. QED BY <2>3, <2>4 DEF DeletesKept, DeletesUnderWay
  <1>8. CASE Execute
    <2>1. batch # << >> BY <1>8, ExecuteTyped
    <2>2. Head(batch) \in Op /\ RefsOf(batch) = Head(batch).refs \cup RefsOf(Tail(batch)) BY <2>1, HeadTyped
    <2>3. /\ channel' = channel /\ sending' = sending /\ deleted' = deleted /\ batch' = Tail(batch)
          /\ server \in Servers /\ expunged \in SUBSET Refs
      BY <1>8 DEF Execute, Typed
    <2>4. CASE Succeed(Head(batch)) /\ rows' = rows
      <3>1. expunged' = expunged \cup Head(batch).refs BY <2>2, <2>3, <2>4, SucceedServer
      <3>. QED BY <2>2, <2>3, <2>4, <3>1 DEF DeletesKept, DeletesUnderWay
    <2>5. CASE FailPartly(Head(batch)) /\ rows' = Append(rows, Head(batch))
      <3>1. expunged \subseteq expunged' /\ expunged' \subseteq expunged \cup Head(batch).refs
        BY <2>2, <2>3, <2>5, FailServer
      <3>2. RefsOf(rows') = RefsOf(rows) \cup Head(batch).refs BY <1>0, <2>2, <2>5, RefsOfOps
      <3>. QED BY <2>2, <2>3, <3>1, <3>2 DEF DeletesKept, DeletesUnderWay
    <2>. QED BY <1>8, <2>4, <2>5 DEF Execute
  <1>9. CASE EndBatch BY <1>9 DEF EndBatch, DeletesKept, DeletesUnderWay
  <1>10. CASE ReplayRow
    <2> DEFINE i == replay_order_first
               row == rows[i]
    <2>1. i \in 1..Len(rows) /\ row \in Op BY <1>10, ReplayRowTyped
    <2>2. RefsOf(rows) = RefsOf(RemoveAt(rows, i)) \cup row.refs
      <3> HIDE DEF i
      <3>. QED BY <1>0, <2>1, SplitRefs
    <2>3. /\ channel' = channel /\ sending' = sending /\ deleted' = deleted /\ batch' = batch
          /\ server \in Servers /\ expunged \in SUBSET Refs
      BY <1>10 DEF ReplayRow, Typed
    <2>4. \/ Succeed(row) /\ rows' = RemoveAt(rows, i)
          \/ FailPartly(row) /\ rows' = rows
      BY <1>10 DEF ReplayRow
    <2> HIDE DEF i, row
    <2>5. CASE Succeed(row) /\ rows' = RemoveAt(rows, i)
      <3>1. expunged' = expunged \cup row.refs BY <2>1, <2>3, <2>5, SucceedServer
      <3>. QED BY <2>2, <2>3, <2>5, <3>1 DEF DeletesKept, DeletesUnderWay
    <2>6. CASE FailPartly(row) /\ rows' = rows
      <3>1. expunged \subseteq expunged' /\ expunged' \subseteq expunged \cup row.refs
        BY <2>1, <2>3, <2>6, FailServer
      <3>. QED BY <2>2, <2>3, <2>6, <3>1 DEF DeletesKept, DeletesUnderWay
    <2>. QED BY <2>4, <2>5, <2>6
  <1>11. CASE ReplayDone BY <1>11 DEF ReplayDone, DeletesKept, DeletesUnderWay
  <1>12. CASE UNCHANGED vars BY <1>12 DEF vars, DeletesKept, DeletesUnderWay
  <1>. QED BY <1>1, <1>2, <1>3, <1>4, <1>5, <1>6, <1>7, <1>8, <1>9, <1>10, <1>11, <1>12 DEF Next

\* No delete is forgotten and none is invented: whatever fails, is partly
\* expunged, coalesced or queued, and in whichever order concurrent commands
\* reach the worker.
THEOREM DeletesArePreserved == Spec => []DeletesPreserved
  <1>1. Init => DeletesKept
    <2> SUFFICES ASSUME Init PROVE DeletesKept OBVIOUS
    <2>1. RefsOf(<< >>) = {} BY RefsOfOps
    <2>. QED BY <2>1 DEF Init, DeletesKept, DeletesUnderWay
  <1>2. Typed /\ DeletesKept /\ [Next]_vars => DeletesKept' BY DeletesNext
  <1>3. Typed => (DeletesPreserved <=> DeletesKept) BY DeletesAre
  <1>. QED BY <1>1, <1>2, <1>3, QueueTyped, PTL DEF Spec

-----------------------------------------------------------------------------
(* Flags *)

\* Running what follows a point of the queue.
Later(s, b, c, d) == RunMutations(RunMutations(RunMutations(s, b), c), d)

\* It depends, flag by flag, on where it starts.
LEMMA LaterAlike ==
    ASSUME NEW s \in Servers, NEW t \in Servers, NEW f \in Flags, NEW r \in Refs, Alike(s, t, f, r),
           NEW b \in Seq(Mutation), NEW c \in Seq(Mutation), NEW d \in Seq(Mutation)
    PROVE  Alike(Later(s, b, c, d), Later(t, b, c, d), f, r)
  <1> DEFINE s1 == RunMutations(s, b)
             t1 == RunMutations(t, b)
             s2 == RunMutations(s1, c)
             t2 == RunMutations(t1, c)
  <1>1. s1 \in Servers /\ t1 \in Servers /\ Alike(s1, t1, f, r) BY RunType, RunLocal
  <1> HIDE DEF s1, t1
  <1>2. s2 \in Servers /\ t2 \in Servers /\ Alike(s2, t2, f, r) BY <1>1, RunType, RunLocal
  <1> HIDE DEF s2, t2
  <1>3. Alike(RunMutations(s2, d), RunMutations(t2, d), f, r) BY <1>2, RunLocal
  <1>. QED BY <1>3 DEF Later, s1, t1, s2, t2

\* The first operation of a batch, run before the rest.
LEMMA LaterHead ==
    ASSUME NEW s \in Servers, NEW a \in Seq(Mutation), NEW b \in Seq(Mutation), NEW c, NEW d
    PROVE  Later(s, a \o b, c, d) = Later(RunMutations(s, a), b, c, d)
  <1>1. RunMutations(s, a \o b) = RunMutations(RunMutations(s, a), b) BY RunConcat
  <1>. QED BY ONLY <1>1, Zenon DEF Later

\* The mutations of a typed state.
LEMMA TypedMutations ==
    ASSUME Typed
    PROVE  /\ Mutations(rows) \in Seq(Mutation) /\ Mutations(batch) \in Seq(Mutation)
           /\ Mutations(channel) \in Seq(Mutation) /\ Mutations(sending) \in Seq(Mutation)
           /\ server \in Servers /\ RunMutations(server, Mutations(rows)) \in Servers
           /\ FinalFlags = Later(RunMutations(server, Mutations(rows)), Mutations(batch),
                                 Mutations(channel), Mutations(sending))
           /\ FinalFlags \in Servers
  <1>1. /\ Mutations(rows) \in Seq(Mutation) /\ Mutations(batch) \in Seq(Mutation)
        /\ Mutations(channel) \in Seq(Mutation) /\ Mutations(sending) \in Seq(Mutation)
    BY TypedLists, MutationsType
  <1>2. server \in Servers BY DEF Typed
  <1>3. RunMutations(server, Mutations(rows)) \in Servers BY <1>1, <1>2, RunType
  <1>4. FinalFlags = Later(RunMutations(server, Mutations(rows)), Mutations(batch),
                           Mutations(channel), Mutations(sending))
    BY DEF FinalFlags, Later
  <1>5. FinalFlags \in Servers
    <2> DEFINE s0 == RunMutations(server, Mutations(rows))
               s1 == RunMutations(s0, Mutations(batch))
               s2 == RunMutations(s1, Mutations(channel))
    <2>0. s0 \in Servers BY <1>3
    <2> HIDE DEF s0
    <2>1. s1 \in Servers BY <1>1, <2>0, RunType
    <2> HIDE DEF s1
    <2>2. s2 \in Servers BY <1>1, <2>1, RunType
    <2> HIDE DEF s2
    <2>3. RunMutations(s2, Mutations(sending)) \in Servers BY <1>1, <2>2, RunType
    <2>. QED BY <2>3 DEF FinalFlags, s0, s1, s2
  <1>. QED BY <1>1, <1>2, <1>3, <1>4, <1>5

\* IntentPreserved, list by list and flag by flag.
LEMMA IntentIs ==
    ASSUME Typed
    PROVE  IntentPreserved <=> IntentKept
  <1> DEFINE q1 == rows \o batch
             q2 == q1 \o channel
             s0 == RunMutations(server, Mutations(rows))
             s1 == RunMutations(s0, Mutations(batch))
             s2 == RunMutations(s1, Mutations(channel))
             all == Mutations(q2 \o sending)
  <1>1. /\ rows \in Seq(Op) /\ batch \in Seq(Op) /\ channel \in Seq(Op) /\ sending \in Seq(Op)
        /\ q1 \in Seq(Op) /\ q2 \in Seq(Op)
    BY TypedLists
  <1>2. Mutations(q1) = Mutations(rows) \o Mutations(batch) BY <1>1, MutationsConcat
  <1>3. Mutations(q2) = Mutations(q1) \o Mutations(channel)
    <2> HIDE DEF q1
    <2>. QED BY <1>1, MutationsConcat
  <1>4. all = Mutations(q2) \o Mutations(sending)
    <2> HIDE DEF q2
    <2>. QED BY <1>1, MutationsConcat
  <1>5. /\ Mutations(rows) \in Seq(Mutation) /\ Mutations(batch) \in Seq(Mutation)
        /\ Mutations(channel) \in Seq(Mutation) /\ Mutations(sending) \in Seq(Mutation)
        /\ server \in Servers /\ s0 \in Servers /\ FinalFlags \in Servers
    BY TypedMutations
  <1>6. Mutations(q1) \in Seq(Mutation) /\ Mutations(q2) \in Seq(Mutation) BY <1>1, MutationsType
  <1>7. FinalFlags = RunMutations(s2, Mutations(sending)) BY DEF FinalFlags
  <1> HIDE DEF q1, q2, s0, s1, s2
  <1>8. RunMutations(server, Mutations(q1)) = s1
    <2>1. RunMutations(server, Mutations(rows) \o Mutations(batch)) = RunMutations(s0, Mutations(batch))
      BY <1>5, RunConcat DEF s0
    <2>. QED BY ONLY <1>2, <2>1, Zenon DEF s1
  <1>9. RunMutations(server, Mutations(q2)) = s2
    <2>1. RunMutations(server, Mutations(q1) \o Mutations(channel))
            = RunMutations(RunMutations(server, Mutations(q1)), Mutations(channel))
      BY <1>5, <1>6, RunConcat
    <2>. QED BY ONLY <1>3, <1>8, <2>1, Zenon DEF s2
  <1>10. RunMutations(server, all) = FinalFlags
    <2>1. RunMutations(server, Mutations(q2) \o Mutations(sending))
            = RunMutations(RunMutations(server, Mutations(q2)), Mutations(sending))
      BY <1>5, <1>6, RunConcat
    <2>. QED BY ONLY <1>4, <1>7, <1>9, <2>1, Zenon
  <1>11. IntentPreserved <=> \A f \in Flags : FinalFlags[f] \ deleted = local[f] \ deleted
    <2>1. IntentPreserved <=> \A f \in Flags : RunMutations(server, all)[f] \ deleted = local[f] \ deleted
      BY DEF IntentPreserved, q1, q2
    <2> HIDE DEF all
    <2>. QED BY <1>10, <2>1
  <1>12. \A f \in Flags : FinalFlags[f] \in SUBSET Refs /\ local[f] \in SUBSET Refs
    BY <1>5 DEF Servers, Typed
  <1>. QED BY <1>11, <1>12 DEF IntentKept, Alike

\* A step that leaves the database alone keeps the intent if it keeps the outcome.
LEMMA IntentFrom ==
    ASSUME IntentKept, local' = local, deleted' = deleted,
           \A f \in Flags, r \in Refs \ deleted : Alike(FinalFlags', FinalFlags, f, r)
    PROVE  IntentKept'
  BY DEF IntentKept, Alike

\* Rewriting the rows before an operation runs does not change the outcome.
LEMMA SupersedeAlike ==
    ASSUME OneFlag, NEW op \in UserOp, NEW s \in Servers, NEW ms \in Seq(Mutation),
           NEW f \in Flags, NEW r \in Refs, r \notin op.refs
    PROVE  Alike(RunMutations(RunMutations(s, FlatOf(EffectOf(op), ms)), op.mutations),
                 RunMutations(RunMutations(s, ms), op.mutations), f, r)
  <1> DEFINE left == FlatOf(EffectOf(op), ms)
             u == RunMutations(s, left)
             v == RunMutations(s, ms)
  <1>0. op \in Op /\ op.mutations \in Seq(Mutation) /\ op.refs \in SUBSET Refs BY OpKinds DEF Op
  <1>1. EffectOf(op) \in [Mutation -> Seq(Mutation)] BY EffectOfType
  <1>2. left \in Seq(Mutation) BY <1>1, FlatOfType
  <1>3. u \in Servers /\ v \in Servers
    <2> HIDE DEF left
    <2>. QED BY <1>2, RunType
  <1>4. ASSUME ActsAlike(EffectOf(op), f, r)
        PROVE  Alike(RunMutations(u, op.mutations), RunMutations(v, op.mutations), f, r)
    <2>1. Alike(u, v, f, r) BY <1>1, <1>4, FlatOfActs
    <2> HIDE DEF u, v
    <2>. QED BY <1>0, <1>3, <2>1, RunLocal
  <1>5. CASE op.op = "set_flags"
    <2>1. PICK n \in FreshMutation : op.mutations = <<n>> BY <1>5 DEF UserOp, TravelOp
    <2>2. EffectOf(op) = LeftOf(n) BY <1>5, <2>1 DEF EffectOf
    <2>3. n \in Mutation BY DEF FreshMutation
    <2>4. CASE Covers(n, f, r)
      <3> HIDE DEF u, v
      <3>1. RunMutations(u, <<n>>) = set_flags(u, n) /\ RunMutations(v, <<n>>) = set_flags(v, n)
        BY <1>3, <2>3, RunOne
      <3>2. Alike(set_flags(u, n), set_flags(v, n), f, r) BY <1>3, <2>3, <2>4, SetFlagsAt DEF Alike
      <3>3. Alike(RunMutations(u, op.mutations), RunMutations(v, op.mutations), f, r) BY <2>1, <3>1, <3>2
      <3>. QED BY <3>3 DEF u, v
    <2>5. CASE ~Covers(n, f, r)
      <3>1. ActsAlike(LeftOf(n), f, r) BY <2>5, LeftOfActs
      <3>2. ActsAlike(EffectOf(op), f, r) BY <2>2, <3>1
      <3>. QED BY <1>4, <3>2
    <2>. QED BY <2>4, <2>5
  <1>6. CASE op.op # "set_flags"
    <2>1. EffectOf(op) = KeptOf(op.refs) BY <1>6 DEF EffectOf
    <2>2. ActsAlike(KeptOf(op.refs), f, r) BY <1>0, KeptOfActs
    <2>3. ActsAlike(EffectOf(op), f, r) BY <2>1, <2>2
    <2>. QED BY <1>4, <2>3
  <1>. QED BY <1>5, <1>6

\* Once the rows agree with an operation, it may run before them.
LEMMA ExecuteFirst ==
    ASSUME NEW op \in UserOp, NEW s \in Servers, NEW ms \in Seq(Mutation),
           \A n \in FreshMutation : op.mutations = <<n>> => ms \in Seq(AgreesWith(n)),
           NEW f \in Flags, NEW r \in Refs
    PROVE  Alike(RunMutations(RunMutations(s, op.mutations), ms),
                 RunMutations(RunMutations(s, ms), op.mutations), f, r)
  <1> DEFINE v == RunMutations(s, ms)
  <1>1. v \in Servers BY RunType
  <1>2. CASE op.op = "set_flags"
    <2>1. PICK n \in FreshMutation : op.mutations = <<n>> BY <1>2 DEF UserOp, TravelOp
    <2>2. n \in Mutation BY DEF FreshMutation
    <2> DEFINE u == set_flags(s, n)
    <2>3. ms \in Seq(AgreesWith(n)) BY <2>1
    <2>4. u \in Servers /\ (r \in u[f] <=> IF Covers(n, f, r) THEN Value(n, r) ELSE r \in s[f])
      BY <2>2, SetFlagsType, SetFlagsAt
    <2>5. RunMutations(s, <<n>>) = u BY <2>2, RunOne
    <2> HIDE DEF u
    <2>6. Alike(RunMutations(u, ms), set_flags(v, n), f, r)
      <3>1. r \in set_flags(v, n)[f] <=> IF Covers(n, f, r) THEN Value(n, r) ELSE r \in v[f]
        <4> HIDE DEF v
        <4>. QED BY <1>1, <2>2, SetFlagsAt
      <3>2. CASE Covers(n, f, r)
        <4>1. r \in RunMutations(u, ms)[f] <=> Value(n, r) BY <2>3, <2>4, <3>2, AgreeRun
        <4>. QED BY <3>1, <3>2, <4>1 DEF Alike
      <3>3. CASE ~Covers(n, f, r)
        <4>1. Alike(u, s, f, r) BY <2>4, <3>3 DEF Alike
        <4>2. Alike(RunMutations(u, ms), RunMutations(s, ms), f, r) BY <2>4, <4>1, RunLocal
        <4>. QED BY <3>1, <3>3, <4>2 DEF Alike
      <3>. QED BY <3>2, <3>3
    <2> HIDE DEF v
    <2>7. RunMutations(v, <<n>>) = set_flags(v, n) BY <1>1, <2>2, RunOne
    <2>. QED BY <2>1, <2>5, <2>6, <2>7 DEF v
  <1>3. CASE op.op # "set_flags"
    <2>1. op.mutations = << >> BY <1>3, OpKinds DEF Op
    <2>2. RunMutations(s, << >>) = s BY RunEmpty
    <2> HIDE DEF v
    <2>3. RunMutations(v, << >>) = v BY <1>1, RunEmpty
    <2>. QED BY <2>1, <2>2, <2>3 DEF v, Alike
  <1>. QED BY <1>2, <1>3

\* A command changes the database as its mutation will change the server.
LEMMA CommandIntent ==
    ASSUME Typed, IntentKept, NEW op \in UserOp, NEW flags \in Servers, NEW gone \in SUBSET Refs,
           deleted \subseteq gone, Command(op, flags, gone),
           \A f \in Flags, r \in Refs, s \in Servers :
              Alike(s, local, f, r) => Alike(RunMutations(s, op.mutations), flags, f, r)
    PROVE  IntentKept'
  <1>1. sending' = Append(sending, op) /\ op \in Op BY CommandTyped
  <1>2. /\ rows' = rows /\ batch' = batch /\ channel' = channel /\ server' = server
        /\ local' = flags /\ deleted' = gone
    BY DEF Command
  <1>3. Mutations(Append(sending, op)) = Mutations(sending) \o op.mutations /\ op.mutations \in Seq(Mutation)
    BY <1>1, TypedLists, MutationsAppend
  <1> DEFINE s0 == RunMutations(server, Mutations(rows))
             s1 == RunMutations(s0, Mutations(batch))
             s2 == RunMutations(s1, Mutations(channel))
  <1>4. /\ Mutations(batch) \in Seq(Mutation) /\ Mutations(channel) \in Seq(Mutation)
        /\ Mutations(sending) \in Seq(Mutation) /\ s0 \in Servers /\ FinalFlags \in Servers
    BY TypedMutations
  <1>5. FinalFlags = RunMutations(s2, Mutations(sending)) BY DEF FinalFlags
  <1>6. FinalFlags' = RunMutations(s2, Mutations(Append(sending, op))) BY <1>1, <1>2 DEF FinalFlags
  <1> HIDE DEF s0
  <1>7. s1 \in Servers BY <1>4, RunType
  <1> HIDE DEF s1
  <1>8. s2 \in Servers BY <1>4, <1>7, RunType
  <1> HIDE DEF s2
  <1>9. RunMutations(s2, Mutations(sending) \o op.mutations)
          = RunMutations(RunMutations(s2, Mutations(sending)), op.mutations)
    BY <1>3, <1>4, <1>8, RunConcat
  <1>10. FinalFlags' = RunMutations(FinalFlags, op.mutations)
    BY ONLY <1>3, <1>5, <1>6, <1>9, Zenon
  <1>11. \A f \in Flags, r \in Refs \ gone : Alike(FinalFlags', flags, f, r)
    BY <1>4, <1>10 DEF IntentKept
  <1>. QED BY <1>2, <1>11 DEF IntentKept

\* set_message_flags.
LEMMA SetFlagsIntent ==
    ASSUME Typed, IntentKept, NEW refs \in SUBSET Refs, NEW flags \in FlagSets, NEW add \in BOOLEAN,
           set_message_flags(refs, flags, add)
    PROVE  IntentKept'
  <1> DEFINE n == Messages(refs, flags, add)
             op == SetFlags(<<n>>)
             db == Store(local, refs, flags, add)
  <1>1. n \in FreshMutation /\ op \in UserOp BY CommandOps
  <1>2. Command(op, db, deleted) /\ db \in Servers BY CommandsAre
  <1>3. op.mutations = <<n>> BY DEF SetFlags
  <1>4. ~n.bulk /\ n.refs = refs /\ n.flags = flags /\ n.add = add BY DEF Messages
  <1>5. \A f \in Flags : db[f] = IF f \notin flags THEN local[f]
                                 ELSE IF add THEN local[f] \cup refs ELSE local[f] \ refs
    BY DEF Store
  <1> HIDE DEF n, op, db
  <1>6. n \in Mutation BY <1>1 DEF FreshMutation
  <1>7. ASSUME NEW f \in Flags, NEW r \in Refs, NEW s \in Servers, Alike(s, local, f, r)
        PROVE  Alike(RunMutations(s, op.mutations), db, f, r)
    <2>1. RunMutations(s, op.mutations) = set_flags(s, n) BY <1>3, <1>6, RunOne
    <2>2. r \in set_flags(s, n)[f] <=> IF Covers(n, f, r) THEN Value(n, r) ELSE r \in s[f]
      BY <1>6, SetFlagsAt
    <2>3. (Covers(n, f, r) <=> f \in flags /\ r \in refs) /\ (Value(n, r) <=> add) BY <1>4 DEF Covers, Value
    <2>4. r \in set_flags(s, n)[f] <=> r \in db[f] BY <1>5, <1>7, <2>2, <2>3 DEF Alike
    <2>. QED BY <2>1, <2>4 DEF Alike
  <1>8. deleted \in SUBSET Refs BY DEF Typed
  <1>. QED BY <1>1, <1>2, <1>7, <1>8, CommandIntent

\* mark_account_read.
LEMMA MarkReadIntent ==
    ASSUME Typed, IntentKept, NEW folders \in SUBSET Folders, mark_account_read(folders)
    PROVE  IntentKept'
  <1> DEFINE n == AllMessagesInFolders(folders, {}, {"seen"}, TRUE)
             op == SetFlags(<<n>>)
             db == Store(local, RefsIn(folders), {"seen"}, TRUE)
  <1>1. n \in FreshMutation /\ op \in UserOp BY CommandOps
  <1>2. Command(op, db, deleted) /\ db \in Servers BY CommandsAre
  <1>3. op.mutations = <<n>> BY DEF SetFlags
  <1>4. n.bulk /\ n.refs = {} /\ n.folders = folders BY DEF AllMessagesInFolders
  <1>5. \A f \in Flags : db[f] = IF f = "seen" THEN local[f] \cup RefsIn(folders) ELSE local[f] BY DEF Store
  <1> HIDE DEF n, op, db
  <1>6. n \in Mutation BY <1>1 DEF FreshMutation
  <1>7. ASSUME NEW f \in Flags, NEW r \in Refs, NEW s \in Servers, Alike(s, local, f, r)
        PROVE  Alike(RunMutations(s, op.mutations), db, f, r)
    <2>1. RunMutations(s, op.mutations) = set_flags(s, n) BY <1>3, <1>6, RunOne
    <2>2. r \in set_flags(s, n)[f] <=> IF Covers(n, f, r) THEN Value(n, r) ELSE r \in s[f]
      BY <1>6, SetFlagsAt
    <2>3. (Covers(n, f, r) <=> f = "seen" /\ r \in RefsIn(folders)) /\ Value(n, r) BY <1>4 DEF Covers, Value
    <2>4. r \in set_flags(s, n)[f] <=> r \in db[f] BY <1>5, <1>7, <2>2, <2>3 DEF Alike
    <2>. QED BY <2>1, <2>4 DEF Alike
  <1>8. deleted \in SUBSET Refs BY DEF Typed
  <1>. QED BY <1>1, <1>2, <1>7, <1>8, CommandIntent

\* delete_messages.
LEMMA DeleteIntent ==
    ASSUME Typed, IntentKept, NEW refs \in SUBSET Refs, delete_messages(refs)
    PROVE  IntentKept'
  <1> DEFINE op == DeleteMessages(refs)
  <1>1. op \in UserOp BY CommandOps
  <1>2. Command(op, local, deleted \cup refs) /\ deleted \cup refs \in SUBSET Refs BY CommandsAre
  <1>3. op.mutations = << >> BY DEF DeleteMessages
  <1> HIDE DEF op
  <1>4. \A f \in Flags, r \in Refs, s \in Servers :
           Alike(s, local, f, r) => Alike(RunMutations(s, op.mutations), local, f, r)
    BY <1>3, RunEmpty
  <1>5. local \in Servers BY DEF Typed
  <1>. QED BY <1>1, <1>2, <1>4, <1>5, CommandIntent

\* The only operation to be sent is the first, and leaves nothing behind.
LEMMA OnlySending ==
    ASSUME Typed, OnePending, NEW i, i \in 1..Len(sending)
    PROVE  /\ SubSeq(sending, 1, i - 1) = << >> /\ SubSeq(sending, i + 1, Len(sending)) = << >>
           /\ RemoveAt(sending, i) = << >>
  <1> DEFINE k == Len(sending)
  <1>1. k \in Nat BY LenProperties DEF Typed
  <1>2. k <= 1 BY DEF OnePending
  <1>3. i \in 1..k OBVIOUS
  <1> HIDE DEF k
  <1>4. k = 1 BY ONLY <1>1, <1>2, <1>3
  <1>5. i = 1 BY ONLY <1>3, <1>4
  <1>6. i - 1 \in Int /\ 1 \in Int /\ i - 1 < 1 /\ i + 1 \in Int /\ k \in Int /\ k < i + 1
    BY ONLY <1>4, <1>5
  <1>7. SubSeq(sending, 1, i - 1) = << >> /\ SubSeq(sending, i + 1, k) = << >> BY <1>6, SubSeqEmpty
  <1>8. << >> \o << >> = << >> OBVIOUS
  <1>. QED BY <1>7, <1>8 DEF k, RemoveAt

\* With one command under way, sending keeps the order.
LEMMA SendIntent ==
    ASSUME Typed, IntentKept, OnePending, NEW i, SendOp(i)
    PROVE  IntentKept'
  <1>1. /\ i \in 1..Len(sending) /\ sending[i] \in TravelOp
        /\ channel' = Append(channel, sending[i]) /\ sending' = RemoveAt(sending, i)
    BY SendTyped
  <1>2. sending \in Seq(TravelOp) /\ TravelOp \subseteq Op /\ sending[i] \in Op BY <1>1, OpKinds DEF Typed
  <1>3. SubSeq(sending, 1, i - 1) = << >> /\ SubSeq(sending, i + 1, Len(sending)) = << >>
    BY <1>1, OnlySending
  <1>4. SplitAt(TravelOp, sending, i) BY <1>1, <1>2, SplitOps
  <1> DEFINE before == SubSeq(sending, 1, i - 1)
             after == SubSeq(sending, i + 1, Len(sending))
             X == sending[i].mutations
  <1>5. /\ Mutations(sending) = (Mutations(before) \o X) \o Mutations(after)
        /\ Mutations(RemoveAt(sending, i)) = Mutations(before) \o Mutations(after)
    BY ONLY <1>4, Zenon DEF SplitAt
  <1>6. before = << >> /\ after = << >> BY <1>3
  <1>7. Mutations(<< >>) = << >> BY MutationsOne
  <1>8. Mutations(Append(channel, sending[i])) = Mutations(channel) \o X /\ X \in Seq(Mutation)
    BY <1>2, TypedLists, MutationsAppend
  <1>9. << >> \o X = X /\ X \o << >> = X BY <1>8, ConcatEmptySeq
  <1>10. << >> \o << >> = << >> OBVIOUS
  <1>11. Mutations(sending) = X /\ Mutations(RemoveAt(sending, i)) = << >>
    BY ONLY <1>5, <1>6, <1>7, <1>9, <1>10, Zenon
  <1> DEFINE s0 == RunMutations(server, Mutations(rows))
             s1 == RunMutations(s0, Mutations(batch))
  <1>12. /\ Mutations(batch) \in Seq(Mutation) /\ Mutations(channel) \in Seq(Mutation)
         /\ s0 \in Servers /\ FinalFlags \in Servers
    BY TypedMutations
  <1>13. FinalFlags = RunMutations(RunMutations(s1, Mutations(channel)), Mutations(sending)) BY DEF FinalFlags
  <1>14. rows' = rows /\ batch' = batch /\ server' = server /\ local' = local /\ deleted' = deleted BY DEF SendOp
  <1>15. FinalFlags' = RunMutations(RunMutations(s1, Mutations(Append(channel, sending[i]))),
                                    Mutations(RemoveAt(sending, i)))
    BY <1>1, <1>14 DEF FinalFlags
  <1> HIDE DEF s0, X
  <1>16. s1 \in Servers BY <1>12, RunType
  <1> HIDE DEF s1
  <1>17. RunMutations(s1, Mutations(channel) \o X) = RunMutations(RunMutations(s1, Mutations(channel)), X)
    BY <1>8, <1>12, <1>16, RunConcat
  <1>18. RunMutations(s1, Mutations(channel) \o X) = FinalFlags BY ONLY <1>11, <1>13, <1>17, Zenon
  <1>19. RunMutations(FinalFlags, << >>) = FinalFlags BY <1>12, RunEmpty
  <1>20. FinalFlags' = FinalFlags BY ONLY <1>8, <1>11, <1>15, <1>18, <1>19, Zenon
  <1>. QED BY <1>14, <1>20, IntentFrom DEF Alike

\* A replay request has no mutations.
LEMMA RequestIntent ==
    ASSUME Typed, IntentKept, RequestReplay
    PROVE  IntentKept'
  <1>1. ReplayOffline \in Op BY CommandOps, OpKinds
  <1>2. ReplayOffline.mutations = << >> BY DEF ReplayOffline
  <1>3. Mutations(Append(channel, ReplayOffline)) = Mutations(channel) \o ReplayOffline.mutations
    BY <1>1, TypedLists, MutationsAppend
  <1>4. Mutations(channel) \o << >> = Mutations(channel) BY TypedMutations, ConcatEmptySeq
  <1>5. channel' = Append(channel, ReplayOffline) /\ UNCHANGED <<rows, batch, sending, server, local, deleted>>
    BY DEF RequestReplay
  <1>6. Mutations(channel') = Mutations(channel) BY ONLY <1>2, <1>3, <1>4, <1>5, Zenon
  <1>7. FinalFlags' = FinalFlags BY <1>5, <1>6 DEF FinalFlags
  <1>. QED BY <1>5, <1>7, IntentFrom DEF Alike

\* Coalescing keeps the outcome.
LEMMA TakeBatchIntent ==
    ASSUME Typed, IntentKept, TakeBatch
    PROVE  IntentKept'
  <1> DEFINE new == UserOps(coalesce(channel))
             s0 == RunMutations(server, Mutations(rows))
             t == RunMutations(s0, Mutations(channel))
  <1>1. batch = << >> /\ batch' = new /\ channel' = << >> BY TakeBatchTyped
  <1>2. SameRun(Mutations(new), Mutations(channel)) BY CoalesceBatch DEF Typed
  <1>3. UNCHANGED <<rows, sending, server, local, deleted>> BY DEF TakeBatch
  <1> HIDE DEF new
  <1>4. Mutations(channel) \in Seq(Mutation) /\ s0 \in Servers BY TypedMutations
  <1>5. Mutations(<< >>) = << >> BY MutationsOne
  <1>6. FinalFlags = RunMutations(RunMutations(RunMutations(s0, Mutations(<< >>)), Mutations(channel)),
                                  Mutations(sending))
    BY <1>1 DEF FinalFlags
  <1>7. FinalFlags' = RunMutations(RunMutations(RunMutations(s0, Mutations(new)), Mutations(<< >>)), Mutations(sending))
    BY <1>1, <1>3 DEF FinalFlags
  <1> HIDE DEF s0
  <1>8. RunMutations(s0, << >>) = s0 BY <1>4, RunEmpty
  <1>9. RunMutations(s0, Mutations(new)) = t BY <1>2, <1>4 DEF SameRun
  <1>10. t \in Servers BY <1>4, RunType
  <1> HIDE DEF t
  <1>11. RunMutations(t, << >>) = t BY <1>10, RunEmpty
  <1>12. FinalFlags' = FinalFlags BY ONLY <1>5, <1>6, <1>7, <1>8, <1>9, <1>11, Zenon DEF t
  <1>. QED BY <1>3, <1>12, IntentFrom DEF Alike

\* The preflight keeps the outcome, and leaves rows that agree with the operation.
LEMMA PreflightIntent ==
    ASSUME OneFlag, Typed, DeletesKept, IntentKept, Preflight
    PROVE  IntentKept' /\ Preflighted'
  <1> DEFINE op == Head(batch)
             R == Mutations(rows)
             H == op.mutations
             T == Mutations(Tail(batch))
             C == Mutations(channel)
             S == Mutations(sending)
             s0 == RunMutations(server, R)
  <1>1. batch # << >> BY PreflightTyped
  <1>2. /\ op \in UserOp /\ op \in Op /\ Mutations(batch) = H \o T /\ H \in Seq(Mutation)
        /\ Tail(batch) \in Seq(UserOp) /\ RefsOf(batch) = op.refs \cup RefsOf(Tail(batch))
    BY <1>1, HeadTyped
  <1>3. R \in Seq(Mutation) /\ C \in Seq(Mutation) /\ S \in Seq(Mutation) /\ server \in Servers /\ s0 \in Servers
        /\ FinalFlags = Later(s0, Mutations(batch), C, S)
    BY TypedMutations
  <1>4. T \in Seq(Mutation)
    <2>1. Tail(batch) \in Seq(Op) BY <1>2, OpKinds
    <2>. QED BY <2>1, MutationsType
  <1>5. UNCHANGED <<channel, sending, server, local, deleted>> BY DEF Preflight
  <1>6. op.refs \subseteq deleted BY <1>2 DEF DeletesKept, DeletesUnderWay
  <1>7. FinalFlags' = Later(RunMutations(server, Mutations(rows')), Mutations(batch'), C, S)
    BY <1>5 DEF FinalFlags, Later
  <1>8. rows \in Seq(RowOp) /\ rows \in Seq(Op) BY TypedLists DEF Typed
  <1>9. \/ rows' = supersede_pending(rows, op) /\ batch' = batch /\ pc' = "execute"
        \/ rows' = Append(rows, op) /\ batch' = Tail(batch) /\ pc' = "preflight"
    BY DEF Preflight
  <1> HIDE DEF op
  <1>10. CASE rows' = supersede_pending(rows, op) /\ batch' = batch /\ pc' = "execute"
    <2> DEFINE left == FlatOf(EffectOf(op), R)
               s1 == RunMutations(server, left)
    <2>1. Mutations(rows') = left BY <1>2, <1>8, <1>10, SupersedeIs
    <2>2. left \in Seq(Mutation) BY <1>2, <1>3, EffectOfType, FlatOfType
    <2>3. IntentKept'
      <3>1. s1 \in Servers
        <4> HIDE DEF left
        <4>. QED BY <1>3, <2>2, RunType
      <3>2. ASSUME NEW f \in Flags, NEW r \in Refs \ deleted
            PROVE  Alike(RunMutations(s1, H), RunMutations(s0, H), f, r)
        <4>1. r \in Refs /\ r \notin op.refs BY <1>6
        <4> HIDE DEF R
        <4>. QED BY <1>2, <1>3, <4>1, SupersedeAlike
      <3>3. FinalFlags' = Later(s1, H \o T, C, S) /\ FinalFlags = Later(s0, H \o T, C, S)
        BY ONLY <1>2, <1>3, <1>7, <1>10, <2>1, Zenon
      <3> HIDE DEF s0, s1, H, T, C, S
      <3>4. Later(s1, H \o T, C, S) = Later(RunMutations(s1, H), T, C, S)
            /\ Later(s0, H \o T, C, S) = Later(RunMutations(s0, H), T, C, S)
        BY <1>2, <1>3, <1>4, <3>1, LaterHead
      <3>5. RunMutations(s1, H) \in Servers /\ RunMutations(s0, H) \in Servers BY <1>2, <1>3, <3>1, RunType
      <3>6. \A f \in Flags, r \in Refs \ deleted : Alike(FinalFlags', FinalFlags, f, r)
        <4> SUFFICES ASSUME NEW f \in Flags, NEW r \in Refs \ deleted
                     PROVE  Alike(FinalFlags', FinalFlags, f, r)
          OBVIOUS
        <4>1. Alike(Later(RunMutations(s1, H), T, C, S), Later(RunMutations(s0, H), T, C, S), f, r)
          BY <1>3, <1>4, <3>2, <3>5, LaterAlike
        <4>. QED BY ONLY <3>3, <3>4, <4>1, Zenon
      <3>. QED BY <1>5, <3>6, IntentFrom
    <2>4. Preflighted'
      <3> SUFFICES ASSUME NEW n \in FreshMutation, H = <<n>> PROVE left \in Seq(AgreesWith(n))
        BY <1>10, <2>1 DEF Preflighted, op
      <3>1. op.op = "set_flags"
        <4>1. <<n>> # << >> OBVIOUS
        <4>. QED BY <1>2, <4>1 DEF Op
      <3>2. op.mutations[1] = n OBVIOUS
      <3>3. EffectOf(op) = LeftOf(n) BY <3>1, <3>2 DEF EffectOf
      <3>4. LeftOf(n) \in [Mutation -> Seq(AgreesWith(n))] BY LeftOfType
      <3>5. FlatOf(LeftOf(n), R) \in Seq(AgreesWith(n))
        <4> HIDE DEF R
        <4>. QED BY <1>3, <3>4, FlatOfType
      <3>. QED BY <3>3, <3>5
    <2>. QED BY <2>3, <2>4
  <1>11. CASE rows' = Append(rows, op) /\ batch' = Tail(batch) /\ pc' = "preflight"
    <2>1. Mutations(rows') = R \o H BY <1>2, <1>8, <1>11, MutationsAppend
    <2>2. FinalFlags' = Later(RunMutations(server, R \o H), T, C, S) BY <1>7, <1>11, <2>1
    <2>3. FinalFlags = Later(s0, H \o T, C, S) BY <1>2, <1>3
    <2> HIDE DEF R, H, T, C, S
    <2>4. RunMutations(server, R \o H) = RunMutations(s0, H) BY <1>2, <1>3, RunConcat
    <2> HIDE DEF s0
    <2>5. Later(s0, H \o T, C, S) = Later(RunMutations(s0, H), T, C, S) BY <1>2, <1>3, <1>4, LaterHead
    <2>6. FinalFlags' = FinalFlags BY ONLY <2>2, <2>3, <2>4, <2>5, Zenon
    <2>7. IntentKept' BY <1>5, <2>6, IntentFrom DEF Alike
    <2>8. Preflighted' BY <1>11 DEF Preflighted
    <2>. QED BY <2>7, <2>8
  <1>. QED BY <1>9, <1>10, <1>11

\* Executing the first operation before the rows, or failing and queueing it
\* behind them, keeps the outcome.
LEMMA ExecuteIntent ==
    ASSUME Typed, Preflighted, IntentKept, Execute
    PROVE  IntentKept'
  <1> DEFINE op == Head(batch)
             R == Mutations(rows)
             H == op.mutations
             T == Mutations(Tail(batch))
             C == Mutations(channel)
             S == Mutations(sending)
             s0 == RunMutations(server, R)
  <1>1. batch # << >> BY ExecuteTyped
  <1>2. /\ op \in UserOp /\ op \in Op /\ Mutations(batch) = H \o T /\ H \in Seq(Mutation)
        /\ Tail(batch) \in Seq(UserOp)
    BY <1>1, HeadTyped
  <1>3. R \in Seq(Mutation) /\ C \in Seq(Mutation) /\ S \in Seq(Mutation) /\ server \in Servers /\ s0 \in Servers
        /\ FinalFlags = Later(s0, Mutations(batch), C, S)
    BY TypedMutations
  <1>4. T \in Seq(Mutation)
    <2>1. Tail(batch) \in Seq(Op) BY <1>2, OpKinds
    <2>. QED BY <2>1, MutationsType
  <1>5. UNCHANGED <<channel, sending, local, deleted>> /\ batch' = Tail(batch) BY DEF Execute
  <1>6. expunged \in SUBSET Refs /\ rows \in Seq(Op) BY TypedLists DEF Typed
  <1>7. FinalFlags' = Later(RunMutations(server', Mutations(rows')), T, C, S)
    BY <1>5 DEF FinalFlags, Later
  <1>8. \A n \in FreshMutation : H = <<n>> => R \in Seq(AgreesWith(n)) BY DEF Preflighted, Execute
  <1>9. \/ Succeed(op) /\ rows' = rows
        \/ FailPartly(op) /\ rows' = Append(rows, op)
    BY DEF Execute
  <1> HIDE DEF op
  <1>10. FinalFlags = Later(RunMutations(s0, H), T, C, S)
    <2> HIDE DEF s0, H, T, C, S
    <2>1. Later(s0, H \o T, C, S) = Later(RunMutations(s0, H), T, C, S) BY <1>2, <1>3, <1>4, LaterHead
    <2>. QED BY ONLY <1>2, <1>3, <2>1, Zenon
  <1>11. ASSUME NEW t \in Servers, FinalFlags' = Later(t, T, C, S),
                \A f \in Flags, r \in Refs : Alike(t, RunMutations(s0, H), f, r)
         PROVE  IntentKept'
    <2> HIDE DEF s0, H, T, C, S
    <2>1. RunMutations(s0, H) \in Servers BY <1>2, <1>3, RunType
    <2>2. \A f \in Flags, r \in Refs \ deleted : Alike(FinalFlags', FinalFlags, f, r)
      <3> SUFFICES ASSUME NEW f \in Flags, NEW r \in Refs \ deleted
                   PROVE  Alike(FinalFlags', FinalFlags, f, r)
        OBVIOUS
      <3>1. Alike(t, RunMutations(s0, H), f, r) BY <1>11
      <3>2. Alike(Later(t, T, C, S), Later(RunMutations(s0, H), T, C, S), f, r)
        BY <1>3, <1>4, <2>1, <3>1, LaterAlike
      <3>. QED BY ONLY <1>10, <1>11, <3>2, Zenon
    <2>. QED BY <1>5, <2>2, IntentFrom
  <1>12. CASE Succeed(op) /\ rows' = rows
    <2> DEFINE t == RunMutations(RunMutations(server, H), R)
    <2>1. server' = RunMutations(server, H) BY <1>2, <1>3, <1>6, <1>12, SucceedServer
    <2>2. FinalFlags' = Later(t, T, C, S) BY <1>7, <1>12, <2>1
    <2>3. t \in Servers
      <3> HIDE DEF R, H
      <3>1. RunMutations(server, H) \in Servers BY <1>2, <1>3, RunType
      <3>. QED BY <1>3, <3>1, RunType
    <2>4. ASSUME NEW f \in Flags, NEW r \in Refs PROVE Alike(t, RunMutations(s0, H), f, r)
      <3> HIDE DEF R
      <3>. QED BY <1>2, <1>3, <1>8, ExecuteFirst
    <2> HIDE DEF t
    <2>. QED BY <1>11, <2>2, <2>3, <2>4
  <1>13. CASE FailPartly(op) /\ rows' = Append(rows, op)
    <2> DEFINE t0 == RunMutations(server', R)
               t == RunMutations(t0, H)
    <2>1. /\ server' \in Servers
          /\ \A f \in Flags, r \in Refs : Touched(H, f, r) \/ Alike(server', server, f, r)
      BY <1>2, <1>3, <1>6, <1>13, FailServer
    <2>2. Mutations(rows') = R \o H BY <1>2, <1>6, <1>13, MutationsAppend
    <2>3. FinalFlags' = Later(RunMutations(server', R \o H), T, C, S) BY <1>7, <2>2
    <2> HIDE DEF R, H
    <2>4. RunMutations(server', R \o H) = t BY <1>2, <1>3, <2>1, RunConcat
    <2>5. t0 \in Servers BY <1>3, <2>1, RunType
    <2>6. t \in Servers
      <3> HIDE DEF t0
      <3>. QED BY <1>2, <2>5, RunType
    <2>7. ASSUME NEW f \in Flags, NEW r \in Refs PROVE Alike(t, RunMutations(s0, H), f, r)
      BY <1>2, <1>3, <2>1, RunAgain
    <2>8. FinalFlags' = Later(t, T, C, S) BY ONLY <2>3, <2>4, Zenon
    <2> HIDE DEF t
    <2>. QED BY <1>11, <2>6, <2>7, <2>8
  <1>. QED BY <1>9, <1>12, <1>13

\* A replay runs the first flag row, which no other mutation precedes; one that
\* fails runs again.
LEMMA ReplayIntent ==
    ASSUME Typed, IntentKept, ReplayRow
    PROVE  IntentKept'
  <1> DEFINE i == replay_order_first
             row == rows[i]
             before == SubSeq(rows, 1, i - 1)
             after == SubSeq(rows, i + 1, Len(rows))
             X == row.mutations
             A == Mutations(after)
             R == Mutations(rows)
             B == Mutations(batch)
             C == Mutations(channel)
             S == Mutations(sending)
  <1>1. rows # << >> /\ i \in 1..Len(rows) /\ row \in RowOp /\ row \in Op BY ReplayRowTyped
  <1>2. \A j \in 1..Len(rows) : j < i => rows[j].op # "set_flags" BY <1>1, ReplayFirst
  <1>3. rows \in Seq(RowOp) /\ RowOp \subseteq Op BY OpKinds DEF Typed
  <1>4. R \in Seq(Mutation) /\ B \in Seq(Mutation) /\ C \in Seq(Mutation) /\ S \in Seq(Mutation)
        /\ server \in Servers /\ expunged \in SUBSET Refs
        /\ FinalFlags = Later(RunMutations(server, R), B, C, S)
    BY TypedMutations DEF Typed
  <1>5. UNCHANGED <<batch, channel, sending, local, deleted>> BY DEF ReplayRow
  <1>6. FinalFlags' = Later(RunMutations(server', Mutations(rows')), B, C, S)
    BY <1>5 DEF FinalFlags, Later
  <1>7. \/ Succeed(row) /\ rows' = RemoveAt(rows, i)
        \/ FailPartly(row) /\ rows' = rows
    BY DEF ReplayRow
  <1> HIDE DEF i
  <1>8. SplitAt(RowOp, rows, i) BY <1>1, <1>3, SplitOps
  <1>9. /\ before \in Seq(RowOp) /\ after \in Seq(RowOp)
        /\ \A j \in 1..Len(before) : j < i /\ j \in 1..Len(rows) /\ before[j] = rows[j]
        /\ R = (Mutations(before) \o X) \o A
        /\ Mutations(RemoveAt(rows, i)) = Mutations(before) \o A
    BY ONLY <1>8, Zenon DEF SplitAt
  <1> HIDE DEF before, after, row, R, B, C, S
  <1>10. before \in Seq(Op) /\ after \in Seq(Op) BY <1>9, OpKinds
  <1>11. Mutations(before) = << >>
    <2>1. \A j \in 1..Len(before) : before[j].op # "set_flags" BY <1>2, <1>9
    <2>. QED BY <1>10, <2>1, MutationsNone
  <1>12. X \in Seq(Mutation) /\ A \in Seq(Mutation) BY <1>1, <1>10, MutationsType DEF Op
  <1> HIDE DEF X, A
  <1>13. << >> \o X = X /\ << >> \o A = A BY <1>12, ConcatEmptySeq
  <1>14. R = X \o A /\ Mutations(RemoveAt(rows, i)) = A BY ONLY <1>9, <1>11, <1>13, Zenon
  <1>15. \A s \in Servers : RunMutations(s, R) = RunMutations(RunMutations(s, X), A)
    <2>1. \A s \in Servers : RunMutations(s, X \o A) = RunMutations(RunMutations(s, X), A) BY <1>12, RunConcat
    <2>. QED BY <1>14, <2>1
  <1>16. CASE Succeed(row) /\ rows' = RemoveAt(rows, i)
    <2>1. server' = RunMutations(server, X) BY <1>1, <1>4, <1>16, SucceedServer DEF X
    <2>2. RunMutations(server, R) = RunMutations(RunMutations(server, X), A) BY <1>4, <1>15
    <2>3. FinalFlags' = Later(RunMutations(server', A), B, C, S) BY <1>6, <1>14, <1>16
    <2>4. FinalFlags' = FinalFlags BY ONLY <1>4, <2>1, <2>2, <2>3, Zenon
    <2>. QED BY <1>5, <2>4, IntentFrom DEF Alike
  <1>17. CASE FailPartly(row) /\ rows' = rows
    <2>1. /\ server' \in Servers
          /\ \A f \in Flags, r \in Refs : Touched(X, f, r) \/ Alike(server', server, f, r)
      BY <1>1, <1>4, <1>17, FailServer DEF X
    <2> DEFINE u == RunMutations(server', R)
               v == RunMutations(server, R)
    <2>2. FinalFlags' = Later(u, B, C, S) /\ FinalFlags = Later(v, B, C, S)
      <3>1. Mutations(rows') = R BY <1>17 DEF R
      <3>. QED BY <1>4, <1>6, <3>1
    <2>3. u \in Servers /\ v \in Servers BY <1>4, <2>1, RunType
    <2>4. ASSUME NEW f \in Flags, NEW r \in Refs PROVE Alike(u, v, f, r)
      <3>1. << >> \in Seq(Mutation) BY EmptySeq
      <3>2. Alike(RunMutations(RunMutations(server', << >>), X), RunMutations(RunMutations(server, << >>), X), f, r)
        BY <1>4, <1>12, <2>1, <3>1, RunAgain
      <3>3. RunMutations(server', << >>) = server' /\ RunMutations(server, << >>) = server BY <1>4, <2>1, RunEmpty
      <3> DEFINE u1 == RunMutations(server', X)
                 v1 == RunMutations(server, X)
      <3>4. Alike(u1, v1, f, r) BY ONLY <3>2, <3>3, Zenon
      <3>5. u1 \in Servers /\ v1 \in Servers BY <1>4, <1>12, <2>1, RunType
      <3>6. u = RunMutations(u1, A) /\ v = RunMutations(v1, A) BY <1>4, <1>15, <2>1
      <3> HIDE DEF u1, v1, u, v
      <3>7. Alike(RunMutations(u1, A), RunMutations(v1, A), f, r) BY <1>12, <3>4, <3>5, RunLocal
      <3>. QED BY ONLY <3>6, <3>7, Zenon
    <2> HIDE DEF u, v
    <2>5. \A f \in Flags, r \in Refs \ deleted : Alike(FinalFlags', FinalFlags, f, r)
      <3> SUFFICES ASSUME NEW f \in Flags, NEW r \in Refs \ deleted
                   PROVE  Alike(FinalFlags', FinalFlags, f, r)
        OBVIOUS
      <3>1. Alike(u, v, f, r) BY <2>4
      <3>2. Alike(Later(u, B, C, S), Later(v, B, C, S), f, r) BY <1>4, <2>3, <3>1, LaterAlike
      <3>. QED BY ONLY <2>2, <3>2, Zenon
    <2>. QED BY <1>5, <2>5, IntentFrom
  <1>. QED BY <1>7, <1>16, <1>17

\* While commands are issued one at a time, at most one operation is to be sent.
LEMMA OnePendingNext ==
    ASSUME MaxPending = 1, Typed, OnePending, [Next]_vars
    PROVE  OnePending'
  <1>0. sending \in Seq(TravelOp) /\ Len(sending) \in Nat BY LenProperties DEF Typed
  <1>1. ASSUME NEW op, NEW flags, NEW gone, Command(op, flags, gone) PROVE OnePending'
    <2>1. Len(sending) < 1 /\ sending' = Append(sending, op) BY <1>1 DEF Command
    <2>2. Len(Append(sending, op)) = Len(sending) + 1 BY <1>0
    <2>. QED BY <1>0, <2>1, <2>2 DEF OnePending
  <1>2. ASSUME NEW i, SendOp(i) PROVE OnePending'
    <2>1. i \in 1..Len(sending) /\ sending' = RemoveAt(sending, i) BY <1>2, SendTyped
    <2>2. RemoveAt(sending, i) = << >> BY <2>1, OnlySending
    <2>. QED BY <2>1, <2>2 DEF OnePending
  <1>3. ASSUME sending' = sending PROVE OnePending' BY <1>3 DEF OnePending
  <1>. QED
    BY <1>1, <1>2, <1>3
    DEF Next, vars, set_message_flags, delete_messages, mark_account_read, RequestReplay, TakeBatch,
        Preflight, Execute, EndBatch, ReplayRow, ReplayDone

\* Only the preflight leads to an execution.
LEMMA PreflightedNext ==
    ASSUME OneFlag, Typed, DeletesKept, IntentKept, Preflighted, [Next]_vars
    PROVE  Preflighted'
  <1>1. ASSUME rows' = rows, batch' = batch, pc' = pc PROVE Preflighted' BY <1>1 DEF Preflighted
  <1>2. ASSUME pc' # "execute" PROVE Preflighted' BY <1>2 DEF Preflighted
  <1>3. CASE Preflight BY <1>3, PreflightIntent
  <1>4. ASSUME NEW op, NEW flags, NEW gone, Command(op, flags, gone) PROVE Preflighted'
    BY <1>1, <1>4 DEF Command
  <1>5. ASSUME NEW i, SendOp(i) PROVE Preflighted' BY <1>1, <1>5 DEF SendOp
  <1>6. CASE RequestReplay BY <1>1, <1>6 DEF RequestReplay
  <1>7. CASE TakeBatch BY <1>2, <1>7 DEF TakeBatch
  <1>8. CASE Execute BY <1>2, <1>8 DEF Execute
  <1>9. CASE EndBatch BY <1>2, <1>9 DEF EndBatch
  <1>10. CASE ReplayRow BY <1>2, <1>10 DEF ReplayRow
  <1>11. CASE ReplayDone BY <1>2, <1>11 DEF ReplayDone
  <1>12. CASE UNCHANGED vars BY <1>1, <1>12 DEF vars
  <1>. QED
    BY <1>3, <1>4, <1>5, <1>6, <1>7, <1>8, <1>9, <1>10, <1>11, <1>12
    DEF Next, set_message_flags, delete_messages, mark_account_read

\* Every step keeps the outcome the user chose.
LEMMA IntentNext ==
    ASSUME OneFlag, Typed, DeletesKept, Preflighted, OnePending, IntentKept, [Next]_vars
    PROVE  IntentKept'
  <1>1. ASSUME rows' = rows, batch' = batch, channel' = channel, sending' = sending,
               server' = server, local' = local, deleted' = deleted
        PROVE  IntentKept'
    <2>1. FinalFlags' = FinalFlags BY <1>1 DEF FinalFlags
    <2>. QED BY <1>1, <2>1, IntentFrom DEF Alike
  <1>2. ASSUME NEW refs \in SUBSET Refs, NEW flags \in FlagSets, NEW add \in BOOLEAN,
               set_message_flags(refs, flags, add)
        PROVE  IntentKept'
    BY <1>2, SetFlagsIntent
  <1>3. ASSUME NEW refs \in SUBSET Refs, delete_messages(refs) PROVE IntentKept' BY <1>3, DeleteIntent
  <1>4. ASSUME NEW folders \in SUBSET Folders, mark_account_read(folders) PROVE IntentKept' BY <1>4, MarkReadIntent
  <1>5. ASSUME NEW i \in 1..MaxPending, SendOp(i) PROVE IntentKept' BY <1>5, SendIntent
  <1>6. CASE RequestReplay BY <1>6, RequestIntent
  <1>7. CASE TakeBatch BY <1>7, TakeBatchIntent
  <1>8. CASE Preflight BY <1>8, PreflightIntent
  <1>9. CASE Execute BY <1>9, ExecuteIntent
  <1>10. CASE EndBatch BY <1>1, <1>10 DEF EndBatch
  <1>11. CASE ReplayRow BY <1>11, ReplayIntent
  <1>12. CASE ReplayDone BY <1>1, <1>12 DEF ReplayDone
  <1>13. CASE UNCHANGED vars BY <1>1, <1>13 DEF vars
  <1>. QED BY <1>2, <1>3, <1>4, <1>5, <1>6, <1>7, <1>8, <1>9, <1>10, <1>11, <1>12, <1>13 DEF Next

\* At the start nothing is under way.
LEMMA IntentInit ==
    ASSUME Init
    PROVE  DeletesKept /\ Preflighted /\ OnePending /\ IntentKept
  <1>1. rows = << >> /\ batch = << >> /\ channel = << >> /\ sending = << >> /\ local = server
        /\ expunged = {} /\ deleted = {} /\ pc = "idle"
    BY DEF Init
  <1>2. DeletesKept
    <2>1. RefsOf(<< >>) = {} BY RefsOfOps
    <2>. QED BY <1>1, <2>1 DEF DeletesKept, DeletesUnderWay
  <1>3. Preflighted BY <1>1 DEF Preflighted
  <1>4. OnePending BY <1>1 DEF OnePending
  <1>5. server \in Servers BY TypedInit DEF Typed
  <1>6. RunMutations(server, << >>) = server BY <1>5, RunEmpty
  <1>7. Mutations(<< >>) = << >> BY MutationsOne
  <1>8. FinalFlags = RunMutations(RunMutations(RunMutations(RunMutations(server, << >>), << >>), << >>), << >>)
    BY <1>1, <1>7, Zenon DEF FinalFlags
  <1>9. FinalFlags = server BY ONLY <1>6, <1>8, Zenon
  <1>10. IntentKept BY <1>1, <1>9 DEF IntentKept, Alike
  <1>. QED BY <1>2, <1>3, <1>4, <1>10

\* Whatever fails, is applied in part, coalesced, superseded or replayed in
\* whichever order, running the queued rows and then what is on its way gives the
\* server exactly the flags the user last chose. Two hypotheses: a call names one
\* flag, as every call of the front end does, and a command is sent before the
\* next one writes the database.
THEOREM IntentIsPreserved ==
    ASSUME OneFlag, MaxPending = 1
    PROVE  Spec => []IntentPreserved
  <1> DEFINE Inv == Typed /\ DeletesKept /\ Preflighted /\ OnePending /\ IntentKept
  <1>1. Init => Inv BY TypedInit, IntentInit
  <1>2. Inv /\ [Next]_vars => Inv'
    <2> SUFFICES ASSUME Inv, [Next]_vars PROVE Inv' OBVIOUS
    <2>1. Typed' BY TypedNext
    <2>2. DeletesKept' BY DeletesNext
    <2>3. Preflighted' BY PreflightedNext
    <2>4. OnePending' BY OnePendingNext
    <2>5. IntentKept' BY IntentNext
    <2>. QED BY <2>1, <2>2, <2>3, <2>4, <2>5
  <1>3. Inv => IntentPreserved BY IntentIs
  <1>. QED BY <1>1, <1>2, <1>3, PTL DEF Spec
=============================================================================
