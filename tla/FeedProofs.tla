----------------------------- MODULE FeedProofs -----------------------------
(***************************************************************************)
(* What holds of a viewer's Flow for every number of Moins, scores, tabs,  *)
(* requests and snapshots, every length of a page and every ranking.       *)
(***************************************************************************)
EXTENDS Feed, FiniteSetTheorems, SequenceTheorems, TLAPS

(* The scores of a set of entries are functions of their Moins.            *)
Functional(X) == \A e, f \in X : e.id = f.id => e = f

(* Rows are told apart by their identifiers and hold a Moin once.          *)
SnapshotsOK ==
    /\ \A s, u \in snapshots : s.id = u.id => s = u
    /\ \A s \in snapshots : Functional(s.items) /\ s.bucket <= clock

(* No page, no answer and no request but r names this identifier.          *)
Fresh(id, r) ==
    /\ \A s \in snapshots : s.id # id
    /\ \A t \in Tab : \A i \in 1 .. Len(pages[t]) :
           pages[t][i].next # None => pages[t][i].next.snap # id
    /\ \A o \in Request :
           req[o] # None =>
               /\ o # r => req[o].snap # id
               /\ req[o].page # None /\ req[o].page.next # None => req[o].page.next.snap # id

(* The snapshot that a transaction has found, or the one it will insert.   *)
RankedOK(r) ==
    /\ req[r].snap \in Id
    /\ \/ \E s \in snapshots :
              s.id = req[r].snap /\ s.id \notin req[r].drop /\ s.bucket = req[r].bucket
       \/ Fresh(req[r].snap, r) /\ Functional(req[r].items)

(* What a request has of what its stage needs.                             *)
Staged(q) ==
    /\ q.state \in {"started", "ranked", "page"} =>
           mode[q.tab] = "for_me" /\ q.cursor = None /\ q.bucket <= clock
    /\ q.cursor # None => q.state = "sent"
    /\ q.state = "answered" <=> q.page # None
    /\ q.page # None => q.page.bucket <= clock

StagesOK ==
    \A r \in Request :
        req[r] # None => Staged(req[r]) /\ (req[r].state = "ranked" => RankedOK(r))

(* One transaction at a time, and what it leaves is within the bound.      *)
BoundOK ==
    /\ IsFiniteSet(snapshots) /\ Cardinality(snapshots) <= Retained + 1
    /\ \A r, o \in Request :
           (req[r] # None /\ req[r].state = "ranked" /\ req[o] # None /\ req[o].state = "ranked")
               => r = o
    /\ \A r \in Request :
           (req[r] # None /\ req[r].state = "ranked")
               => Cardinality({s \in snapshots : s.id \notin req[r].drop}) <= Retained

(* The request that a tab waits for is one of its own, for the page after  *)
(* its last one or for the first.                                          *)
Waiting(t, q, k) ==
    /\ q # None /\ q.tab = t /\ q.place = k
    /\ k = 0 \/ k = Len(pages[t])
    /\ q.state = "sent" => q.cursor = CursorAt(t, k)
    /\ q.state \in {"started", "ranked", "page"} => k = 0

CurrentOK ==
    \A t \in Tab :
        /\ cursor[t] > 0 /\ Len(pages[t]) = cursor[t] => pages[t][cursor[t]].next # None
        /\ current[t] # None => Waiting(t, req[current[t]], cursor[t])

(* The first page that a tab waits for is no older than the one it shows.  *)
NoOlder(q, b) ==
    /\ q.state \in {"started", "ranked"} => q.bucket >= b
    /\ q.state = "page" => \A s \in snapshots : s.id = q.snap => s.bucket >= b
    /\ q.state = "answered" => q.page.bucket >= b

AgesOK ==
    \A t \in Tab :
        pages[t] # <<>> =>
            /\ pages[t][1].bucket <= clock
            /\ current[t] # None /\ cursor[t] = 0 =>
                   NoOlder(req[current[t]], pages[t][1].bucket)

(* What the pages of a chain show.                                         *)
ShownBy(ps) == UNION {ps[i].items : i \in 1 .. Len(ps)}

(* Where the entries come from that lead to cursors into this snapshot.    *)
From(m, X, snap, S) ==
    /\ m = "following" => snap = None /\ \A e \in X : e.score = 0
    /\ m = "for_me" => \A s \in S : s.id = snap => X \subseteq s.items

(* The pages of a chain follow each other, and up to the last Moin of each *)
(* they show all that is due.                                              *)
ChainOK(m, ps, D, S) ==
    /\ \A i \in 1 .. Len(ps) : i < Len(ps) => ps[i].next # None
    /\ \A i, j \in 1 .. Len(ps) :
           i < j => \A e \in ps[j].items : ComesAfter(e, ps[i].next)
    /\ \A i \in 1 .. Len(ps) :
           ps[i].next # None =>
               /\ \A e \in ps[i].items : ~ ComesAfter(e, ps[i].next)
               /\ \E e \in ps[i].items : e.id = ps[i].next.id /\ e.score = ps[i].next.score
    /\ \A i, j \in 1 .. Len(ps) :
           ps[i].next # None /\ ps[j].next # None => ps[i].next.snap = ps[j].next.snap
    /\ Functional(ShownBy(ps) \cup D)
    /\ \A i \in 1 .. Len(ps) :
           ps[i].next # None => From(m, ShownBy(ps) \cup D, ps[i].next.snap, S)
    /\ \A i \in 1 .. Len(ps) : \A e \in D :
           ps[i].next = None \/ ~ ComesAfter(e, ps[i].next)
               => \E j \in 1 .. i : e \in ps[j].items

(* What is due besides is on the Flow still.                               *)
Chain(m, ps, D, S, on) == ChainOK(m, ps, D, S) /\ \A e \in D : e.id \in on

(* The chain that the answer to a request makes.                           *)
Landing(ps, q) == Append(SubSeq(ps, 1, q.place), q.page)
LandingDue(D, q) == IF q.place = 0 THEN q.due ELSE D

ShownChain(t) == Chain(mode[t], pages[t], due[t], snapshots, On(mode[t]))

NextChain(t) ==
    LET q == req[current[t]] IN
    current[t] # None /\ q.state = "answered" =>
        Chain(mode[t], Landing(pages[t], q), LandingDue(due[t], q), snapshots, On(mode[t]))

ChainsOK == \A t \in Tab : ShownChain(t) /\ NextChain(t)

FeedInv ==
    TypeOK /\ SnapshotsOK /\ StagesOK /\ BoundOK /\ CurrentOK /\ AgesOK /\ ChainsOK
-----------------------------------------------------------------------------
(* There are finitely many entries.                                        *)
LEMMA EntriesAreFinite == IsFiniteSet(Entry)
<1> DEFINE S == Post \X (0 .. MaxScore)
           f == [p \in S |-> [id |-> p[1], score |-> p[2]]]
<1>1. IsFiniteSet(S)
  <2>1. IsFiniteSet(Post) /\ IsFiniteSet(0 .. MaxScore)
    BY FS_Interval, FeedAssumption DEF Post
  <2>2. QED
    BY <2>1, FS_Product
<1>2. f \in Surjection(S, Entry)
  <2>1. \A p \in S : f[p] \in Entry
    BY DEF Entry
  <2>2. ASSUME NEW e \in Entry PROVE \E p \in S : f[p] = e
    <3>1. <<e.id, e.score>> \in S /\ f[<<e.id, e.score>>] = e
      BY DEF Entry
    <3>2. QED
      BY <3>1
  <2>3. QED
    BY <2>1, <2>2 DEF Surjection
<1>3. QED
  BY <1>1, <1>2, FS_Surjection

(* A set of numbers up to n that is not empty has a least and a greatest.  *)
LEMMA Extremes ==
    ASSUME NEW n \in Nat, NEW T, T \subseteq 0 .. n, T # {}
    PROVE  (\E x \in T : \A y \in T : x <= y) /\ (\E x \in T : \A y \in T : y <= x)
<1>1. \A X : X \subseteq Nat /\ X # {} => \E x \in X : \A y \in X : x <= y
  <2> SUFFICES ASSUME NEW X, X \subseteq Nat, X # {} PROVE \E x \in X : \A y \in X : x <= y
    OBVIOUS
  <2>1. PICK x \in X : \A y \in X : ~ (<<y, x>> \in OpToRel(<, Nat))
    BY NatLessThanWellFounded, WFMin, Zenon
  <2>2. ASSUME NEW y \in X PROVE x <= y
    <3>1. ~ (y < x)
      BY <2>1, <2>2 DEF OpToRel
    <3>2. QED
      BY <3>1
  <2>3. QED
    BY <2>2
<1>2. \E x \in T : \A y \in T : x <= y
  <2>1. T \subseteq Nat
    OBVIOUS
  <2>2. QED
    BY <1>1, <2>1, Zenon
<1>3. \E x \in T : \A y \in T : y <= x
  <2> DEFINE X == {n - y : y \in T}
  <2>1. X \subseteq Nat /\ X # {}
    <3>1. PICK y \in T : TRUE
      OBVIOUS
    <3>2. n - y \in X
      BY <3>1
    <3>3. ASSUME NEW w \in X PROVE w \in Nat
      OBVIOUS
    <3>4. QED
      BY <3>2, <3>3
  <2> HIDE DEF X
  <2>2. PICK z \in X : \A w \in X : z <= w
    BY <1>1, <2>1, Zenon
  <2>3. PICK x \in T : z = n - x
    BY DEF X
  <2>4. ASSUME NEW y \in T PROVE y <= x
    <3>1. n - y \in X
      BY DEF X
    <3>2. n - x <= n - y
      BY <2>2, <2>3, <3>1
    <3>3. QED
      BY <3>2
  <2>5. QED
    BY <2>4
<1>4. QED
  BY <1>2, <1>3

(* Entries are ordered: of some there is a best one and a worst one.       *)
LEMMA Order ==
    ASSUME NEW X, X \subseteq Entry, X # {}
    PROVE  /\ \E e \in X : \A f \in X : f = e \/ Better(f, e)
           /\ \E e \in X : \A f \in X : f = e \/ Better(e, f)
<1> DEFINE Scores == {e.score : e \in X}
           IdsAt(x) == {e.id : e \in {f \in X : f.score = x}}
<1>1. Scores \subseteq 0 .. MaxScore /\ Scores # {}
  BY DEF Entry
<1>2. MaxScore \in Nat /\ MaxPost \in Nat
  BY FeedAssumption
<1>3. \A x \in Scores : IdsAt(x) \subseteq 0 .. MaxPost /\ IdsAt(x) # {}
  BY <1>2 DEF Entry, Post
<1>4. \E e \in X : \A f \in X : f = e \/ Better(f, e)
  <2>1. PICK x \in Scores : \A y \in Scores : x <= y
    BY <1>1, <1>2, Extremes
  <2>2. PICK i \in IdsAt(x) : \A j \in IdsAt(x) : i <= j
    BY <1>2, <1>3, Extremes
  <2>3. PICK e \in X : e.score = x /\ e.id = i
    BY <2>2
  <2>4. ASSUME NEW f \in X PROVE f = e \/ Better(f, e)
    <3>1. e \in Entry /\ f \in Entry /\ e.score <= f.score
      BY <2>1, <2>3
    <3>2. f.score = e.score => e.id <= f.id
      BY <2>2, <2>3
    <3>3. QED
      BY <3>1, <3>2, <1>2 DEF Better, Entry, Post
  <2>5. QED
    BY <2>4
<1>5. \E e \in X : \A f \in X : f = e \/ Better(e, f)
  <2>1. PICK x \in Scores : \A y \in Scores : y <= x
    BY <1>1, <1>2, Extremes
  <2>2. PICK i \in IdsAt(x) : \A j \in IdsAt(x) : j <= i
    BY <1>2, <1>3, Extremes
  <2>3. PICK e \in X : e.score = x /\ e.id = i
    BY <2>2
  <2>4. ASSUME NEW f \in X PROVE f = e \/ Better(e, f)
    <3>1. e \in Entry /\ f \in Entry /\ f.score <= e.score
      BY <2>1, <2>3
    <3>2. f.score = e.score => f.id <= e.id
      BY <2>2, <2>3
    <3>3. QED
      BY <3>1, <3>2, <1>2 DEF Better, Entry, Post
  <2>5. QED
    BY <2>4
<1>6. QED
  BY <1>4, <1>5

(* A page holds rows of its Flow; where it does not hold them all, its     *)
(* cursor is its last Moin and no row above that is missing.               *)
IsPage(P, rows, snap) ==
    /\ P.items \subseteq rows
    /\ P.next = None => P.items = rows
    /\ P.next # None => P.next.snap = snap
    /\ P.next # None =>
           /\ \E e \in P.items : e.id = P.next.id /\ e.score = P.next.score
           /\ \A e \in P.items : ~ ComesAfter(e, P.next)
           /\ \A e \in rows : ~ ComesAfter(e, P.next) => e \in P.items

LEMMA Pages ==
    ASSUME NEW m, NEW E, E \subseteq Entry, NEW c \in Cursor \cup {None},
           NEW snap \in Id \cup {None}, NEW bucket
    PROVE  LET rows == {e \in E : e.id \in On(m) /\ ComesAfter(e, c)}
               P == PageOf(m, E, c, snap, bucket)
           IN  P.next \in Cursor \cup {None} /\ IsPage(P, rows, snap)
<1> DEFINE rows == {e \in E : e.id \in On(m) /\ ComesAfter(e, c)}
           items == First(Limit, rows)
           last == Worst(items)
           P == PageOf(m, E, c, snap, bucket)
           Above(e) == {f \in rows : Better(f, e)}
<1> HIDE DEF rows, items, last, P, Above
<1>1. rows \subseteq Entry /\ items \subseteq rows
  BY DEF rows, items, First
<1>2. P = [items |-> items, bucket |-> bucket,
           next |-> IF items = rows THEN None
                    ELSE [snap |-> snap, score |-> last.score, id |-> last.id]]
  BY DEF P, PageOf, rows, items, last
<1>3. CASE items = rows
  <2>1. P.items = rows /\ P.next = None
    BY <1>2, <1>3
  <2>2. QED
    BY <1>2, <1>3, <2>1 DEF P, rows, IsPage
<1>4. CASE items # rows
  <2>1. \A e \in rows : IsFiniteSet(Above(e)) /\ Cardinality(Above(e)) \in Nat
    BY <1>1, EntriesAreFinite, FS_Subset, FS_CardinalityType DEF Above
  <2>2. \A e \in rows : e \in items <=> Cardinality(Above(e)) < Limit
    BY DEF items, First, Above
  <2>3. items # {}
    <3>1. PICK e \in rows : \A f \in rows : f = e \/ Better(e, f)
      BY <1>1, <1>4, Order
    <3>2. Above(e) = {}
      BY <3>1, <1>1, FeedAssumption DEF Above, Better, Entry, Post
    <3>3. Cardinality(Above(e)) = 0
      BY <3>2, FS_EmptySet
    <3>4. QED
      BY <3>3, <2>2, FeedAssumption
  <2>4. last \in items /\ \A f \in items : f = last \/ Better(f, last)
    <3>1. \E e \in items : \A f \in items : f = e \/ Better(f, e)
      BY <1>1, <2>3, Order
    <3>2. QED
      BY <3>1 DEF last, Worst
  <2>5. last \in Entry
    BY <1>1, <2>4
  <2>6. [snap |-> snap, score |-> last.score, id |-> last.id] \in Cursor
    BY <2>5 DEF Cursor, Entry
  <2>7. P.items = items /\ P.next \in Cursor \cup {None}
    BY <1>2, <1>4, <2>6
  <2>8. /\ P.next.snap = snap /\ P.next.id = last.id /\ P.next.score = last.score
        /\ P.next # None
    BY <1>2, <1>4, <2>6, FeedAssumption
  <2>9. \A e \in Entry : ~ ComesAfter(e, P.next) <=> e = last \/ Better(e, last)
    BY <2>5, <2>8, FeedAssumption DEF ComesAfter, Better, Entry, Post
  <2>10. \A e \in items : ~ ComesAfter(e, P.next)
    BY <1>1, <2>4, <2>9
  <2>11. ASSUME NEW e \in rows, ~ ComesAfter(e, P.next) PROVE e \in items
    <3>1. CASE e = last
      BY <3>1, <2>4
    <3>2. CASE Better(e, last)
      <4>1. Above(e) \subseteq Above(last)
        BY <3>2, <1>1, <2>5, FeedAssumption DEF Above, Better, Entry, Post
      <4>2. Cardinality(Above(e)) <= Cardinality(Above(last))
        BY <4>1, <2>1, <2>4, <1>1, FS_Subset
      <4>3. QED
        BY <4>2, <2>1, <2>2, <2>4, <1>1, FeedAssumption
    <3>3. QED
      BY <3>1, <3>2, <2>9, <2>11, <1>1
  <2>12. QED
    BY <1>1, <1>2, <2>4, <2>7, <2>8, <2>10, <2>11 DEF P, rows, IsPage
<1>5. QED
  BY <1>3, <1>4

-----------------------------------------------------------------------------
(* The steps, as far as the invariants tell them apart.                    *)

(* Whoever follows, blocks, mutes, publishes or withdraws: what it takes   *)
(* off a Flow is due no longer, and nothing else is different.             *)
LEMMA Commits ==
    ASSUME TypeOK, Moins \/ Social
    PROVE  Changed /\ follows' \subseteq Author \cup Topic
<1> USE DEF TypeOK
<1>1. ASSUME NEW p \in Post, Publish(p) \/ Withdraw(p)
      PROVE Changed /\ follows' \subseteq Author \cup Topic
  BY <1>1 DEF Publish, Withdraw
<1>2. ASSUME NEW a \in Other, FollowUser(a) \/ UnfollowUser(a)
      PROVE Changed /\ follows' \subseteq Author \cup Topic
  BY <1>2 DEF FollowUser, UnfollowUser, Follows, Other
<1>3. ASSUME NEW a \in Other, MuteUser(a) \/ UnmuteUser(a)
      PROVE Changed /\ follows' \subseteq Author \cup Topic
  BY <1>3 DEF MuteUser, UnmuteUser
<1>4. ASSUME NEW c \in Topic, FollowTopic(c) \/ UnfollowTopic(c)
      PROVE Changed /\ follows' \subseteq Author \cup Topic
  BY <1>4 DEF FollowTopic, UnfollowTopic, Follows
<1>5. ASSUME NEW b \in Pair, BlockUser(b[1], b[2]) \/ UnblockUser(b[1], b[2])
      PROVE Changed /\ follows' \subseteq Author \cup Topic
  BY <1>5 DEF BlockUser, UnblockUser
<1>6. QED
  BY <1>1, <1>2, <1>3, <1>4, <1>5 DEF Moins, Social

(* What a commit leaves of what is due.                                    *)
LEMMA DueShrinks ==
    ASSUME TypeOK, Changed
    PROVE  /\ UNCHANGED <<clock, snapshots, mode, pages, cursor, current>>
           /\ due' \in [Tab -> SUBSET Entry]
           /\ \A t \in Tab :
                  due'[t] \subseteq due[t] /\ \A e \in due'[t] : e.id \in On(mode[t])'
           /\ req' \in [Request -> Req \cup {None}]
           /\ \A r \in Request : req[r] = None <=> req'[r] = None
           /\ \A r \in Request : req[r] # None =>
                  /\ req'[r] = [req[r] EXCEPT !.due = req'[r].due]
                  /\ req'[r].due \subseteq req[r].due
                  /\ \A t \in Tab :
                         t = req[r].tab => \A e \in req'[r].due : e.id \in On(mode[t])'
<1> DEFINE on == [m \in Mode |-> On(m)']
           left(r) == {e \in req[r].due : e.id \in on[mode[req[r].tab]]}
<1>1. /\ due' = [t \in Tab |-> {e \in due[t] : e.id \in on[mode[t]]}]
      /\ req' = [r \in Request |->
             IF req[r] = None THEN None ELSE [req[r] EXCEPT !.due = left(r)]]
      /\ UNCHANGED <<clock, snapshots, mode, pages, cursor, current>>
  BY DEF Changed
<1>2. \A t \in Tab : on[mode[t]] = On(mode[t])'
  BY <1>1 DEF TypeOK
<1> HIDE DEF on
<1>3. ASSUME NEW r \in Request, req[r] # None
      PROVE  /\ req'[r] \in Req /\ req'[r] = [req[r] EXCEPT !.due = req'[r].due]
             /\ req'[r].due \subseteq req[r].due
             /\ \A t \in Tab :
                    t = req[r].tab => \A e \in req'[r].due : e.id \in On(mode[t])'
  <2>1. req[r] \in Req /\ req[r].tab \in Tab
    BY <1>3 DEF TypeOK, Req
  <2>2. req'[r] = [req[r] EXCEPT !.due = left(r)]
    BY <1>1, <1>3
  <2>3. left(r) \subseteq req[r].due /\ req[r].due \subseteq Entry
    BY <2>1 DEF Req
  <2> HIDE DEF left
  <2>4. req'[r] \in Req /\ req'[r].due = left(r)
    BY <2>1, <2>2, <2>3 DEF Req
  <2>5. \A t \in Tab : t = req[r].tab => \A e \in left(r) : e.id \in On(mode[t])'
    BY <1>2, <2>1 DEF left
  <2>6. QED
    BY <2>2, <2>3, <2>4, <2>5
<1>4. \A r \in Request : req[r] = None <=> req'[r] = None
  BY <1>1, <1>3, FeedAssumption
<1>5. req' \in [Request -> Req \cup {None}]
  BY <1>1, <1>3, <1>4
<1>6. /\ due' \in [Tab -> SUBSET Entry]
      /\ \A t \in Tab :
             due'[t] \subseteq due[t] /\ \A e \in due'[t] : e.id \in On(mode[t])'
  BY <1>1, <1>2 DEF TypeOK
<1>7. QED
  BY <1>1, <1>3, <1>4, <1>5, <1>6

(* The kinds of steps.                                                     *)
LEMMA Kinds ==
    ASSUME TypeOK, [Next]_vars
    PROVE  \/ UNCHANGED vars
           \/ Tick
           \/ Changed /\ follows' \subseteq Author \cup Topic
           \/ \E r \in Request :
                  \/ Start(r) \/ Rank(r) \/ Commit(r) \/ Land(r) \/ Fail(r)
                  \/ ReadFollowing(r) \/ ReadRanked(r)
           \/ \E t \in Tab : Flow(t)
BY Commits DEF Next, Handler, Response

(* The rows that a statement freezes are entries, each Moin once.          *)
LEMMA FrozenOK ==
    ASSUME follows \subseteq Author \cup Topic, NEW f \in Pref, NEW scores \in Ranking[f][follows]
    PROVE  Frozen(scores) \subseteq Entry /\ Functional(Frozen(scores))
<1>1. PICK S \in SUBSET Post : scores \in [S -> 0 .. MaxScore]
  BY FeedAssumption
<1>2. Frozen(scores) \subseteq Entry
  BY <1>1 DEF Frozen, Entry
<1>3. Functional(Frozen(scores))
  BY DEF Frozen, Functional
<1>4. QED
  BY <1>2, <1>3

(* A page that is read: entries, at a place of the snapshot or of time.    *)
Reading(r, E, snap, bucket) ==
    /\ req[r] # None
    /\ E \subseteq Entry /\ snap \in Id \cup {None} /\ bucket \in Nat
    /\ Answer(r, E, snap, bucket)
    /\ UNCHANGED <<serverVars, tabVars>>

LEMMA Readings ==
    ASSUME TypeOK, NEW r \in Request
    PROVE  /\ ReadFollowing(r) =>
                  Reading(r, {[id |-> p, score |-> 0] : p \in Post}, None, clock)
           /\ ReadRanked(r) => \E s \in snapshots :
                  /\ s.id = SnapOf(req[r])
                  /\ Reading(r, s.items, s.id, s.bucket)
<1>1. {[id |-> p, score |-> 0] : p \in Post} \subseteq Entry
  BY FeedAssumption DEF Entry
<1>2. \A s \in snapshots : s.items \subseteq Entry /\ s.id \in Id /\ s.bucket \in Nat
  BY DEF TypeOK, SnapshotRow
<1>3. QED
  BY <1>1, <1>2 DEF ReadFollowing, ReadRanked, Reading, TypeOK

(* The page that answers a request, and what its chain is due to show.     *)
PageFor(r, E, snap, bucket) == PageOf(mode[req[r].tab], E, req[r].cursor, snap, bucket)
DueFor(r, E) ==
    IF req[r].cursor # None THEN {} ELSE {e \in E : e.id \in On(mode[req[r].tab])}

LEMMA AnswerPages ==
    ASSUME TypeOK, NEW r \in Request, NEW E, NEW snap, NEW bucket, Reading(r, E, snap, bucket)
    PROVE  /\ PageFor(r, E, snap, bucket) \in Page
           /\ IsPage(PageFor(r, E, snap, bucket),
                     {e \in E : e.id \in On(mode[req[r].tab]) /\ ComesAfter(e, req[r].cursor)},
                     snap)
<1> DEFINE c == req[r].cursor
           m == mode[req[r].tab]
           rows == {e \in E : e.id \in On(m) /\ ComesAfter(e, c)}
           Q == PageOf(m, E, c, snap, bucket)
<1>1. c \in Cursor \cup {None} /\ E \subseteq Entry /\ snap \in Id \cup {None} /\ bucket \in Nat
  BY DEF TypeOK, Reading, Req
<1>2. PageFor(r, E, snap, bucket) = Q
  BY DEF PageFor
<1>3. Q = [items |-> Q.items, bucket |-> bucket, next |-> Q.next]
  BY DEF PageOf
<1> HIDE DEF c, m
<1>4. Q.next \in Cursor \cup {None} /\ IsPage(Q, rows, snap)
  BY <1>1, Pages
<1> HIDE DEF Q
<1>5. Q.items \subseteq Entry
  BY <1>1, <1>4 DEF IsPage
<1> HIDE DEF rows
<1>6. Q \in Page
  BY <1>1, <1>3, <1>4, <1>5 DEF Page
<1>7. QED
  BY <1>2, <1>4, <1>6 DEF rows, c, m

(* What a read makes of the request.                                       *)
LEMMA Answers ==
    ASSUME TypeOK, NEW r \in Request, NEW E, NEW snap, NEW bucket, Reading(r, E, snap, bucket)
    PROVE  /\ req[r] \in Req
           /\ PageFor(r, E, snap, bucket) \in Page
           /\ PageFor(r, E, snap, bucket).bucket = bucket
           /\ PageFor(r, E, snap, bucket).next # None =>
                  PageFor(r, E, snap, bucket).next.snap = snap
           /\ req' = [req EXCEPT ![r] = req'[r]]
           /\ req'[r] \in Req /\ req'[r].tab = req[r].tab /\ req'[r].place = req[r].place
           /\ req'[r].state = "answered" /\ req'[r].cursor = None /\ req'[r].snap = None
           /\ req'[r].page = PageFor(r, E, snap, bucket) /\ req'[r].due = DueFor(r, E)
           /\ UNCHANGED <<serverVars, tabVars>>
<1> DEFINE P == PageFor(r, E, snap, bucket)
           D == DueFor(r, E)
<1>1. /\ req[r] \in Req /\ req[r].cursor \in Cursor \cup {None} /\ E \subseteq Entry
      /\ snap \in Id \cup {None} /\ bucket \in Nat
  BY DEF TypeOK, Reading, Req
<1>2. P \in Page /\ P.bucket = bucket /\ (P.next # None => P.next.snap = snap)
  <2>1. P \in Page
    BY AnswerPages
  <2>2. P.bucket = bucket
    BY DEF PageFor, PageOf
  <2>3. P.next # None => P.next.snap = snap
    <3>1. IsPage(P, {e \in E : e.id \in On(mode[req[r].tab])
                            /\ ComesAfter(e, req[r].cursor)}, snap)
      BY AnswerPages
    <3>2. QED
      BY <3>1 DEF IsPage
  <2>4. QED
    BY <2>1, <2>2, <2>3
<1>3. D \subseteq Entry
  BY <1>1 DEF DueFor
<1>4. req' = [req EXCEPT ![r] =
          [[req[r] EXCEPT !.state = "answered", !.snap = None, !.bucket = 0, !.made = 0,
                          !.pref = None, !.drop = {}, !.items = {}]
              EXCEPT !.cursor = None, !.page = P, !.due = D]]
  BY DEF Reading, Answer, Settled, PageFor, DueFor
<1> HIDE DEF P, D
<1>5. /\ req'[r] \in Req /\ req'[r].tab = req[r].tab /\ req'[r].place = req[r].place
      /\ req'[r].state = "answered" /\ req'[r].page = P /\ req'[r].due = D
      /\ req'[r].cursor = None /\ req'[r].snap = None
  BY <1>1, <1>2, <1>3, <1>4 DEF Req, Stage, TypeOK
<1>6. req' = [req EXCEPT ![r] = req'[r]]
  BY <1>4 DEF TypeOK
<1>7. QED
  BY <1>1, <1>2, <1>3, <1>5, <1>6 DEF Reading, P, D

(* A new request of a tab, for its first page or the one after its last.   *)
Sending(t, r, k) ==
    /\ req[r] = None
    /\ k = 0 \/ (k = Len(pages[t]) /\ k > 0 /\ pages[t][k].next # None)
    /\ req' = [req EXCEPT ![r] = req'[r]]
    /\ req'[r] \in Req /\ req'[r].tab = t /\ req'[r].place = k
    /\ req'[r].cursor = CursorAt(t, k) /\ req'[r].state = "sent"
    /\ req'[r].page = None /\ req'[r].snap = None
    /\ current' = [current EXCEPT ![t] = r]
    /\ cursor' = [cursor EXCEPT ![t] = k]
    /\ UNCHANGED <<serverVars, mode, pages, due>>

LEMMA Sends ==
    ASSUME TypeOK, CurrentOK, NEW t \in Tab, Flow(t)
    PROVE  \E r \in Request, k \in Nat : Sending(t, r, k)
<1>1. pages[t] \in Seq(Page) /\ cursor[t] \in Nat /\ Len(pages[t]) \in Nat
  BY DEF TypeOK
<1>2. ASSUME NEW k \in Nat, Load(t, k, CursorAt(t, k)),
             k = 0 \/ (k = Len(pages[t]) /\ k > 0 /\ pages[t][k].next # None),
             UNCHANGED <<serverVars, mode, pages, due>>
      PROVE  \E r \in Request : Sending(t, r, k)
  <2>1. CursorAt(t, k) \in Cursor \cup {None}
    <3>1. CASE k = 0
      BY <3>1 DEF CursorAt
    <3>2. CASE k # 0
      <4>1. k \in 1 .. Len(pages[t])
        BY <1>1, <1>2, <3>2
      <4>2. pages[t][k] \in Page
        BY <1>1, <4>1, ElementOfSeq
      <4>3. QED
        BY <3>2, <4>2 DEF CursorAt, Page
    <3>3. QED
      BY <3>1, <3>2
  <2>2. PICK r \in Request :
            /\ req[r] = None
            /\ req' = [req EXCEPT ![r] =
                   [tab |-> t, place |-> k, cursor |-> CursorAt(t, k), state |-> "sent",
                    bucket |-> 0, made |-> 0, pref |-> None, snap |-> None, drop |-> {},
                    items |-> {}, page |-> None, due |-> {}]]
            /\ current' = [current EXCEPT ![t] = r]
            /\ cursor' = [cursor EXCEPT ![t] = k]
    BY <1>2 DEF Load
  <2>3. req'[r] = [tab |-> t, place |-> k, cursor |-> CursorAt(t, k), state |-> "sent",
                   bucket |-> 0, made |-> 0, pref |-> None, snap |-> None, drop |-> {},
                   items |-> {}, page |-> None, due |-> {}]
    BY <2>2 DEF TypeOK
  <2>4. req'[r] \in Req
    BY <2>1, <2>3 DEF Req, Stage
  <2>5. req' = [req EXCEPT ![r] = req'[r]]
    BY <2>2, <2>3
  <2>6. /\ req'[r].tab = t /\ req'[r].place = k
        /\ req'[r].cursor = CursorAt(t, k) /\ req'[r].state = "sent"
        /\ req'[r].page = None /\ req'[r].snap = None
    BY <2>3
  <2>7. Sending(t, r, k)
    BY <1>2, <2>2, <2>4, <2>5, <2>6 DEF Sending
  <2>8. QED
    BY <2>7
<1>3. CASE LoadMore(t)
  BY <1>1, <1>2, <1>3 DEF LoadMore, HasMore
<1>4. CASE Retry(t)
  BY <1>1, <1>2, <1>4 DEF Retry, CurrentOK, Waiting
<1>5. CASE ReloadFirstPage(t)
  BY <1>2, <1>5 DEF ReloadFirstPage, CursorAt
<1>6. QED
  BY <1>3, <1>4, <1>5 DEF Flow

(* The chain that an answer makes of the pages before it.                  *)
LEMMA LandingSeq ==
    ASSUME NEW ps \in Seq(Page), NEW q, NEW k \in Nat, q.place = k, q.page \in Page,
           k = 0 \/ k = Len(ps)
    PROVE  /\ Landing(ps, q) \in Seq(Page) /\ Len(Landing(ps, q)) = k + 1
           /\ Landing(ps, q)[k + 1] = q.page
           /\ \A i \in 1 .. k : Landing(ps, q)[i] = ps[i]
<1> DEFINE before == SubSeq(ps, 1, k)
<1>1. Len(ps) \in Nat /\ \A i \in 1 .. k : ps[i] \in Page
  BY ElementOfSeq
<1>2. /\ before \in Seq(Page) /\ Len(before) = k
      /\ \A i \in 1 .. k : before[i] = ps[i]
  <2>1. /\ before \in Seq(Page)
        /\ Len(before) = IF 1 <= k THEN k - 1 + 1 ELSE 0
        /\ \A i \in 1 .. k - 1 + 1 : before[i] = ps[1 + i - 1]
    BY <1>1, SubSeqProperties
  <2>2. QED
    BY <2>1
<1>3. Landing(ps, q) = Append(before, q.page)
  BY DEF Landing
<1> HIDE DEF before
<1>4. QED
  BY <1>2, <1>3

(* The chain that a request's answer will make of its tab's pages.         *)
LEMMA Landings ==
    ASSUME TypeOK, StagesOK, CurrentOK, NEW t \in Tab, NEW r \in Request,
           current[t] = r, req[r].state = "answered"
    PROVE  LET ps == Landing(pages[t], req[r])
               k == cursor[t]
           IN  /\ k = 0 \/ (k = Len(pages[t]) /\ k > 0)
               /\ req[r] \in Req /\ req[r].tab = t /\ req[r].place = k
               /\ req[r].page \in Page /\ LandingDue(due[t], req[r]) \subseteq Entry
               /\ ps \in Seq(Page) /\ Len(ps) = k + 1
               /\ ps[k + 1] = req[r].page
               /\ \A i \in 1 .. k : ps[i] = pages[t][i]
<1> DEFINE k == cursor[t]
<1>1. r # None /\ k \in Nat /\ pages[t] \in Seq(Page) /\ Len(pages[t]) \in Nat
  BY FeedAssumption DEF TypeOK
<1>2. /\ req[r] # None /\ req[r].tab = t /\ req[r].place = k
      /\ k = 0 \/ (k = Len(pages[t]) /\ k > 0)
  BY <1>1 DEF CurrentOK, Waiting
<1>3. req[r] \in Req /\ req[r].page \in Page
  BY <1>2 DEF TypeOK, StagesOK, Staged, Req
<1>4. LandingDue(due[t], req[r]) \subseteq Entry
  BY <1>3 DEF LandingDue, TypeOK, Req
<1> HIDE DEF k
<1>5. /\ Landing(pages[t], req[r]) \in Seq(Page) /\ Len(Landing(pages[t], req[r])) = k + 1
      /\ Landing(pages[t], req[r])[k + 1] = req[r].page
      /\ \A i \in 1 .. k : Landing(pages[t], req[r])[i] = pages[t][i]
  BY <1>1, <1>2, <1>3, LandingSeq
<1>6. QED
  BY <1>1, <1>2, <1>3, <1>4, <1>5 DEF k

LEMMA Lands ==
    ASSUME TypeOK, NEW r \in Request, Land(r)
    PROVE  \E t \in Tab :
               /\ t = req[r].tab /\ current[t] = r /\ req[r].state = "answered"
               /\ pages' = [pages EXCEPT ![t] = Landing(pages[t], req[r])]
               /\ current' = [current EXCEPT ![t] = None]
               /\ due' = [due EXCEPT ![t] = LandingDue(due[t], req[r])]
               /\ req' = [req EXCEPT ![r] = None]
               /\ UNCHANGED <<serverVars, mode, cursor>>
BY DEF Land, Wanted, Landing, LandingDue, TypeOK, Req

(* What a request is past its transaction.                                 *)
LEMMA Settles ==
    ASSUME NEW q \in Req, NEW state \in Stage, NEW snap \in Id \cup {None}
    PROVE  LET n == Settled(q, state, snap) IN
           /\ n \in Req /\ n.state = state /\ n.snap = snap /\ n.bucket = 0
           /\ n.tab = q.tab /\ n.place = q.place /\ n.cursor = q.cursor /\ n.page = q.page
           /\ n.due = q.due
BY DEF Settled, Req

(* A handler that has noted the time.                                      *)
LEMMA Starts ==
    ASSUME TypeOK, NEW r \in Request, Start(r)
    PROVE  LET q == req[r]
               n == req'[r]
           IN  /\ q # None /\ q \in Req /\ q.state = "sent" /\ q.cursor = None
               /\ mode[q.tab] = "for_me" /\ UNCHANGED <<serverVars, tabVars>>
               /\ req' = [req EXCEPT ![r] = n]
               /\ n \in Req /\ n.state = "started" /\ n.bucket = clock
               /\ n.tab = q.tab /\ n.place = q.place /\ n.cursor = None
               /\ n.page = q.page /\ n.snap = q.snap /\ n.due = q.due
<1>1. /\ req[r] # None /\ req[r] \in Req /\ req[r].state = "sent" /\ req[r].cursor = None
      /\ mode[req[r].tab] = "for_me" /\ UNCHANGED <<serverVars, tabVars>> /\ clock \in Nat
  BY DEF Start, TypeOK
<1>2. /\ req'[r] = [req[r] EXCEPT !.state = "started", !.bucket = clock]
      /\ req' = [req EXCEPT ![r] = req'[r]]
  BY DEF Start, TypeOK
<1>3. req'[r] \in Req
  BY <1>1, <1>2 DEF Req, Stage
<1>4. QED
  BY <1>1, <1>2, <1>3 DEF Req

(* What a transaction works with from its statement on.                    *)
LEMMA Ranks ==
    ASSUME TypeOK, NEW r \in Request, Rank(r)
    PROVE  \E kept \in Prunings :
               LET q == req[r]
                   n == req'[r]
               IN  /\ q # None /\ q \in Req /\ q.state = "started" /\ Lockable
                   /\ UNCHANGED <<serverVars, tabVars>>
                   /\ req' = [req EXCEPT ![r] = n]
                   /\ n \in Req /\ n.state = "ranked"
                   /\ n.drop = {s.id : s \in snapshots \ kept}
                   /\ n.tab = q.tab /\ n.place = q.place /\ n.cursor = q.cursor
                   /\ n.bucket = q.bucket /\ n.page = q.page /\ n.due = q.due
                   /\ kept \subseteq snapshots
                   /\ \/ \E s \in kept : s.bucket = q.bucket /\ n.snap = s.id
                      \/ n.snap \in Id /\ Unused(n.snap) /\ Functional(n.items)
<1>1. /\ req[r] # None /\ req[r] \in Req /\ req[r].state = "started" /\ Lockable
      /\ UNCHANGED <<serverVars, tabVars>>
  BY DEF Rank, TypeOK
<1>2. PICK f \in Pref, kept \in Prunings :
          LET drop == {s.id : s \in snapshots \ kept}
              same == {s \in kept : s.pref = f /\ s.bucket = req[r].bucket}
          IN  \/ \E s \in same :
                     req' = [req EXCEPT ![r].state = "ranked", ![r].drop = drop,
                                        ![r].snap = s.id]
              \/ /\ same = {}
                 /\ \E id \in {i \in Id : Unused(i)}, scores \in Ranking[f][follows] :
                        req' = [req EXCEPT ![r].state = "ranked", ![r].drop = drop,
                                           ![r].snap = id, ![r].pref = f, ![r].made = clock,
                                           ![r].items = Frozen(scores)]
  BY DEF Rank
<1> DEFINE drop == {s.id : s \in snapshots \ kept}
<1>3. drop \subseteq Id /\ kept \subseteq snapshots
  BY DEF Prunings, TypeOK, SnapshotRow
<1>4. \/ \E s \in kept : s.bucket = req[r].bucket /\
             req' = [req EXCEPT ![r].state = "ranked", ![r].drop = drop, ![r].snap = s.id]
      \/ \E id \in {i \in Id : Unused(i)}, scores \in Ranking[f][follows] :
             req' = [req EXCEPT ![r].state = "ranked", ![r].drop = drop,
                                ![r].snap = id, ![r].pref = f, ![r].made = clock,
                                ![r].items = Frozen(scores)]
  BY <1>2
<1> HIDE DEF drop
<1>5. ASSUME NEW s \in kept, s.bucket = req[r].bucket,
             req' = [req EXCEPT ![r].state = "ranked", ![r].drop = drop, ![r].snap = s.id]
      PROVE  /\ req' = [req EXCEPT ![r] = req'[r]]
             /\ req'[r] \in Req /\ req'[r].state = "ranked" /\ req'[r].drop = drop
             /\ req'[r].tab = req[r].tab /\ req'[r].place = req[r].place
             /\ req'[r].cursor = req[r].cursor /\ req'[r].bucket = req[r].bucket
             /\ req'[r].page = req[r].page /\ req'[r].due = req[r].due
             /\ \E u \in kept : u.bucket = req[r].bucket /\ req'[r].snap = u.id
  <2>1. req'[r] = [req[r] EXCEPT !.state = "ranked", !.drop = drop, !.snap = s.id]
    BY <1>5 DEF TypeOK
  <2>2. req' = [req EXCEPT ![r] = req'[r]]
    BY <1>5 DEF TypeOK
  <2>3. s.id \in Id
    BY <1>3 DEF TypeOK, SnapshotRow
  <2>4. /\ req'[r] \in Req /\ req'[r].state = "ranked" /\ req'[r].drop = drop
        /\ req'[r].tab = req[r].tab /\ req'[r].place = req[r].place
        /\ req'[r].cursor = req[r].cursor /\ req'[r].bucket = req[r].bucket
        /\ req'[r].page = req[r].page /\ req'[r].due = req[r].due
        /\ req'[r].snap = s.id
    BY <1>1, <1>3, <2>1, <2>3 DEF Req, Stage
  <2>5. QED
    BY <1>5, <2>2, <2>4
<1>6. ASSUME NEW id \in Id, Unused(id), NEW scores \in Ranking[f][follows],
             req' = [req EXCEPT ![r].state = "ranked", ![r].drop = drop, ![r].snap = id,
                                ![r].pref = f, ![r].made = clock, ![r].items = Frozen(scores)]
      PROVE  /\ req' = [req EXCEPT ![r] = req'[r]]
             /\ req'[r] \in Req /\ req'[r].state = "ranked" /\ req'[r].drop = drop
             /\ req'[r].tab = req[r].tab /\ req'[r].place = req[r].place
             /\ req'[r].cursor = req[r].cursor /\ req'[r].bucket = req[r].bucket
             /\ req'[r].page = req[r].page /\ req'[r].due = req[r].due
             /\ req'[r].snap \in Id /\ Unused(req'[r].snap) /\ Functional(req'[r].items)
  <2>1. req'[r] = [req[r] EXCEPT !.state = "ranked", !.drop = drop, !.snap = id,
                                 !.pref = f, !.made = clock, !.items = Frozen(scores)]
    BY <1>6 DEF TypeOK
  <2>2. req' = [req EXCEPT ![r] = req'[r]]
    BY <1>6 DEF TypeOK
  <2>3. Frozen(scores) \subseteq Entry /\ Functional(Frozen(scores))
    BY FrozenOK DEF TypeOK
  <2>4. /\ req'[r] \in Req /\ req'[r].state = "ranked" /\ req'[r].drop = drop
        /\ req'[r].tab = req[r].tab /\ req'[r].place = req[r].place
        /\ req'[r].cursor = req[r].cursor /\ req'[r].bucket = req[r].bucket
        /\ req'[r].page = req[r].page /\ req'[r].due = req[r].due
        /\ req'[r].snap = id /\ req'[r].items = Frozen(scores)
    <3> DEFINE items == Frozen(scores)
    <3> HIDE DEF items
    <3>1. /\ items \subseteq Entry
          /\ req'[r] = [req[r] EXCEPT !.state = "ranked", !.drop = drop, !.snap = id,
                                      !.pref = f, !.made = clock, !.items = items]
      BY <2>1, <2>3 DEF items
    <3>2. /\ req'[r].state = "ranked" /\ req'[r].drop = drop
          /\ req'[r].tab = req[r].tab /\ req'[r].place = req[r].place
          /\ req'[r].cursor = req[r].cursor /\ req'[r].bucket = req[r].bucket
          /\ req'[r].page = req[r].page /\ req'[r].due = req[r].due
          /\ req'[r].snap = id /\ req'[r].items = items
      BY <1>1, <3>1 DEF Req
    <3>3. req'[r] \in Req
      <4>1. clock \in Nat
        BY DEF TypeOK
      <4>2. QED
        BY <1>1, <1>3, <3>1, <4>1 DEF Req, Stage
    <3>4. QED
      BY <3>2, <3>3 DEF items
  <2>5. QED
    BY <1>6, <2>2, <2>3, <2>4
<1>7. /\ req' = [req EXCEPT ![r] = req'[r]]
      /\ req'[r] \in Req /\ req'[r].state = "ranked" /\ req'[r].drop = drop
      /\ req'[r].tab = req[r].tab /\ req'[r].place = req[r].place
      /\ req'[r].cursor = req[r].cursor /\ req'[r].bucket = req[r].bucket
      /\ req'[r].page = req[r].page /\ req'[r].due = req[r].due
      /\ \/ \E s \in kept : s.bucket = req[r].bucket /\ req'[r].snap = s.id
         \/ req'[r].snap \in Id /\ Unused(req'[r].snap) /\ Functional(req'[r].items)
  BY <1>4, <1>5, <1>6
<1>8. QED
  BY <1>1, <1>3, <1>7 DEF drop

-----------------------------------------------------------------------------
(* Every step keeps to the types.                                          *)
LEMMA TypeStep == ASSUME TypeOK, StagesOK, CurrentOK, [Next]_vars PROVE TypeOK'
<1>1. CASE UNCHANGED vars
  BY <1>1 DEF TypeOK, vars, serverVars, tableVars, tabVars
<1>2. CASE Tick
  BY <1>2 DEF TypeOK, Tick, tableVars, tabVars
<1>3. CASE Changed /\ follows' \subseteq Author \cup Topic
  BY <1>3, DueShrinks DEF TypeOK
<1>4. ASSUME NEW r \in Request, Start(r) PROVE TypeOK'
  <2>1. /\ req' = [req EXCEPT ![r] = req'[r]] /\ req'[r] \in Req
        /\ UNCHANGED <<serverVars, tabVars>>
    BY <1>4, Starts
  <2>2. QED
    BY <2>1 DEF TypeOK, serverVars, tableVars, tabVars
<1>5. ASSUME NEW r \in Request, Rank(r) PROVE TypeOK'
  <2>1. /\ req' = [req EXCEPT ![r] = req'[r]] /\ req'[r] \in Req
        /\ UNCHANGED <<serverVars, tabVars>>
    BY <1>5, Ranks
  <2>2. QED
    BY <2>1 DEF TypeOK, serverVars, tableVars, tabVars
<1>6. ASSUME NEW r \in Request, Commit(r) PROVE TypeOK'
  <2>1. req[r] \in Req /\ req[r].snap \in Id
    BY <1>6 DEF Commit, TypeOK, StagesOK, Staged, RankedOK
  <2>2. Snapshot(r) \in SnapshotRow
    BY <2>1 DEF Snapshot, SnapshotRow, Req
  <2>3. snapshots' \subseteq snapshots \cup {Snapshot(r)}
    BY <1>6 DEF Commit
  <2>4. req' \in [Request -> Req \cup {None}]
    BY <1>6, <2>1 DEF Commit, Settled, TypeOK, Req, Stage
  <2>5. QED
    BY <1>6, <2>2, <2>3, <2>4 DEF Commit, TypeOK, tableVars, tabVars
<1>7. ASSUME NEW r \in Request, ReadFollowing(r) \/ ReadRanked(r) PROVE TypeOK'
  <2>1. PICK E, snap, bucket : Reading(r, E, snap, bucket)
    BY <1>7, Readings
  <2>2. /\ req' = [req EXCEPT ![r] = req'[r]] /\ req'[r] \in Req
        /\ UNCHANGED <<serverVars, tabVars>>
    BY <2>1, Answers
  <2>3. QED
    BY <2>2 DEF TypeOK, serverVars, tableVars, tabVars
<1>8. ASSUME NEW r \in Request, Land(r) PROVE TypeOK'
  <2>1. PICK t \in Tab :
            /\ current[t] = r /\ Landing(pages[t], req[r]) \in Seq(Page)
            /\ LandingDue(due[t], req[r]) \subseteq Entry
            /\ pages' = [pages EXCEPT ![t] = Landing(pages[t], req[r])]
            /\ current' = [current EXCEPT ![t] = None]
            /\ due' = [due EXCEPT ![t] = LandingDue(due[t], req[r])]
            /\ req' = [req EXCEPT ![r] = None]
            /\ UNCHANGED <<serverVars, mode, cursor>>
    BY <1>8, Lands, Landings
  <2>2. QED
    BY <2>1 DEF TypeOK, serverVars, tableVars
<1>9. ASSUME NEW r \in Request, Fail(r) PROVE TypeOK'
  BY <1>9 DEF Fail, TypeOK, serverVars, tableVars
<1>10. ASSUME NEW t \in Tab, Flow(t) PROVE TypeOK'
  <2>1. PICK r \in Request, k \in Nat : Sending(t, r, k)
    BY <1>10, Sends
  <2>2. QED
    BY <2>1 DEF TypeOK, Sending, serverVars, tableVars
<1>11. QED
  BY <1>1, <1>2, <1>3, <1>4, <1>5, <1>6, <1>7, <1>8, <1>9, <1>10, Kinds

-----------------------------------------------------------------------------
(* What a transaction leaves when it commits.                              *)
LEMMA Committed ==
    ASSUME TypeOK, StagesOK, NEW r \in Request, Commit(r)
    PROVE  /\ RankedOK(r) /\ req[r].bucket <= clock
           /\ mode[req[r].tab] = "for_me" /\ req[r].cursor = None
           /\ LET rest == {s \in snapshots : s.id \notin req[r].drop} IN
              \/ snapshots' = rest /\ \E s \in rest : s.id = req[r].snap /\ s.bucket = req[r].bucket
              \/ /\ snapshots' = rest \cup {Snapshot(r)}
                 /\ Fresh(req[r].snap, r) /\ Functional(req[r].items)
           /\ req' = [req EXCEPT ![r] = req'[r]]
           /\ req'[r] = Settled(req[r], "page", req[r].snap)
           /\ req'[r] \in Req /\ req'[r].state = "page" /\ req'[r].snap = req[r].snap
           /\ req'[r].tab = req[r].tab /\ req'[r].place = req[r].place
           /\ req'[r].cursor = None /\ req'[r].page = req[r].page /\ req'[r].bucket = 0
           /\ UNCHANGED <<clock, changes, tableVars, tabVars>>
<1>1. req[r] \in Req /\ req[r] # None /\ req[r].state = "ranked"
  BY DEF Commit, TypeOK
<1>2. /\ RankedOK(r) /\ req[r].bucket <= clock /\ mode[req[r].tab] = "for_me"
      /\ req[r].cursor = None
  BY <1>1 DEF StagesOK, Staged
<1> DEFINE rest == {s \in snapshots : s.id \notin req[r].drop}
<1>3. snapshots' = IF \E s \in rest : s.id = req[r].snap THEN rest ELSE rest \cup {Snapshot(r)}
  BY DEF Commit
<1>4. \/ \E s \in rest : s.id = req[r].snap /\ s.bucket = req[r].bucket
      \/ /\ Fresh(req[r].snap, r) /\ Functional(req[r].items)
         /\ ~ \E s \in rest : s.id = req[r].snap
  BY <1>2 DEF RankedOK, Fresh
<1>5. \/ snapshots' = rest /\ \E s \in rest : s.id = req[r].snap /\ s.bucket = req[r].bucket
      \/ /\ snapshots' = rest \cup {Snapshot(r)}
         /\ Fresh(req[r].snap, r) /\ Functional(req[r].items)
  BY <1>3, <1>4
<1>6. req' = [req EXCEPT ![r] = Settled(req[r], "page", req[r].snap)]
  BY DEF Commit
<1>7. /\ req'[r] = Settled(req[r], "page", req[r].snap)
      /\ req' = [req EXCEPT ![r] = req'[r]]
  BY <1>6 DEF TypeOK
<1>8. /\ req'[r] \in Req /\ req'[r].state = "page" /\ req'[r].snap = req[r].snap
      /\ req'[r].tab = req[r].tab /\ req'[r].place = req[r].place
      /\ req'[r].cursor = None /\ req'[r].page = req[r].page /\ req'[r].bucket = 0
  <2>1. req[r].snap \in Id /\ "page" \in Stage
    BY <1>2 DEF RankedOK, Stage
  <2>2. LET n == Settled(req[r], "page", req[r].snap) IN
        /\ n \in Req /\ n.state = "page" /\ n.snap = req[r].snap /\ n.bucket = 0
        /\ n.tab = req[r].tab /\ n.place = req[r].place
        /\ n.cursor = req[r].cursor /\ n.page = req[r].page
    BY <1>1, <2>1, Settles
  <2>3. QED
    BY <1>2, <1>7, <2>2
<1>9. QED
  BY <1>2, <1>5, <1>7, <1>8 DEF Commit

(* Only a commit changes the snapshots, and only time changes the clock.   *)
LEMMA Same ==
    ASSUME TypeOK, StagesOK, CurrentOK, [Next]_vars
    PROVE  /\ mode' = mode
           /\ clock' \in Nat /\ clock' >= clock
           /\ UNCHANGED snapshots \/ \E r \in Request : Commit(r)
<1>1. ASSUME NEW r \in Request, ReadFollowing(r) \/ ReadRanked(r)
      PROVE  UNCHANGED <<serverVars, tabVars>>
  BY <1>1 DEF ReadFollowing, ReadRanked
<1>2. ASSUME NEW t \in Tab, Flow(t) PROVE UNCHANGED <<serverVars, mode>>
  BY <1>2, Sends DEF Sending
<1>3. CASE UNCHANGED vars
  BY <1>3 DEF TypeOK, vars, serverVars, tabVars
<1>4. CASE Tick
  BY <1>4 DEF Tick, TypeOK, tabVars
<1>5. CASE Changed
  BY <1>5, DueShrinks DEF TypeOK
<1>6. ASSUME NEW r \in Request, Start(r) \/ Rank(r) \/ Land(r) \/ Fail(r)
      PROVE  UNCHANGED <<clock, snapshots, mode>>
  BY <1>6 DEF Start, Rank, Land, Fail, serverVars, tabVars
<1>7. ASSUME NEW r \in Request, Commit(r) PROVE UNCHANGED <<clock, mode>>
  BY <1>7 DEF Commit, tabVars
<1>8. QED
  BY <1>1, <1>2, <1>3, <1>4, <1>5, <1>6, <1>7, Kinds DEF serverVars, tabVars, TypeOK

(* Every step keeps identifiers unique and a Moin once in a snapshot.      *)
LEMMA SnapshotsStep ==
    ASSUME TypeOK, StagesOK, CurrentOK, SnapshotsOK, [Next]_vars PROVE SnapshotsOK'
<1>1. CASE UNCHANGED snapshots
  <2>1. \A s \in snapshots : s.bucket \in Nat
    BY DEF TypeOK, SnapshotRow
  <2>2. clock \in Nat /\ clock' \in Nat /\ clock' >= clock
    BY Same DEF TypeOK
  <2>3. QED
    BY <1>1, <2>1, <2>2 DEF SnapshotsOK
<1>2. ASSUME NEW r \in Request, Commit(r) PROVE SnapshotsOK'
  <2>1. RankedOK(r) /\ req[r].bucket <= clock /\ clock' = clock
    BY <1>2, Committed
  <2>2. \/ snapshots' \subseteq snapshots
        \/ /\ snapshots' \subseteq snapshots \cup {Snapshot(r)}
           /\ Fresh(req[r].snap, r) /\ Functional(Snapshot(r).items)
    BY <1>2, Committed DEF Snapshot
  <2>3. Snapshot(r).bucket <= clock
    BY <2>1 DEF Snapshot
  <2>4. Fresh(req[r].snap, r) => \A s \in snapshots : s.id # Snapshot(r).id
    BY DEF Snapshot, Fresh
  <2> HIDE DEF Snapshot
  <2>5. QED
    BY <2>1, <2>2, <2>3, <2>4 DEF SnapshotsOK, Functional
<1>3. QED
  BY <1>1, <1>2, Same

(* Where no request comes to hold the lock, the bound stays as it is.      *)
LEMMA BoundKept ==
    ASSUME BoundOK, UNCHANGED snapshots,
           \A r \in Request : req'[r] # None /\ req'[r].state = "ranked" =>
               req[r] # None /\ req[r].state = "ranked" /\ req'[r].drop = req[r].drop
    PROVE  BoundOK'
BY DEF BoundOK

(* Every step keeps the snapshots within the bound: the statement of the   *)
(* one transaction that holds the lock leaves as many as are retained.     *)
LEMMA BoundStep ==
    ASSUME TypeOK, StagesOK, CurrentOK, BoundOK, [Next]_vars PROVE BoundOK'
<1>1. CASE UNCHANGED vars
  BY <1>1, BoundKept DEF vars, serverVars
<1>2. CASE Tick
  BY <1>2, BoundKept DEF Tick
<1>3. CASE Changed
  <2>1. ASSUME NEW r \in Request, req'[r] # None
        PROVE  req[r] # None /\ req'[r].state = req[r].state /\ req'[r].drop = req[r].drop
    <3>1. /\ req[r] # None
          /\ req'[r] = [req[r] EXCEPT !.due = req'[r].due]
      BY <1>3, <2>1, DueShrinks
    <3>2. req[r] \in Req
      BY <3>1 DEF TypeOK
    <3>3. QED
      BY <3>1, <3>2 DEF Req
  <2>2. QED
    BY <1>3, <2>1, DueShrinks, BoundKept
<1>4. ASSUME NEW r \in Request, Start(r) PROVE BoundOK'
  BY <1>4, BoundKept DEF Start, serverVars, TypeOK, Req
<1>5. ASSUME NEW r \in Request, Rank(r) PROVE BoundOK'
  <2>1. PICK kept \in Prunings :
            /\ Lockable /\ UNCHANGED <<serverVars, tabVars>>
            /\ req' = [req EXCEPT ![r] = req'[r]]
            /\ req'[r].drop = {s.id : s \in snapshots \ kept}
    BY <1>5, Ranks
  <2>2. \A o \in Request : o # r => req'[o] = req[o]
    BY <2>1 DEF TypeOK
  <2>3. \A o \in Request : req[o] # None => req[o].state # "ranked"
    BY <2>1 DEF Lockable
  <2>4. IsFiniteSet(kept) /\ Cardinality(kept) <= Retained
    BY FS_Subset DEF Prunings, BoundOK
  <2>5. {s \in snapshots : s.id \notin req'[r].drop} \in SUBSET kept
    BY <2>1
  <2>6. Cardinality({s \in snapshots : s.id \notin req'[r].drop}) <= Retained
    BY <2>4, <2>5, FS_Subset, FS_CardinalityType, FeedAssumption
  <2>7. UNCHANGED snapshots
    BY <2>1 DEF serverVars
  <2>8. QED
    BY <2>2, <2>3, <2>6, <2>7 DEF BoundOK
<1>6. ASSUME NEW r \in Request, Commit(r) PROVE BoundOK'
  <2> DEFINE rest == {s \in snapshots : s.id \notin req[r].drop}
  <2>1. /\ IsFiniteSet(rest) /\ Cardinality(rest) <= Retained /\ Cardinality(rest) \in Nat
        /\ req[r] # None /\ req[r].state = "ranked"
    BY <1>6, FS_Subset, FS_CardinalityType DEF BoundOK, Commit
  <2>2. snapshots' = rest \/ snapshots' = rest \cup {Snapshot(r)}
    BY <1>6, Committed
  <2> HIDE DEF rest
  <2>3. IsFiniteSet(snapshots') /\ Cardinality(snapshots') <= Retained + 1
    <3>1. CASE snapshots' = rest
      BY <2>1, <3>1, FeedAssumption
    <3>2. CASE snapshots' = rest \cup {Snapshot(r)}
      <4>1. /\ IsFiniteSet(rest \cup {Snapshot(r)})
            /\ \/ Cardinality(rest \cup {Snapshot(r)}) = Cardinality(rest)
               \/ Cardinality(rest \cup {Snapshot(r)}) = Cardinality(rest) + 1
        BY <2>1, FS_AddElement
      <4>2. QED
        BY <2>1, <3>2, <4>1, FeedAssumption
    <3>3. QED
      BY <2>2, <3>1, <3>2
  <2>4. \A o \in Request : req'[o] # None => req'[o].state # "ranked"
    <3>1. \A o \in Request : o # r => req'[o] = req[o]
      BY <1>6, Committed DEF TypeOK
    <3>2. req'[r].state = "page"
      BY <1>6, Committed
    <3>3. QED
      BY <2>1, <3>1, <3>2 DEF BoundOK
  <2>5. QED
    BY <2>3, <2>4 DEF BoundOK
<1>7. ASSUME NEW r \in Request, ReadFollowing(r) \/ ReadRanked(r) PROVE BoundOK'
  <2>1. /\ req' = [req EXCEPT ![r] = req'[r]] /\ req'[r].state = "answered"
        /\ UNCHANGED <<serverVars, tabVars>>
    BY <1>7, Readings, Answers
  <2>2. QED
    BY <2>1, BoundKept DEF serverVars, TypeOK
<1>8. ASSUME NEW r \in Request, Land(r) \/ Fail(r) PROVE BoundOK'
  BY <1>8, BoundKept DEF Land, Fail, serverVars, TypeOK
<1>9. ASSUME NEW t \in Tab, Flow(t) PROVE BoundOK'
  <2>1. PICK r \in Request, k \in Nat : Sending(t, r, k)
    BY <1>9, Sends
  <2>2. QED
    BY <2>1, BoundKept DEF Sending, serverVars, TypeOK
<1>10. QED
  BY <1>1, <1>2, <1>3, <1>4, <1>5, <1>6, <1>7, <1>8, <1>9, Kinds

(* A snapshot that a transaction has found or will insert stays what it    *)
(* is: new requests and answers only name snapshots that exist.            *)
LEMMA RankedKept ==
    ASSUME NEW o \in Request, RankedOK(o), UNCHANGED snapshots,
           req'[o].snap = req[o].snap, req'[o].items = req[o].items,
           req'[o].drop = req[o].drop, req'[o].bucket = req[o].bucket,
           \A t \in Tab : \A i \in 1 .. Len(pages'[t]) :
               \/ \E j \in 1 .. Len(pages[t]) : pages'[t][i] = pages[t][j]
               \/ \E x \in Request :
                      req[x] # None /\ req[x].page # None /\ pages'[t][i] = req[x].page,
           \A x \in Request : req'[x] # None =>
               /\ \/ req'[x].snap = None
                  \/ req[x] # None /\ req'[x].snap = req[x].snap
               /\ req'[x].page # None =>
                      \/ req[x] # None /\ req'[x].page = req[x].page
                      \/ req'[x].page.next # None =>
                             \/ req'[x].page.next.snap = None
                             \/ \E s \in snapshots : s.id = req'[x].page.next.snap
    PROVE  RankedOK(o)'
<1>1. req[o].snap \in Id /\ req[o].snap # None
  BY FeedAssumption DEF RankedOK
<1>2. ASSUME Fresh(req[o].snap, o) PROVE Fresh(req[o].snap, o)'
  <2>1. \A s \in snapshots' : s.id # req'[o].snap
    BY <1>2 DEF Fresh
  <2>2. ASSUME NEW t \in Tab, NEW i \in 1 .. Len(pages'[t]), pages'[t][i].next # None
        PROVE  pages'[t][i].next.snap # req'[o].snap
    BY <1>2, <2>2 DEF Fresh
  <2>3. ASSUME NEW x \in Request, req'[x] # None
        PROVE  /\ x # o => req'[x].snap # req'[o].snap
               /\ req'[x].page # None /\ req'[x].page.next # None =>
                      req'[x].page.next.snap # req'[o].snap
    BY <1>1, <1>2, <2>3 DEF Fresh
  <2>4. QED
    BY <2>1, <2>2, <2>3 DEF Fresh
<1>3. QED
  BY <1>2 DEF RankedOK, Functional

(* A request that a step does not touch has what its stage needs.          *)
LEMMA StagedKept ==
    ASSUME TypeOK, NEW o \in Request, req[o] # None, Staged(req[o]),
           mode' = mode, clock' \in Nat, clock' >= clock,
           req'[o].tab = req[o].tab, req'[o].cursor = req[o].cursor,
           req'[o].state = req[o].state, req'[o].bucket = req[o].bucket,
           req'[o].page = req[o].page
    PROVE  Staged(req[o])'
<1>1. req[o] \in Req /\ clock \in Nat
  BY DEF TypeOK
<1>2. req[o].bucket \in Nat /\ (req[o].page # None => req[o].page.bucket \in Nat)
  BY <1>1 DEF Req, Page
<1>3. QED
  BY <1>1, <1>2 DEF Staged

(* Every step keeps what the stages of a request need.                     *)
LEMMA StagesStep ==
    ASSUME TypeOK, SnapshotsOK, StagesOK, BoundOK, CurrentOK, [Next]_vars PROVE StagesOK'
<1>0. mode' = mode /\ clock' \in Nat /\ clock' >= clock /\ clock \in Nat
  BY Same DEF TypeOK
<1>1. CASE UNCHANGED <<snapshots, req, pages>>
  <2> SUFFICES ASSUME NEW o \in Request, req'[o] # None
               PROVE  Staged(req[o])' /\ (req'[o].state = "ranked" => RankedOK(o)')
    BY DEF StagesOK
  <2>1. req'[o] = req[o] /\ req[o] # None
    BY <1>1
  <2>2. Staged(req[o])'
    BY <1>0, <2>1, StagedKept DEF StagesOK
  <2>3. req'[o].state = "ranked" => RankedOK(o)'
    BY <1>1, <2>1, RankedKept DEF StagesOK
  <2>4. QED
    BY <2>2, <2>3
<1>2. CASE Changed
  <2> SUFFICES ASSUME NEW o \in Request, req'[o] # None
               PROVE  Staged(req[o])' /\ (req'[o].state = "ranked" => RankedOK(o)')
    BY DEF StagesOK
  <2>1. \A x \in Request : req'[x] # None =>
            /\ req[x] # None
            /\ req'[x].tab = req[x].tab /\ req'[x].cursor = req[x].cursor
            /\ req'[x].state = req[x].state /\ req'[x].bucket = req[x].bucket
            /\ req'[x].page = req[x].page /\ req'[x].snap = req[x].snap
            /\ req'[x].items = req[x].items /\ req'[x].drop = req[x].drop
    <3>1. ASSUME NEW x \in Request, req'[x] # None
          PROVE  /\ req[x] # None
                 /\ req'[x].tab = req[x].tab /\ req'[x].cursor = req[x].cursor
                 /\ req'[x].state = req[x].state /\ req'[x].bucket = req[x].bucket
                 /\ req'[x].page = req[x].page /\ req'[x].snap = req[x].snap
                 /\ req'[x].items = req[x].items /\ req'[x].drop = req[x].drop
      <4>1. req[x] # None /\ req[x] \in Req
        BY <1>2, <3>1, DueShrinks DEF TypeOK
      <4>2. PICK d : req'[x] = [req[x] EXCEPT !.due = d]
        BY <1>2, <4>1, DueShrinks
      <4>3. QED
        BY <4>1, <4>2 DEF Req
    <3>2. QED
      BY <3>1
  <2>2. Staged(req[o])'
    BY <1>0, <2>1, StagedKept DEF StagesOK
  <2>3. UNCHANGED <<snapshots, pages>>
    BY <1>2, DueShrinks
  <2>4. req'[o].state = "ranked" => RankedOK(o)'
    BY <2>1, <2>3, RankedKept DEF StagesOK
  <2>5. QED
    BY <2>2, <2>4
<1>3. ASSUME NEW r \in Request, Start(r) PROVE StagesOK'
  <2>1. /\ req[r] # None /\ req[r] \in Req /\ req[r].state = "sent" /\ req[r].page = None
        /\ mode[req[r].tab] = "for_me" /\ req[r].cursor = None
        /\ UNCHANGED <<clock, snapshots, mode, pages>>
    BY <1>3 DEF Start, StagesOK, Staged, TypeOK, serverVars, tabVars
  <2>2. /\ req'[r] = [req[r] EXCEPT !.state = "started", !.bucket = clock]
        /\ \A o \in Request : o # r => req'[o] = req[o]
    BY <1>3 DEF Start, TypeOK
  <2>3. /\ req'[r].state = "started" /\ req'[r].bucket = clock /\ req'[r].tab = req[r].tab
        /\ req'[r].cursor = None /\ req'[r].page = None /\ req'[r].snap = req[r].snap
    BY <2>1, <2>2 DEF Req
  <2>4. Staged(req[r])'
    BY <1>0, <2>1, <2>3 DEF Staged
  <2>5. ASSUME NEW o \in Request, o # r, req[o] # None
        PROVE  Staged(req[o])' /\ (req'[o].state = "ranked" => RankedOK(o)')
    <3>1. Staged(req[o])'
      BY <1>0, <2>2, <2>5, StagedKept DEF StagesOK
    <3>2. req[o].state = "ranked" => RankedOK(o)'
      BY <2>1, <2>2, <2>3, <2>5, RankedKept DEF StagesOK
    <3>3. QED
      BY <2>2, <2>5, <3>1, <3>2
  <2>6. QED
    BY <2>2, <2>3, <2>4, <2>5 DEF StagesOK
<1>4. ASSUME NEW r \in Request, Rank(r) PROVE StagesOK'
  <2>1. PICK kept \in Prunings :
            /\ req[r] # None /\ req[r] \in Req /\ req[r].state = "started" /\ Lockable
            /\ UNCHANGED <<serverVars, tabVars>>
            /\ req' = [req EXCEPT ![r] = req'[r]] /\ req'[r].state = "ranked"
            /\ req'[r].drop = {s.id : s \in snapshots \ kept}
            /\ req'[r].tab = req[r].tab /\ req'[r].cursor = req[r].cursor
            /\ req'[r].bucket = req[r].bucket /\ req'[r].page = req[r].page
            /\ kept \subseteq snapshots
            /\ \/ \E s \in kept : s.bucket = req[r].bucket /\ req'[r].snap = s.id
               \/ req'[r].snap \in Id /\ Unused(req'[r].snap) /\ Functional(req'[r].items)
    BY <1>4, Ranks
  <2>2. /\ \A o \in Request : o # r => req'[o] = req[o]
        /\ UNCHANGED <<snapshots, pages>>
    BY <2>1 DEF TypeOK, serverVars, tabVars
  <2>3. /\ \A o \in Request : req[o] # None => req[o].state # "ranked"
        /\ Staged(req[r])
    BY <2>1 DEF Lockable, StagesOK
  <2>4. Staged(req[r])'
    <3>1. Staged(req[r]) /\ mode' = mode /\ clock' = clock
      BY <1>0, <2>1, <2>3 DEF serverVars
    <3>2. QED
      BY <2>1, <3>1 DEF Staged
  <2>5. RankedOK(r)'
    <3>1. ASSUME NEW s \in kept, s.bucket = req[r].bucket, req'[r].snap = s.id
          PROVE  RankedOK(r)'
      <4>1. s.id \notin req'[r].drop
        BY <2>1 DEF SnapshotsOK
      <4>2. s \in snapshots' /\ s.id \in Id
        BY <2>1, <2>2 DEF TypeOK, SnapshotRow
      <4>3. QED
        BY <2>1, <3>1, <4>1, <4>2 DEF RankedOK
    <3>2. ASSUME req'[r].snap \in Id, Unused(req'[r].snap), Functional(req'[r].items)
          PROVE  RankedOK(r)'
      <4>1. \A o \in Request : req'[o] # None =>
                /\ o # r => req'[o].snap # req'[r].snap
                /\ req'[o].page # None /\ req'[o].page.next # None =>
                       req'[o].page.next.snap # req'[r].snap
        BY <2>1, <2>2, <3>2 DEF Unused
      <4>2. Fresh(req[r].snap, r)'
        BY <2>2, <3>2, <4>1 DEF Unused, Fresh
      <4>3. Functional(req[r].items)'
        BY <3>2 DEF Functional
      <4>4. QED
        BY <3>2, <4>2, <4>3 DEF RankedOK
    <3>3. QED
      BY <2>1, <3>1, <3>2
  <2>6. QED
    BY <1>0, <2>1, <2>2, <2>3, <2>4, <2>5, StagedKept DEF StagesOK
<1>5. ASSUME NEW r \in Request, Commit(r) PROVE StagesOK'
  <2>1. /\ req'[r].state = "page" /\ req'[r].bucket = 0 /\ req'[r].tab = req[r].tab
        /\ req'[r].cursor = None /\ req'[r].page = req[r].page
        /\ mode[req[r].tab] = "for_me"
        /\ \A o \in Request : o # r => req'[o] = req[o]
    BY <1>5, Committed DEF TypeOK
  <2>2. req[r] # None /\ req[r].state = "ranked" /\ req[r].page = None
    BY <1>5 DEF Commit, StagesOK, Staged
  <2>3. Staged(req[r])'
    BY <1>0, <2>1, <2>2 DEF Staged
  <2>4. ASSUME NEW o \in Request, o # r, req[o] # None
        PROVE  Staged(req[o])' /\ req'[o].state # "ranked"
    <3>1. Staged(req[o])'
      BY <1>0, <2>1, <2>4, StagedKept DEF StagesOK
    <3>2. req[o].state # "ranked"
      BY <2>2, <2>4 DEF BoundOK
    <3>3. QED
      BY <2>1, <2>4, <3>1, <3>2
  <2>5. QED
    BY <2>1, <2>3, <2>4 DEF StagesOK
<1>6. ASSUME NEW r \in Request, ReadFollowing(r) \/ ReadRanked(r) PROVE StagesOK'
  <2>1. PICK E, snap, bucket :
            /\ Reading(r, E, snap, bucket)
            /\ bucket <= clock
            /\ snap = None \/ \E s \in snapshots : s.id = snap
    <3>1. CASE ReadFollowing(r)
      <4>1. Reading(r, {[id |-> p, score |-> 0] : p \in Post}, None, clock)
        BY <3>1, Readings
      <4>2. clock <= clock
        BY <1>0
      <4>3. QED
        BY <4>1, <4>2, Zenon
    <3>2. CASE ReadRanked(r)
      <4>1. PICK s \in snapshots : Reading(r, s.items, s.id, s.bucket)
        BY <3>2, Readings
      <4>2. s.bucket <= clock
        BY DEF SnapshotsOK
      <4>3. QED
        BY <4>1, <4>2
    <3>3. QED
      BY <1>6, <3>1, <3>2
  <2>2. /\ UNCHANGED <<serverVars, tabVars>>
        /\ \A o \in Request : o # r => req'[o] = req[o]
        /\ req'[r].state = "answered" /\ req'[r].snap = None /\ req'[r].cursor = None
        /\ req'[r].page # None /\ req'[r].page.bucket <= clock
        /\ req'[r].page.next # None => req'[r].page.next.snap = snap
    BY <2>1, Answers, FeedAssumption DEF TypeOK
  <2>3. Staged(req[r])'
    BY <1>0, <2>2 DEF Staged, serverVars
  <2>4. ASSUME NEW o \in Request, o # r, req[o] # None
        PROVE  Staged(req[o])' /\ (req'[o].state = "ranked" => RankedOK(o)')
    <3>1. Staged(req[o])'
      BY <1>0, <2>2, <2>4, StagedKept DEF StagesOK
    <3>2. req[o].state = "ranked" => RankedOK(o)'
      BY <2>1, <2>2, <2>4, RankedKept DEF StagesOK, serverVars, tabVars
    <3>3. QED
      BY <2>2, <2>4, <3>1, <3>2
  <2>5. QED
    BY <2>2, <2>3, <2>4 DEF StagesOK
<1>7. ASSUME NEW r \in Request, Land(r) PROVE StagesOK'
  <2>1. PICK t \in Tab :
            /\ current[t] = r /\ req[r].state = "answered"
            /\ pages' = [pages EXCEPT ![t] = Landing(pages[t], req[r])]
            /\ req' = [req EXCEPT ![r] = None] /\ UNCHANGED <<serverVars, mode>>
    BY <1>7, Lands
  <2>2. req[r] # None /\ req[r].page # None
    BY <1>7 DEF Land, StagesOK, Staged
  <2>3. \A u \in Tab : \A i \in 1 .. Len(pages'[u]) :
            \/ \E j \in 1 .. Len(pages[u]) : pages'[u][i] = pages[u][j]
            \/ pages'[u][i] = req[r].page
    <3>1. ASSUME NEW u \in Tab, u # t PROVE pages'[u] = pages[u]
      BY <2>1, <3>1 DEF TypeOK
    <3>2. pages'[t] = Landing(pages[t], req[r])
      BY <2>1 DEF TypeOK
    <3>3. /\ cursor[t] = 0 \/ (cursor[t] = Len(pages[t]) /\ cursor[t] > 0)
          /\ Len(Landing(pages[t], req[r])) = cursor[t] + 1
          /\ Landing(pages[t], req[r])[cursor[t] + 1] = req[r].page
          /\ \A i \in 1 .. cursor[t] : Landing(pages[t], req[r])[i] = pages[t][i]
      BY <2>1, Landings
    <3>4. cursor[t] \in Nat /\ Len(pages[t]) \in Nat
      BY DEF TypeOK
    <3>5. ASSUME NEW i \in 1 .. Len(pages'[t])
          PROVE  \/ \E j \in 1 .. Len(pages[t]) : pages'[t][i] = pages[t][j]
                 \/ pages'[t][i] = req[r].page
      <4>1. CASE i = cursor[t] + 1
        BY <3>2, <3>3, <4>1
      <4>2. CASE i # cursor[t] + 1
        <5>1. i \in 1 .. cursor[t] /\ i \in 1 .. Len(pages[t])
          BY <3>2, <3>3, <3>4, <4>2
        <5>2. QED
          BY <3>2, <3>3, <5>1
      <4>3. QED
        BY <4>1, <4>2
    <3>6. QED
      BY <3>1, <3>5
  <2>4. ASSUME NEW o \in Request, req'[o] # None
        PROVE  Staged(req[o])' /\ (req'[o].state = "ranked" => RankedOK(o)')
    <3>1. req'[o] = req[o] /\ \A x \in Request : req'[x] # None => req'[x] = req[x]
      BY <2>1, <2>4 DEF TypeOK
    <3>2. Staged(req[o])'
      BY <1>0, <2>4, <3>1, StagedKept DEF StagesOK
    <3>3. req[o].state = "ranked" => RankedOK(o)'
      BY <2>1, <2>2, <2>3, <2>4, <3>1, RankedKept DEF StagesOK, serverVars
    <3>4. QED
      BY <3>1, <3>2, <3>3
  <2>5. QED
    BY <2>4 DEF StagesOK
<1>8. ASSUME NEW r \in Request, Fail(r) PROVE StagesOK'
  <2>1. /\ UNCHANGED <<snapshots, pages>>
        /\ \A x \in Request : req'[x] # None => req'[x] = req[x]
    BY <1>8 DEF Fail, TypeOK, serverVars
  <2>2. ASSUME NEW o \in Request, req'[o] # None
        PROVE  Staged(req[o])' /\ (req'[o].state = "ranked" => RankedOK(o)')
    <3>1. Staged(req[o])'
      BY <1>0, <2>1, <2>2, StagedKept DEF StagesOK
    <3>2. req[o].state = "ranked" => RankedOK(o)'
      BY <2>1, <2>2, RankedKept DEF StagesOK
    <3>3. QED
      BY <2>1, <2>2, <3>1, <3>2
  <2>3. QED
    BY <2>2 DEF StagesOK
<1>9. ASSUME NEW t \in Tab, Flow(t) PROVE StagesOK'
  <2>1. PICK r \in Request, k \in Nat : Sending(t, r, k)
    BY <1>9, Sends
  <2>2. /\ UNCHANGED <<snapshots, pages>> /\ req[r] = None
        /\ \A o \in Request : o # r => req'[o] = req[o]
        /\ req'[r].state = "sent" /\ req'[r].page = None /\ req'[r].snap = None
    BY <2>1 DEF Sending, TypeOK, serverVars
  <2>3. Staged(req[r])'
    BY <2>2 DEF Staged
  <2>4. ASSUME NEW o \in Request, o # r, req[o] # None
        PROVE  Staged(req[o])' /\ (req'[o].state = "ranked" => RankedOK(o)')
    <3>1. Staged(req[o])'
      BY <1>0, <2>2, <2>4, StagedKept DEF StagesOK
    <3>2. req[o].state = "ranked" => RankedOK(o)'
      BY <2>2, <2>4, RankedKept DEF StagesOK
    <3>3. QED
      BY <2>2, <2>4, <3>1, <3>2
  <2>5. QED
    BY <2>2, <2>3, <2>4 DEF StagesOK
<1>10. QED
  BY <1>1, <1>2, <1>3, <1>4, <1>5, <1>6, <1>7, <1>8, <1>9, Kinds
     DEF vars, serverVars, tabVars, Tick

(* A tab that a step does not touch waits for the same request.            *)
LEMMA WaitingKept ==
    ASSUME NEW t \in Tab, CurrentOK,
           pages'[t] = pages[t], cursor'[t] = cursor[t], current'[t] = current[t],
           current[t] # None =>
               LET q == req[current[t]]
                   n == req'[current[t]]
               IN  /\ n # None /\ n.tab = q.tab /\ n.place = q.place
                   /\ n.state = "sent" => q.state = "sent" /\ n.cursor = q.cursor
                   /\ n.state \in {"started", "ranked", "page"} =>
                          \/ q.state \in {"started", "ranked", "page"}
                          \/ q.state = "sent" /\ q.cursor = None
    PROVE  /\ cursor'[t] > 0 /\ Len(pages'[t]) = cursor'[t] => pages'[t][cursor'[t]].next # None
           /\ current'[t] # None => Waiting(t, req[current[t]], cursor[t])'
<1>1. CursorAt(t, cursor[t])' = CursorAt(t, cursor[t])
  BY DEF CursorAt
<1>2. ASSUME current[t] # None PROVE Waiting(t, req[current[t]], cursor[t])'
  <2>1. Waiting(t, req[current[t]], cursor[t])
    BY <1>2 DEF CurrentOK
  <2>2. req'[current'[t]].state \in {"started", "ranked", "page"} => cursor[t] = 0
    <3>1. ASSUME req[current[t]].state = "sent", req[current[t]].cursor = None, cursor[t] # 0
          PROVE  FALSE
      <4>1. cursor[t] = Len(pages[t]) /\ CursorAt(t, cursor[t]) = None
        BY <2>1, <3>1 DEF Waiting
      <4>2. pages[t][cursor[t]].next = None
        BY <3>1, <4>1 DEF CursorAt
      <4>3. QED
        BY <3>1, <4>1, <4>2 DEF CurrentOK
    <3>2. QED
      BY <1>2, <2>1, <3>1 DEF Waiting
  <2>3. QED
    BY <1>1, <1>2, <2>1, <2>2 DEF Waiting
<1>3. QED
  BY <1>2 DEF CurrentOK

(* Every step keeps to what each tab waits for.                            *)
LEMMA CurrentStep ==
    ASSUME TypeOK, StagesOK, CurrentOK, [Next]_vars PROVE CurrentOK'
<1> DEFINE Kept(t) ==
        /\ cursor'[t] > 0 /\ Len(pages'[t]) = cursor'[t] => pages'[t][cursor'[t]].next # None
        /\ current'[t] # None => Waiting(t, req[current[t]], cursor[t])'
<1>0. (\A t \in Tab : Kept(t)) => CurrentOK'
  BY DEF CurrentOK
<1> HIDE DEF Kept
<1>1. CASE UNCHANGED <<req, tabVars>>
  <2>1. ASSUME NEW t \in Tab PROVE Kept(t)
    BY <1>1, WaitingKept DEF tabVars, Kept, CurrentOK, Waiting
  <2>2. QED
    BY <1>0, <2>1
<1>2. CASE Changed
  <2>1. ASSUME NEW x \in Request, req[x] # None
        PROVE  /\ req'[x] # None
               /\ req'[x].tab = req[x].tab /\ req'[x].place = req[x].place
               /\ req'[x].state = req[x].state /\ req'[x].cursor = req[x].cursor
    <3>1. req'[x] # None /\ req[x] \in Req
      BY <1>2, <2>1, DueShrinks DEF TypeOK
    <3>2. PICK d : req'[x] = [req[x] EXCEPT !.due = d]
      BY <1>2, <2>1, DueShrinks
    <3>3. QED
      BY <3>1, <3>2 DEF Req
  <2>2. ASSUME NEW t \in Tab PROVE Kept(t)
    <3>1. UNCHANGED <<pages, cursor, current>>
      BY <1>2, DueShrinks
    <3>2. current[t] # None => current[t] \in Request /\ req[current[t]] # None
      BY DEF TypeOK, CurrentOK, Waiting
    <3>3. QED
      BY <2>1, <3>1, <3>2, WaitingKept DEF Kept
  <2>3. QED
    BY <1>0, <2>2
<1>3. ASSUME NEW r \in Request, req[r] # None, req' = [req EXCEPT ![r] = req'[r]],
             req'[r] # None, UNCHANGED tabVars,
             req'[r].tab = req[r].tab, req'[r].place = req[r].place,
             req'[r].state = "sent" => req[r].state = "sent" /\ req'[r].cursor = req[r].cursor,
             req'[r].state \in {"started", "ranked", "page"} =>
                 \/ req[r].state \in {"started", "ranked", "page"}
                 \/ req[r].state = "sent" /\ req[r].cursor = None
      PROVE  CurrentOK'
  <2>1. ASSUME NEW t \in Tab PROVE Kept(t)
    <3>1. UNCHANGED <<pages, cursor, current>>
      BY <1>3 DEF tabVars
    <3>2. current[t] # None => current[t] \in Request /\ req[current[t]] # None
      BY DEF TypeOK, CurrentOK, Waiting
    <3>3. \A x \in Request : x # r => req'[x] = req[x]
      BY <1>3 DEF TypeOK
    <3>4. QED
      BY <1>3, <3>1, <3>2, <3>3, WaitingKept DEF Kept
  <2>2. QED
    BY <1>0, <2>1
<1>4. ASSUME NEW r \in Request, Start(r) PROVE CurrentOK'
  <2>1. /\ req[r] # None /\ req[r].state = "sent" /\ req[r].cursor = None
        /\ req' = [req EXCEPT ![r] = req'[r]] /\ req'[r] \in Req /\ req'[r].state = "started"
        /\ req'[r].tab = req[r].tab /\ req'[r].place = req[r].place
        /\ UNCHANGED tabVars
    BY <1>4, Starts
  <2>2. QED
    BY <1>3, <2>1, FeedAssumption
<1>5. ASSUME NEW r \in Request, Rank(r) PROVE CurrentOK'
  <2>1. /\ req[r] # None /\ req[r].state = "started" /\ UNCHANGED tabVars
        /\ req' = [req EXCEPT ![r] = req'[r]] /\ req'[r] \in Req /\ req'[r].state = "ranked"
        /\ req'[r].tab = req[r].tab /\ req'[r].place = req[r].place
    BY <1>5, Ranks
  <2>2. QED
    BY <1>3, <2>1, FeedAssumption
<1>6. ASSUME NEW r \in Request, Commit(r) PROVE CurrentOK'
  <2>1. /\ req' = [req EXCEPT ![r] = req'[r]] /\ req'[r] \in Req /\ req'[r].state = "page"
        /\ req'[r].tab = req[r].tab /\ req'[r].place = req[r].place
        /\ UNCHANGED tabVars
    BY <1>6, Committed
  <2>2. req[r] # None /\ req[r].state = "ranked"
    BY <1>6 DEF Commit
  <2>3. QED
    BY <1>3, <2>1, <2>2, FeedAssumption
<1>7. ASSUME NEW r \in Request, ReadFollowing(r) \/ ReadRanked(r) PROVE CurrentOK'
  <2>1. PICK E, snap, bucket : Reading(r, E, snap, bucket)
    BY <1>7, Readings
  <2>2. /\ req' = [req EXCEPT ![r] = req'[r]] /\ req'[r] \in Req /\ req'[r].state = "answered"
        /\ req'[r].tab = req[r].tab /\ req'[r].place = req[r].place
        /\ UNCHANGED tabVars /\ req[r] # None
    BY <2>1, Answers DEF Reading
  <2>3. QED
    BY <1>3, <2>2, FeedAssumption
<1>8. ASSUME NEW r \in Request, Land(r) PROVE CurrentOK'
  <2>1. PICK t \in Tab :
            /\ t = req[r].tab /\ current[t] = r /\ req[r].state = "answered"
            /\ pages' = [pages EXCEPT ![t] = Landing(pages[t], req[r])]
            /\ current' = [current EXCEPT ![t] = None]
            /\ req' = [req EXCEPT ![r] = None] /\ UNCHANGED cursor
    BY <1>8, Lands
  <2>2. Kept(t)
    <3>1. Len(pages'[t]) = cursor[t] + 1 /\ cursor[t] \in Nat /\ current'[t] = None
      BY <2>1, Landings DEF TypeOK
    <3>2. QED
      BY <2>1, <3>1 DEF Kept
  <2>3. ASSUME NEW u \in Tab, u # t PROVE Kept(u)
    <3>1. current[u] # None => current[u] \in Request /\ req[current[u]].tab = u
      BY DEF TypeOK, CurrentOK, Waiting
    <3>2. current[u] # r
      BY <2>1, <2>3, <3>1, FeedAssumption
    <3>3. current[u] # None => req'[current[u]] = req[current[u]] /\ req[current[u]] # None
      BY <2>1, <3>1, <3>2 DEF TypeOK, CurrentOK, Waiting
    <3>4. pages'[u] = pages[u] /\ cursor'[u] = cursor[u] /\ current'[u] = current[u]
      BY <2>1, <2>3 DEF TypeOK
    <3>5. QED
      BY <3>3, <3>4, WaitingKept DEF Kept
  <2>4. QED
    BY <1>0, <2>2, <2>3
<1>9. ASSUME NEW r \in Request, Fail(r) PROVE CurrentOK'
  <2>1. /\ req' = [req EXCEPT ![r] = None] /\ UNCHANGED <<pages, cursor>>
        /\ current' = IF Wanted(r) THEN [current EXCEPT ![req[r].tab] = None] ELSE current
    BY <1>9 DEF Fail
  <2>2. ASSUME NEW u \in Tab PROVE Kept(u)
    <3>1. current[u] # None => current[u] \in Request /\ Waiting(u, req[current[u]], cursor[u])
      BY DEF TypeOK, CurrentOK
    <3>2. current[u] = r => current'[u] = None
      BY <2>1, <3>1, FeedAssumption DEF Wanted, Waiting, TypeOK
    <3>3. current'[u] = current[u] \/ current'[u] = None
      BY <2>1 DEF TypeOK
    <3>4. CASE current'[u] = None
      BY <2>1, <3>4 DEF Kept, CurrentOK
    <3>5. CASE current'[u] # None
      <4>1. current'[u] = current[u] /\ req'[current[u]] = req[current[u]]
            /\ req[current[u]] # None
        BY <2>1, <3>1, <3>2, <3>3, <3>5 DEF TypeOK, Waiting
      <4>2. QED
        BY <2>1, <4>1, WaitingKept DEF Kept
    <3>6. QED
      BY <3>4, <3>5
  <2>3. QED
    BY <1>0, <2>2
<1>10. ASSUME NEW t \in Tab, Flow(t) PROVE CurrentOK'
  <2>1. PICK r \in Request, k \in Nat : Sending(t, r, k)
    BY <1>10, Sends
  <2>2. /\ req[r] = None /\ req'[r] \in Req /\ req'[r] # None
        /\ \A x \in Request : x # r => req'[x] = req[x]
        /\ \A u \in Tab : u # t => current'[u] = current[u] /\ cursor'[u] = cursor[u]
        /\ current'[t] = r /\ cursor'[t] = k /\ UNCHANGED pages
    BY <2>1, FeedAssumption DEF Sending, TypeOK
  <2>3. Kept(t)
    <3>1. CursorAt(t, k)' = CursorAt(t, k)
      BY <2>2 DEF CursorAt
    <3>2. Waiting(t, req[current[t]], cursor[t])'
      BY <2>1, <2>2, <3>1 DEF Sending, Waiting
    <3>3. QED
      BY <2>1, <2>2, <3>2 DEF Sending, Kept
  <2>4. ASSUME NEW u \in Tab, u # t PROVE Kept(u)
    <3>1. current[u] # None => current[u] \in Request /\ req[current[u]] # None
      BY DEF TypeOK, CurrentOK, Waiting
    <3>2. QED
      BY <2>2, <2>4, <3>1, WaitingKept DEF Kept
  <2>5. QED
    BY <1>0, <2>3, <2>4
<1>11. QED
  BY <1>1, <1>2, <1>4, <1>5, <1>6, <1>7, <1>8, <1>9, <1>10, Kinds DEF vars, Tick, serverVars

-----------------------------------------------------------------------------
(* The bucket of a first page is a number.                                 *)
LEMMA Buckets ==
    ASSUME TypeOK, NEW t \in Tab, pages[t] # <<>>
    PROVE  pages[t][1] \in Page /\ pages[t][1].bucket \in Nat /\ Len(pages[t]) \in Nat \ {0}
<1>1. pages[t] \in Seq(Page)
  BY DEF TypeOK
<1>2. Len(pages[t]) \in Nat \ {0}
  BY <1>1, EmptySeq
<1>3. pages[t][1] \in Page
  BY <1>1, <1>2, ElementOfSeq
<1>4. QED
  BY <1>2, <1>3 DEF Page

(* The answer that a tab waits for comes from a snapshot, or from a time,  *)
(* at least as late as the first page shown.                               *)
LEMMA NoOlderStep ==
    ASSUME TypeOK, SnapshotsOK, StagesOK, CurrentOK, AgesOK,
           NEW t \in Tab, pages[t] # <<>>, current[t] # None, cursor[t] = 0,
           pages'[t] = pages[t], current'[t] = current[t],
           \/ UNCHANGED snapshots /\ req'[current[t]] = req[current[t]]
           \/ Changed
           \/ \E r \in Request :
                  Start(r) \/ Rank(r) \/ Commit(r) \/ ReadFollowing(r) \/ ReadRanked(r)
    PROVE  NoOlder(req[current[t]], pages[t][1].bucket)'
<1> DEFINE c == current[t]
           b == pages[t][1].bucket
<1>1. /\ c \in Request /\ req[c] # None /\ req[c] \in Req /\ Waiting(t, req[c], 0)
      /\ NoOlder(req[c], b) /\ b \in Nat /\ b <= clock /\ Staged(req[c])
      /\ clock \in Nat
  BY Buckets DEF TypeOK, CurrentOK, AgesOK, Waiting, StagesOK
<1>2. ASSUME req'[c].state = req[c].state, req'[c].bucket = req[c].bucket,
             req'[c].snap = req[c].snap, req'[c].page = req[c].page,
             \A s \in snapshots' : s.id = req[c].snap => s \in snapshots
      PROVE  NoOlder(req[c], b)'
  BY <1>1, <1>2 DEF NoOlder
<1>3. CASE UNCHANGED snapshots /\ req'[c] = req[c]
  BY <1>2, <1>3
<1>4. CASE Changed
  <2>1. UNCHANGED snapshots /\ \E d : req'[c] = [req[c] EXCEPT !.due = d]
    BY <1>1, <1>4, DueShrinks
  <2>2. /\ req'[c].state = req[c].state /\ req'[c].bucket = req[c].bucket
        /\ req'[c].snap = req[c].snap /\ req'[c].page = req[c].page
    BY <1>1, <2>1 DEF Req
  <2>3. QED
    BY <1>2, <2>1, <2>2
<1>5. ASSUME NEW r \in Request, r # c, req' = [req EXCEPT ![r] = req'[r]], UNCHANGED snapshots
      PROVE  NoOlder(req[c], b)'
  <2>1. req'[c] = req[c]
    BY <1>1, <1>5 DEF TypeOK
  <2>2. QED
    BY <1>3, <1>5, <2>1
<1>6. ASSUME NEW r \in Request, Start(r) PROVE NoOlder(req[c], b)'
  <2>1. /\ req' = [req EXCEPT ![r] = req'[r]] /\ UNCHANGED <<serverVars, tabVars>>
        /\ req'[r].state = "started" /\ req'[r].bucket = clock
    BY <1>6, Starts
  <2>2. CASE r = c
    BY <1>1, <2>1, <2>2 DEF NoOlder
  <2>3. CASE r # c
    BY <1>5, <2>1, <2>3 DEF serverVars
  <2>4. QED
    BY <2>2, <2>3
<1>7. ASSUME NEW r \in Request, Rank(r) PROVE NoOlder(req[c], b)'
  <2>1. /\ req' = [req EXCEPT ![r] = req'[r]] /\ UNCHANGED <<serverVars, tabVars>>
        /\ req[r].state = "started" /\ req'[r].state = "ranked"
        /\ req'[r].bucket = req[r].bucket
    BY <1>7, Ranks
  <2>2. CASE r = c
    BY <1>1, <2>1, <2>2 DEF NoOlder
  <2>3. CASE r # c
    BY <1>5, <2>1, <2>3 DEF serverVars
  <2>4. QED
    BY <2>2, <2>3
<1>8. ASSUME NEW r \in Request, Commit(r) PROVE NoOlder(req[c], b)'
  <2> DEFINE rest == {s \in snapshots : s.id \notin req[r].drop}
  <2>1. /\ req' = [req EXCEPT ![r] = req'[r]] /\ req'[r].state = "page"
        /\ req'[r].snap = req[r].snap
        /\ \/ snapshots' = rest /\ \E s \in rest : s.id = req[r].snap /\ s.bucket = req[r].bucket
           \/ snapshots' = rest \cup {Snapshot(r)} /\ Fresh(req[r].snap, r)
    BY <1>8, Committed
  <2>2. req[r].state = "ranked"
    BY <1>8 DEF Commit
  <2>3. Snapshot(r).id = req[r].snap /\ Snapshot(r).bucket = req[r].bucket
    BY DEF Snapshot
  <2> HIDE DEF Snapshot
  <2>4. CASE r = c
    <3>1. \A s \in snapshots' : s.id = req[r].snap => s.bucket = req[r].bucket
      BY <2>1, <2>3 DEF SnapshotsOK, Fresh
    <3>2. req[c].bucket >= b
      BY <1>1, <2>2, <2>4 DEF NoOlder
    <3>3. QED
      BY <2>1, <2>4, <3>1, <3>2 DEF NoOlder
  <2>5. CASE r # c
    <3>1. req'[c] = req[c]
      BY <1>1, <2>1, <2>5 DEF TypeOK
    <3>2. \A s \in snapshots' : s.id = req[c].snap => s \in snapshots
      BY <1>1, <2>1, <2>3, <2>5 DEF Fresh
    <3>3. QED
      BY <1>2, <3>1, <3>2
  <2>6. QED
    BY <2>4, <2>5
<1>9. ASSUME NEW r \in Request, ReadFollowing(r) \/ ReadRanked(r) PROVE NoOlder(req[c], b)'
  <2>1. PICK E, snap, bucket :
            /\ Reading(r, E, snap, bucket)
            /\ r = c => bucket >= b
    <3>1. CASE ReadFollowing(r)
      <4>1. Reading(r, {[id |-> p, score |-> 0] : p \in Post}, None, clock)
        BY <3>1, Readings
      <4>2. clock >= b
        BY <1>1
      <4>3. QED
        BY <4>1, <4>2, Zenon
    <3>2. CASE ReadRanked(r)
      <4>1. PICK s \in snapshots :
                s.id = SnapOf(req[r]) /\ Reading(r, s.items, s.id, s.bucket)
        BY <3>2, Readings
      <4>2. ASSUME r = c PROVE s.bucket >= b
        <5>1. req[c].cursor = None
          BY <1>1, <3>2, <4>2 DEF Waiting, CursorAt, ReadRanked
        <5>2. req[c].state = "page" /\ s.id = req[c].snap
          BY <3>2, <4>1, <4>2, <5>1 DEF ReadRanked, SnapOf
        <5>3. QED
          BY <1>1, <5>2 DEF NoOlder
      <4>3. QED
        BY <4>1, <4>2
    <3>3. QED
      BY <1>9, <3>1, <3>2
  <2>2. /\ req' = [req EXCEPT ![r] = req'[r]] /\ UNCHANGED <<serverVars, tabVars>>
        /\ req'[r].state = "answered" /\ req'[r].page.bucket = bucket
    BY <2>1, Answers
  <2>3. CASE r = c
    BY <1>1, <2>1, <2>2, <2>3 DEF NoOlder
  <2>4. CASE r # c
    BY <1>5, <2>2, <2>4 DEF serverVars
  <2>5. QED
    BY <2>3, <2>4
<1>10. QED
  BY <1>3, <1>4, <1>6, <1>7, <1>8, <1>9

(* Every step keeps to the ages, and shows no older first page.            *)
LEMMA AgesStep ==
    ASSUME TypeOK, SnapshotsOK, StagesOK, CurrentOK, AgesOK, [Next]_vars
    PROVE  /\ AgesOK'
           /\ \A t \in Tab :
                  pages[t] # <<>> => pages'[t][1].bucket >= pages[t][1].bucket
<1> DEFINE Aged(t) ==
        /\ pages'[t] # <<>> =>
               /\ pages'[t][1].bucket <= clock'
               /\ current'[t] # None /\ cursor'[t] = 0 =>
                      NoOlder(req[current[t]], pages[t][1].bucket)'
        /\ pages[t] # <<>> => pages'[t][1].bucket >= pages[t][1].bucket
<1>0. (\A t \in Tab : Aged(t)) =>
          /\ AgesOK'
          /\ \A t \in Tab : pages[t] # <<>> => pages'[t][1].bucket >= pages[t][1].bucket
  BY DEF AgesOK
<1> HIDE DEF Aged
<1>1. clock \in Nat /\ clock' \in Nat /\ clock' >= clock
  BY Same DEF TypeOK
<1>2. ASSUME NEW t \in Tab, pages'[t] = pages[t],
             \/ current'[t] = None
             \/ cursor'[t] # 0
             \/ req'[current'[t]].state = "sent"
             \/ /\ current'[t] = current[t] /\ cursor'[t] = cursor[t]
                /\ \/ UNCHANGED snapshots /\ req'[current[t]] = req[current[t]]
                   \/ Changed
                   \/ \E r \in Request :
                          Start(r) \/ Rank(r) \/ Commit(r) \/ ReadFollowing(r) \/ ReadRanked(r)
      PROVE  Aged(t)
  <2>1. pages[t] # <<>> =>
            pages[t][1].bucket \in Nat /\ pages[t][1].bucket <= clock
    BY Buckets DEF AgesOK
  <2>2. ASSUME req'[current'[t]].state = "sent"
        PROVE  NoOlder(req[current[t]], pages[t][1].bucket)'
    BY <2>2 DEF NoOlder
  <2>3. pages[t] # <<>> /\ current'[t] # None /\ cursor'[t] = 0 =>
            NoOlder(req[current[t]], pages[t][1].bucket)'
    BY <1>2, <2>2, NoOlderStep
  <2>4. QED
    BY <1>1, <1>2, <2>1, <2>3 DEF Aged
<1>3. CASE UNCHANGED <<snapshots, req, tabVars>>
  BY <1>0, <1>2, <1>3 DEF tabVars
<1>4. CASE Changed
  <2>1. UNCHANGED <<pages, cursor, current>>
    BY <1>4, DueShrinks
  <2>2. QED
    BY <1>0, <1>2, <1>4, <2>1
<1>5. ASSUME NEW r \in Request,
             Start(r) \/ Rank(r) \/ Commit(r) \/ ReadFollowing(r) \/ ReadRanked(r)
      PROVE  \A t \in Tab : Aged(t)
  <2>1. UNCHANGED tabVars
    BY <1>5 DEF Start, Rank, Commit, ReadFollowing, ReadRanked
  <2>2. QED
    BY <1>2, <1>5, <2>1 DEF tabVars
<1>6. ASSUME NEW r \in Request, Land(r) PROVE \A t \in Tab : Aged(t)
  <2>1. PICK t \in Tab :
            /\ t = req[r].tab /\ current[t] = r /\ req[r].state = "answered"
            /\ pages' = [pages EXCEPT ![t] = Landing(pages[t], req[r])]
            /\ current' = [current EXCEPT ![t] = None]
            /\ req' = [req EXCEPT ![r] = None] /\ UNCHANGED <<serverVars, cursor>>
    BY <1>6, Lands
  <2>2. Aged(t)
    <3>1. req[r] # None /\ Staged(req[r]) /\ req[r].page # None
      BY <1>6, <2>1 DEF Land, StagesOK, Staged
    <3>2. /\ pages'[t] = Landing(pages[t], req[r]) /\ current'[t] = None /\ clock' = clock
          /\ cursor[t] \in Nat
      BY <2>1 DEF TypeOK, serverVars
    <3>3. CASE cursor[t] = 0
      <4>1. pages'[t][1] = req[r].page /\ req[r].page \in Page
        BY <2>1, <3>2, <3>3, Landings
      <4>2. req[r].page.bucket <= clock
        BY <3>1 DEF Staged
      <4>3. pages[t] # <<>> => req[r].page.bucket >= pages[t][1].bucket
        BY <2>1, <3>3, FeedAssumption DEF AgesOK, NoOlder
      <4>4. QED
        BY <3>2, <4>1, <4>2, <4>3 DEF Aged
    <3>4. CASE cursor[t] # 0
      <4>1. /\ cursor[t] = Len(pages[t]) /\ cursor[t] > 0
            /\ Landing(pages[t], req[r])[1] = pages[t][1]
        <5>1. /\ cursor[t] = Len(pages[t]) /\ cursor[t] > 0
              /\ \A i \in 1 .. cursor[t] : Landing(pages[t], req[r])[i] = pages[t][i]
          BY <2>1, <3>4, Landings
        <5>2. 1 \in 1 .. cursor[t]
          BY <3>2, <5>1
        <5>3. QED
          BY <5>1, <5>2
      <4>2. pages[t] # <<>>
        BY <4>1, EmptySeq
      <4>3. pages[t][1].bucket <= clock /\ pages[t][1].bucket \in Nat
        BY <4>2, Buckets DEF AgesOK
      <4>4. QED
        BY <3>2, <4>1, <4>3 DEF Aged
    <3>5. QED
      BY <3>3, <3>4
  <2>3. ASSUME NEW u \in Tab, u # t PROVE Aged(u)
    <3>1. current[u] # None => current[u] \in Request /\ req[current[u]].tab = u
      BY DEF TypeOK, CurrentOK, Waiting
    <3>2. current[u] # r
      BY <2>1, <2>3, <3>1, FeedAssumption
    <3>3. current[u] # None => req'[current[u]] = req[current[u]]
      BY <2>1, <3>1, <3>2 DEF TypeOK
    <3>4. /\ pages'[u] = pages[u] /\ cursor'[u] = cursor[u] /\ current'[u] = current[u]
          /\ UNCHANGED snapshots
      BY <2>1, <2>3 DEF TypeOK, serverVars
    <3>5. QED
      BY <1>2, <3>3, <3>4
  <2>4. QED
    BY <2>2, <2>3
<1>7. ASSUME NEW r \in Request, Fail(r) PROVE \A t \in Tab : Aged(t)
  <2>1. /\ req' = [req EXCEPT ![r] = None] /\ UNCHANGED <<pages, cursor, snapshots>>
        /\ current' = IF Wanted(r) THEN [current EXCEPT ![req[r].tab] = None] ELSE current
    BY <1>7 DEF Fail, serverVars
  <2>2. ASSUME NEW u \in Tab PROVE Aged(u)
    <3>1. current[u] # None => current[u] \in Request /\ Waiting(u, req[current[u]], cursor[u])
      BY DEF TypeOK, CurrentOK
    <3>2. current[u] = r => current'[u] = None
      BY <2>1, <3>1, FeedAssumption DEF Wanted, Waiting, TypeOK
    <3>3. current'[u] = current[u] \/ current'[u] = None
      BY <2>1 DEF TypeOK
    <3>4. current'[u] # None => req'[current[u]] = req[current[u]]
      BY <2>1, <3>1, <3>2, <3>3 DEF TypeOK
    <3>5. QED
      BY <1>2, <2>1, <3>3, <3>4
  <2>3. QED
    BY <2>2
<1>8. ASSUME NEW t \in Tab, Flow(t) PROVE \A u \in Tab : Aged(u)
  <2>1. PICK r \in Request, k \in Nat : Sending(t, r, k)
    BY <1>8, Sends
  <2>2. /\ req[r] = None /\ req'[r].state = "sent" /\ UNCHANGED <<pages, snapshots>>
        /\ \A x \in Request : x # r => req'[x] = req[x]
        /\ \A u \in Tab : u # t => current'[u] = current[u] /\ cursor'[u] = cursor[u]
        /\ current'[t] = r
    BY <2>1 DEF Sending, TypeOK, serverVars
  <2>3. ASSUME NEW u \in Tab, u # t, current[u] # None
        PROVE  req'[current[u]] = req[current[u]]
    BY <2>2, <2>3 DEF TypeOK, CurrentOK, Waiting
  <2>4. QED
    BY <1>2, <2>2, <2>3
<1>9. QED
  BY <1>0, <1>3, <1>4, <1>5, <1>6, <1>7, <1>8, Kinds DEF vars, Tick, serverVars

-----------------------------------------------------------------------------
(* A chain stays one when less is due, and when no snapshot comes by that  *)
(* its cursors name.                                                       *)
LEMMA ChainKept ==
    ASSUME NEW m, NEW ps, NEW D, NEW S, NEW F, NEW R, NEW on, NEW now,
           Chain(m, ps, D, S, on),
           F \subseteq D, \A e \in F : e.id \in now,
           \A s \in R : (\E i \in 1 .. Len(ps) : ps[i].next # None /\ ps[i].next.snap = s.id)
               => s \in S
    PROVE  Chain(m, ps, F, R, now)
<1>1. ShownBy(ps) \cup F \subseteq ShownBy(ps) \cup D
  OBVIOUS
<1>2. Functional(ShownBy(ps) \cup F)
  BY <1>1 DEF Chain, ChainOK, Functional
<1>3. \A i \in 1 .. Len(ps) :
          ps[i].next # None => From(m, ShownBy(ps) \cup F, ps[i].next.snap, R)
  BY <1>1 DEF Chain, ChainOK, From
<1>4. \A i \in 1 .. Len(ps) : \A e \in F :
          ps[i].next = None \/ ~ ComesAfter(e, ps[i].next) => \E j \in 1 .. i : e \in ps[j].items
  BY DEF Chain, ChainOK
<1>5. QED
  BY <1>2, <1>3, <1>4 DEF Chain, ChainOK

(* A first page makes a chain of what is on the Flow.                      *)
LEMMA ChainStarts ==
    ASSUME NEW m, NEW ps, Len(ps) = 1, NEW E, NEW S, NEW on, NEW snap,
           IsPage(ps[1], {e \in E : e.id \in on}, snap),
           Functional(E), From(m, E, snap, S)
    PROVE  Chain(m, ps, {e \in E : e.id \in on}, S, on)
<1> DEFINE rows == {e \in E : e.id \in on}
<1>1. \A i \in 1 .. Len(ps) : i = 1
  OBVIOUS
<1>2. ShownBy(ps) = ps[1].items /\ ps[1].items \subseteq rows /\ rows \subseteq E
  BY <1>1 DEF ShownBy, IsPage
<1> HIDE DEF rows
<1>3. Functional(ShownBy(ps) \cup rows)
  BY <1>2 DEF Functional
<1>4. \A i \in 1 .. Len(ps) :
          ps[i].next # None => From(m, ShownBy(ps) \cup rows, ps[i].next.snap, S)
  BY <1>1, <1>2 DEF From, IsPage
<1>5. \A i \in 1 .. Len(ps) : \A e \in rows :
          ps[i].next = None \/ ~ ComesAfter(e, ps[i].next) => \E j \in 1 .. i : e \in ps[j].items
  BY <1>1 DEF IsPage, rows
<1>6. \A i \in 1 .. Len(ps) :
          ps[i].next # None =>
              /\ \A e \in ps[i].items : ~ ComesAfter(e, ps[i].next)
              /\ \E e \in ps[i].items : e.id = ps[i].next.id /\ e.score = ps[i].next.score
  BY <1>1 DEF IsPage
<1>7. \A e \in rows : e.id \in on
  BY DEF rows
<1>8. QED
  BY <1>1, <1>3, <1>4, <1>5, <1>6, <1>7 DEF Chain, ChainOK, rows

(* The page after the last cursor goes on with its chain.                  *)
LEMMA ChainGrows ==
    ASSUME NEW m, NEW k \in Nat, k > 0, NEW ps \in Seq(Page), Len(ps) = k, NEW next, Len(next) = k + 1,
           \A i \in 1 .. k : next[i] = ps[i],
           NEW D, NEW E, E \subseteq Entry, NEW S, NEW on, NEW snap,
           Chain(m, ps, D, S, on), ps[k].next # None, ps[k].next.snap = snap,
           IsPage(next[k + 1], {e \in E : e.id \in on /\ ComesAfter(e, ps[k].next)}, snap),
           Functional(E), From(m, E, snap, S), ShownBy(ps) \cup D \subseteq E
    PROVE  Chain(m, next, D, S, on)
<1> DEFINE P == next[k + 1]
           c == ps[k].next
           rows == {e \in E : e.id \in on /\ ComesAfter(e, c)}
<1>1. /\ P.items \subseteq rows /\ rows \subseteq E
      /\ \A e \in P.items : ComesAfter(e, c)
  BY DEF IsPage
<1>2. \A i \in 1 .. Len(next) : i \in 1 .. k \/ i = k + 1
  OBVIOUS
<1>3. ShownBy(next) = ShownBy(ps) \cup P.items
  <2>1. \A e : e \in ShownBy(next) <=> \E i \in 1 .. Len(next) : e \in next[i].items
    BY DEF ShownBy
  <2>2. \A e : e \in ShownBy(ps) <=> \E i \in 1 .. k : e \in ps[i].items
    BY DEF ShownBy
  <2>3. k + 1 \in 1 .. Len(next) /\ \A i \in 1 .. k : i \in 1 .. Len(next)
    OBVIOUS
  <2>4. QED
    BY <1>2, <2>1, <2>2, <2>3
<1> HIDE DEF P, c, rows
<1>4. ShownBy(next) \cup D \subseteq E
  BY <1>1, <1>3
<1>5. Functional(ShownBy(next) \cup D)
  BY <1>4 DEF Functional
<1>6. \A i \in 1 .. k : ps[i].next # None => ps[i].next.snap = snap
  BY DEF Chain, ChainOK
<1>7. P.next # None => P.next.snap = snap
  BY DEF IsPage, P
<1>8. \A i \in 1 .. Len(next) : next[i].next # None => next[i].next.snap = snap
  BY <1>2, <1>6, <1>7 DEF P
<1>9. From(m, ShownBy(next) \cup D, snap, S)
  BY <1>4 DEF From
<1>10. \A i \in 1 .. Len(next) : i < Len(next) => next[i].next # None
  BY <1>2 DEF Chain, ChainOK
<1>11. ASSUME NEW i \in 1 .. Len(next), NEW j \in 1 .. Len(next), i < j, NEW e \in next[j].items
       PROVE  ComesAfter(e, next[i].next)
  <2>1. CASE j \in 1 .. k
    BY <1>2, <1>11, <2>1 DEF Chain, ChainOK
  <2>2. CASE j = k + 1
    <3>1. i \in 1 .. k /\ next[i] = ps[i] /\ e \in P.items
      BY <1>2, <1>11, <2>2 DEF P
    <3>2. CASE i = k
      BY <1>1, <3>1, <3>2 DEF c
    <3>3. CASE i < k
      <4>1. ComesAfter(e, c)
        BY <1>1, <3>1
      <4>2. PICK f \in ps[k].items : f.id = c.id /\ f.score = c.score
        BY DEF Chain, ChainOK, c
      <4>3. ComesAfter(f, ps[i].next)
        BY <3>1, <3>3, <4>2 DEF Chain, ChainOK
      <4>4. ps[i] \in Page /\ ps[k] \in Page /\ ps[i].next # None
        BY <3>1, <3>3, ElementOfSeq DEF Chain, ChainOK
      <4>5. /\ ps[i].next.score \in Nat /\ ps[i].next.id \in Nat
            /\ c.score \in Nat /\ c.id \in Nat
        BY <4>4, FeedAssumption DEF Page, Cursor, Post, c
      <4>6. e \in Entry
        BY <1>1, <3>1
      <4>7. e.score \in Nat /\ e.id \in Nat
        BY <4>6, FeedAssumption DEF Entry, Post
      <4>8. \/ f.score < ps[i].next.score
            \/ f.score = ps[i].next.score /\ f.id < ps[i].next.id
        BY <4>3, <4>4 DEF ComesAfter
      <4>9. e.score < c.score \/ (e.score = c.score /\ e.id < c.id)
        BY <4>1 DEF ComesAfter, c
      <4>10. \/ e.score < ps[i].next.score
             \/ e.score = ps[i].next.score /\ e.id < ps[i].next.id
        BY <4>2, <4>5, <4>7, <4>8, <4>9
      <4>11. QED
        BY <3>1, <4>10 DEF ComesAfter
    <3>4. QED
      BY <3>1, <3>2, <3>3
  <2>3. QED
    BY <1>2, <2>1, <2>2
<1>12. \A i \in 1 .. Len(next) :
           next[i].next # None =>
               /\ \A e \in next[i].items : ~ ComesAfter(e, next[i].next)
               /\ \E e \in next[i].items : e.id = next[i].next.id /\ e.score = next[i].next.score
  BY <1>2 DEF Chain, ChainOK, IsPage
<1>13. ASSUME NEW i \in 1 .. Len(next), NEW e \in D,
              next[i].next = None \/ ~ ComesAfter(e, next[i].next)
       PROVE  \E j \in 1 .. i : e \in next[j].items
  <2>1. CASE i \in 1 .. k
    BY <1>13, <2>1 DEF Chain, ChainOK
  <2>2. CASE i = k + 1
    <3>1. CASE ComesAfter(e, c)
      <4>1. e \in rows
        BY <3>1 DEF rows, Chain
      <4>2. e \in P.items
        BY <1>13, <2>2, <4>1 DEF IsPage, P, rows, c
      <4>3. QED
        BY <2>2, <4>2 DEF P
    <3>2. CASE ~ ComesAfter(e, c)
      <4>1. PICK j \in 1 .. k : e \in ps[j].items
        BY <3>2 DEF Chain, ChainOK, c
      <4>2. QED
        BY <2>2, <4>1
    <3>3. QED
      BY <3>1, <3>2
  <2>3. QED
    BY <1>2, <2>1, <2>2
<1>14. QED
  BY <1>5, <1>8, <1>9, <1>10, <1>11, <1>12, <1>13 DEF Chain, ChainOK

(* What the answer to the request that a tab waits for is read from.       *)
LEMMA Sources ==
    ASSUME TypeOK, SnapshotsOK, StagesOK, CurrentOK, ChainsOK,
           NEW t \in Tab, NEW r \in Request, current[t] = r, ReadFollowing(r) \/ ReadRanked(r)
    PROVE  \E E, snap, bucket :
               /\ Reading(r, E, snap, bucket)
               /\ E \subseteq Entry /\ Functional(E) /\ From(mode[t], E, snap, snapshots)
               /\ cursor[t] = 0 => req[r].cursor = None
               /\ cursor[t] # 0 =>
                      LET c == pages[t][cursor[t]].next IN
                      /\ cursor[t] = Len(pages[t])
                      /\ c # None /\ req[r].cursor = c /\ c.snap = snap
                      /\ ShownBy(pages[t]) \cup due[t] \subseteq E
<1> DEFINE k == cursor[t]
           c == pages[t][k].next
           shown == ShownBy(pages[t]) \cup due[t]
<1>1. /\ r # None /\ req[r] # None /\ Staged(req[r]) /\ req[r].tab = t
      /\ Waiting(t, req[r], k) /\ k \in Nat /\ pages[t] \in Seq(Page)
  BY FeedAssumption DEF TypeOK, StagesOK, CurrentOK, Waiting
<1>2. shown \subseteq Entry
  <2>1. ASSUME NEW i \in 1 .. Len(pages[t]) PROVE pages[t][i].items \subseteq Entry
    <3>1. pages[t][i] \in Page
      BY <1>1, ElementOfSeq
    <3>2. QED
      BY <3>1 DEF Page
  <2>2. QED
    BY <2>1 DEF ShownBy, TypeOK
<1>3. ASSUME k # 0
      PROVE  /\ k = Len(pages[t]) /\ c # None /\ (req[r].state = "sent" => req[r].cursor = c)
             /\ From(mode[t], shown, c.snap, snapshots)
  <2>1. k = Len(pages[t]) /\ c # None
    BY <1>1, <1>3 DEF CurrentOK, Waiting
  <2>2. k \in 1 .. Len(pages[t])
    BY <1>1, <1>3, <2>1
  <2>3. ChainOK(mode[t], pages[t], due[t], snapshots)
    BY DEF ChainsOK, ShownChain, Chain
  <2>4. From(mode[t], shown, c.snap, snapshots)
    BY <2>1, <2>2, <2>3 DEF ChainOK
  <2>5. req[r].state = "sent" => req[r].cursor = c
    BY <1>1, <1>3 DEF Waiting, CursorAt
  <2>6. QED
    BY <2>1, <2>4, <2>5
<1>4. k = 0 /\ req[r].state = "sent" => req[r].cursor = None
  BY <1>1 DEF Waiting, CursorAt
<1> HIDE DEF shown, c
<1>5. CASE ReadFollowing(r)
  <2> DEFINE E == {[id |-> p, score |-> 0] : p \in Post}
  <2>1. Reading(r, E, None, clock) /\ E \subseteq Entry
    BY <1>5, Readings DEF Reading
  <2>2. Functional(E)
    BY DEF Functional
  <2>3. mode[t] = "following" /\ req[r].state = "sent"
    BY <1>1, <1>5 DEF ReadFollowing
  <2>4. From(mode[t], E, None, snapshots)
    BY <2>3 DEF From
  <2>5. ASSUME k # 0 PROVE c.snap = None /\ shown \subseteq E
    <3>1. c.snap = None /\ \A e \in shown : e.score = 0
      BY <1>3, <2>3, <2>5 DEF From
    <3>2. ASSUME NEW e \in shown PROVE e \in E
      <4>1. e = [id |-> e.id, score |-> 0] /\ e.id \in Post
        BY <1>2, <3>1 DEF Entry
      <4>2. QED
        BY <4>1
    <3>3. QED
      BY <3>1, <3>2
  <2> HIDE DEF E
  <2>6. /\ k = 0 => req[r].cursor = None
        /\ k # 0 =>
               /\ k = Len(pages[t]) /\ c # None /\ req[r].cursor = c /\ c.snap = None
               /\ shown \subseteq E
    BY <1>3, <1>4, <2>3, <2>5
  <2>7. QED
    BY <2>1, <2>2, <2>4, <2>6 DEF c, shown
<1>6. CASE ReadRanked(r)
  <2>1. PICK s \in snapshots : s.id = SnapOf(req[r]) /\ Reading(r, s.items, s.id, s.bucket)
    BY <1>6, Readings
  <2>2. s.items \subseteq Entry /\ Functional(s.items)
    BY <2>1 DEF Reading, SnapshotsOK
  <2>3. mode[t] = "for_me" /\ (req[r].cursor # None => req[r].state = "sent")
        /\ (req[r].cursor = None => req[r].state = "page")
    BY <1>1, <1>6 DEF ReadRanked
  <2>4. From(mode[t], s.items, s.id, snapshots)
    BY <2>3 DEF From, SnapshotsOK
  <2>5. k = 0 => req[r].cursor = None
    BY <1>4, <2>3
  <2>6. ASSUME k # 0
        PROVE  /\ k = Len(pages[t]) /\ c # None /\ req[r].cursor = c /\ c.snap = s.id
               /\ shown \subseteq s.items
    <3>1. req[r].cursor # None
      BY <1>1, <2>3, <2>6 DEF Waiting
    <3>2. /\ k = Len(pages[t]) /\ c # None /\ req[r].cursor = c
          /\ From(mode[t], shown, c.snap, snapshots)
      BY <1>3, <2>3, <2>6, <3>1
    <3>3. c.snap = s.id
      BY <2>1, <3>2 DEF SnapOf
    <3>4. QED
      BY <2>3, <3>2, <3>3 DEF From
  <2>7. QED
    BY <2>1, <2>2, <2>4, <2>5, <2>6 DEF c, shown
<1>7. QED
  BY <1>5, <1>6

(* An answer goes on with the chain of the tab that waits for it.          *)
LEMMA ChainAnswered ==
    ASSUME TypeOK, SnapshotsOK, StagesOK, CurrentOK, ChainsOK,
           NEW t \in Tab, NEW r \in Request, current[t] = r, ReadFollowing(r) \/ ReadRanked(r)
    PROVE  Chain(mode[t], Landing(pages[t], req'[r]), LandingDue(due[t], req'[r]), snapshots,
                 On(mode[t]))
<1> DEFINE k == cursor[t]
           c == pages[t][k].next
           m == mode[t]
           on == On(mode[t])
           next == Landing(pages[t], req'[r])
<1>1. PICK E, snap, bucket :
          /\ Reading(r, E, snap, bucket)
          /\ E \subseteq Entry /\ Functional(E) /\ From(m, E, snap, snapshots)
          /\ k = 0 => req[r].cursor = None
          /\ k # 0 =>
                 /\ k = Len(pages[t])
                 /\ c # None /\ req[r].cursor = c /\ c.snap = snap
                 /\ ShownBy(pages[t]) \cup due[t] \subseteq E
  BY Sources
<1>2. /\ r # None /\ req[r].tab = t /\ req[r].place = k
      /\ k \in Nat /\ pages[t] \in Seq(Page) /\ (k = 0 \/ k = Len(pages[t]))
  BY FeedAssumption DEF TypeOK, CurrentOK, Waiting
<1>3. /\ req'[r].page \in Page /\ req'[r].place = k
      /\ IsPage(req'[r].page, {e \in E : e.id \in on /\ ComesAfter(e, req[r].cursor)}, snap)
      /\ req'[r].due = DueFor(r, E)
  <2>1. /\ req'[r].page = PageFor(r, E, snap, bucket) /\ req'[r].page \in Page
        /\ req'[r].place = req[r].place /\ req'[r].due = DueFor(r, E)
    BY <1>1, Answers
  <2>2. IsPage(PageFor(r, E, snap, bucket),
               {e \in E : e.id \in On(mode[req[r].tab]) /\ ComesAfter(e, req[r].cursor)}, snap)
    BY <1>1, AnswerPages
  <2>3. QED
    BY <1>2, <2>1, <2>2
<1> HIDE DEF k
<1>4. /\ next \in Seq(Page) /\ Len(next) = k + 1 /\ next[k + 1] = req'[r].page
      /\ \A i \in 1 .. k : next[i] = pages[t][i]
  BY <1>2, <1>3, LandingSeq
<1> HIDE DEF next, c, m
<1>5. CASE k = 0
  <2>1. {e \in E : e.id \in on /\ ComesAfter(e, req[r].cursor)} = {e \in E : e.id \in on}
    BY <1>1, <1>5 DEF ComesAfter
  <2>2. DueFor(r, E) = {e \in E : e.id \in on}
    BY <1>1, <1>2, <1>5 DEF DueFor
  <2>3. LandingDue(due[t], req'[r]) = {e \in E : e.id \in on}
    BY <1>3, <1>5, <2>2 DEF LandingDue
  <2> HIDE DEF on
  <2>4. Len(next) = 1 /\ IsPage(next[1], {e \in E : e.id \in on}, snap)
    <3>1. Len(next) = 1 /\ next[1] = req'[r].page
      BY <1>4, <1>5
    <3>2. IsPage(req'[r].page, {e \in E : e.id \in on}, snap)
      BY <1>3, <2>1
    <3>3. QED
      BY <3>1, <3>2
  <2>5. Chain(m, next, {e \in E : e.id \in on}, snapshots, on)
    BY <1>1, <2>4, ChainStarts
  <2>6. QED
    BY <2>3, <2>5 DEF next, m, on
<1>6. CASE k # 0
  <2>1. LandingDue(due[t], req'[r]) = due[t]
    BY <1>3, <1>6 DEF LandingDue
  <2>2. Chain(m, pages[t], due[t], snapshots, on)
    BY DEF ChainsOK, ShownChain, m
  <2> HIDE DEF on
  <2>3. /\ k > 0 /\ Len(pages[t]) = k /\ pages[t][k].next # None
        /\ pages[t][k].next.snap = snap /\ ShownBy(pages[t]) \cup due[t] \subseteq E
        /\ IsPage(next[k + 1], {e \in E : e.id \in on /\ ComesAfter(e, pages[t][k].next)}, snap)
    <3>1. /\ k > 0 /\ Len(pages[t]) = k /\ c # None /\ c.snap = snap
          /\ ShownBy(pages[t]) \cup due[t] \subseteq E
      BY <1>1, <1>2, <1>6
    <3>2. IsPage(next[k + 1], {e \in E : e.id \in on /\ ComesAfter(e, c)}, snap)
      BY <1>1, <1>3, <1>4, <1>6
    <3>3. QED
      BY <3>1, <3>2 DEF c
  <2>4. Chain(m, next, due[t], snapshots, on)
    BY <1>1, <1>2, <1>4, <2>2, <2>3, ChainGrows
  <2>5. QED
    BY <2>1, <2>4 DEF next, m, on
<1>7. QED
  BY <1>5, <1>6

(* What is on a Flow depends on the tables alone.                          *)
LEMMA OnSame ==
    ASSUME UNCHANGED <<tableVars, mode>>, NEW t
    PROVE  On(mode[t])' = On(mode[t])
BY DEF On, Visible, Linked, NotBlocked, tableVars

(* Where the tab's pages stay and no answer comes, its chains stay.        *)
LEMMA ChainsQuiet ==
    ASSUME UNCHANGED <<tableVars, mode, snapshots>>, NEW t \in Tab, ShownChain(t), NextChain(t),
           pages'[t] = pages[t], due'[t] = due[t],
           \/ current'[t] = None
           \/ req'[current'[t]].state # "answered"
           \/ current'[t] = current[t] /\ req'[current[t]] = req[current[t]]
    PROVE  ShownChain(t)' /\ NextChain(t)'
<1>1. On(mode[t])' = On(mode[t])
  BY OnSame
<1>2. ShownChain(t)'
  BY <1>1 DEF ShownChain
<1>3. NextChain(t)'
  BY <1>1 DEF NextChain, Landing, LandingDue
<1>4. QED
  BY <1>2, <1>3

(* A commit to the tables leaves a chain with less that is due.            *)
LEMMA ChainsChanged ==
    ASSUME TypeOK, StagesOK, CurrentOK, ChainsOK, Changed, NEW t \in Tab
    PROVE  ShownChain(t)' /\ NextChain(t)'
<1>1. /\ mode' = mode /\ pages' = pages /\ current' = current /\ snapshots' = snapshots
      /\ due'[t] \subseteq due[t] /\ \A e \in due'[t] : e.id \in On(mode[t])'
  BY DueShrinks
<1>2. ShownChain(t)'
  <2>1. Chain(mode[t], pages[t], due[t], snapshots, On(mode[t]))
    BY DEF ChainsOK, ShownChain
  <2>2. Chain(mode[t], pages[t], due'[t], snapshots, On(mode[t])')
    BY <1>1, <2>1, ChainKept
  <2>3. QED
    BY <1>1, <2>2 DEF ShownChain
<1>3. ASSUME current[t] # None, req'[current[t]].state = "answered"
      PROVE  Chain(mode[t], Landing(pages[t], req'[current[t]]),
                   LandingDue(due'[t], req'[current[t]]), snapshots, On(mode[t])')
  <2> DEFINE c == current[t]
             q == req[c]
             n == req'[c]
  <2>1. c \in Request /\ q # None /\ q \in Req /\ q.tab = t
    BY <1>3 DEF TypeOK, CurrentOK, Waiting
  <2>2. n = [q EXCEPT !.due = n.due] /\ n.due \subseteq q.due
        /\ \A e \in n.due : e.id \in On(mode[t])'
    BY <2>1, DueShrinks
  <2>3. n.state = q.state /\ n.page = q.page /\ n.place = q.place
    BY <2>1, <2>2 DEF Req
  <2>4. Chain(mode[t], Landing(pages[t], q), LandingDue(due[t], q), snapshots, On(mode[t]))
    BY <1>3, <2>3 DEF ChainsOK, NextChain
  <2>5. Landing(pages[t], n) = Landing(pages[t], q)
    BY <2>3 DEF Landing
  <2>6. /\ LandingDue(due'[t], n) \subseteq LandingDue(due[t], q)
        /\ \A e \in LandingDue(due'[t], n) : e.id \in On(mode[t])'
    BY <1>1, <2>2, <2>3 DEF LandingDue
  <2> HIDE DEF c, q, n
  <2>7. Chain(mode[t], Landing(pages[t], q), LandingDue(due'[t], n), snapshots, On(mode[t])')
    BY <2>4, <2>6, ChainKept
  <2>8. QED
    BY <2>5, <2>7 DEF c, n
<1>4. NextChain(t)'
  BY <1>1, <1>3 DEF NextChain
<1>5. QED
  BY <1>2, <1>4

(* A snapshot that is inserted is none that a chain goes on with.          *)
LEMMA ChainsCommitted ==
    ASSUME TypeOK, StagesOK, CurrentOK, ChainsOK, NEW r \in Request, Commit(r), NEW t \in Tab
    PROVE  ShownChain(t)' /\ NextChain(t)'
<1>1. /\ UNCHANGED <<tableVars, mode, pages, due, current>>
      /\ req' = [req EXCEPT ![r] = req'[r]] /\ req'[r].state = "page"
  BY Committed DEF tabVars
<1>2. On(mode[t])' = On(mode[t])
  BY <1>1, OnSame
<1>3. ASSUME NEW s \in snapshots', s \notin snapshots
      PROVE  s.id = req[r].snap /\ Fresh(req[r].snap, r)
  BY <1>3, Committed DEF Snapshot
<1>4. ShownChain(t)'
  <2>1. Chain(mode[t], pages[t], due[t], snapshots, On(mode[t]))
    BY DEF ChainsOK, ShownChain
  <2>2. \A s \in snapshots' :
            (\E i \in 1 .. Len(pages[t]) :
                pages[t][i].next # None /\ pages[t][i].next.snap = s.id) => s \in snapshots
    BY <1>3 DEF Fresh
  <2>3. \A e \in due[t] : e.id \in On(mode[t])
    BY <2>1 DEF Chain
  <2>4. Chain(mode[t], pages[t], due[t], snapshots', On(mode[t]))
    BY <2>1, <2>2, <2>3, ChainKept
  <2>5. QED
    BY <1>1, <1>2, <2>4 DEF ShownChain
<1>5. ASSUME current[t] # None, req'[current[t]].state = "answered"
      PROVE  /\ req'[current[t]] = req[current[t]]
             /\ Chain(mode[t], Landing(pages[t], req[current[t]]),
                      LandingDue(due[t], req[current[t]]), snapshots', On(mode[t]))
  <2> DEFINE c == current[t]
             k == cursor[t]
             next == Landing(pages[t], req[c])
  <2>1. c \in Request /\ c # r /\ req[c] # None /\ k \in Nat
    BY <1>1, <1>5 DEF TypeOK, CurrentOK, Waiting
  <2>2. req'[c] = req[c]
    BY <1>1, <2>1 DEF TypeOK
  <2>3. Chain(mode[t], next, LandingDue(due[t], req[c]), snapshots, On(mode[t]))
    BY <1>5, <2>2 DEF ChainsOK, NextChain
  <2>4. /\ k = 0 \/ k = Len(pages[t])
        /\ Len(next) = k + 1 /\ next[k + 1] = req[c].page /\ req[c].page \in Page
        /\ \A i \in 1 .. k : next[i] = pages[t][i]
    BY <1>5, <2>1, <2>2, Landings
  <2> HIDE DEF c, k, next
  <2>5. \A i \in 1 .. Len(next) :
            next[i] = req[c].page \/ \E j \in 1 .. Len(pages[t]) : next[i] = pages[t][j]
    BY <2>1, <2>4
  <2>6. req[c].page # None
    BY <2>4, FeedAssumption
  <2>7. \A s \in snapshots' :
            (\E i \in 1 .. Len(next) : next[i].next # None /\ next[i].next.snap = s.id)
                => s \in snapshots
    BY <1>3, <2>1, <2>5, <2>6 DEF Fresh
  <2>8. \A e \in LandingDue(due[t], req[c]) : e.id \in On(mode[t])
    BY <2>3 DEF Chain
  <2>9. Chain(mode[t], next, LandingDue(due[t], req[c]), snapshots', On(mode[t]))
    BY <2>3, <2>7, <2>8, ChainKept
  <2>10. QED
    BY <2>2, <2>9 DEF c, next
<1>6. NextChain(t)'
  BY <1>1, <1>2, <1>5 DEF NextChain
<1>7. QED
  BY <1>4, <1>6

(* Every step keeps the chains, those shown and those on their way.        *)
LEMMA ChainsStep ==
    ASSUME TypeOK, SnapshotsOK, StagesOK, CurrentOK, ChainsOK, [Next]_vars
    PROVE  ChainsOK'
<1> DEFINE Kept(t) == ShownChain(t)' /\ NextChain(t)'
<1>0. (\A t \in Tab : Kept(t)) => ChainsOK'
  BY DEF ChainsOK
<1>1. \A t \in Tab : ShownChain(t) /\ NextChain(t)
  BY DEF ChainsOK
<1> HIDE DEF Kept
<1>2. ASSUME UNCHANGED <<tableVars, mode, snapshots>>, NEW t \in Tab,
             pages'[t] = pages[t], due'[t] = due[t],
             \/ current'[t] = None
             \/ req'[current'[t]].state # "answered"
             \/ current'[t] = current[t] /\ req'[current[t]] = req[current[t]]
      PROVE  Kept(t)
  BY <1>1, <1>2, ChainsQuiet DEF Kept
<1>3. CASE UNCHANGED <<tableVars, snapshots, req, tabVars>>
  BY <1>0, <1>2, <1>3 DEF tabVars
<1>4. CASE Changed
  BY <1>0, <1>4, ChainsChanged DEF Kept
<1>5. ASSUME NEW r \in Request, Commit(r) PROVE \A t \in Tab : Kept(t)
  BY <1>5, ChainsCommitted DEF Kept
<1>6. ASSUME NEW r \in Request, Start(r) \/ Rank(r) PROVE \A t \in Tab : Kept(t)
  <2>1. /\ UNCHANGED <<serverVars, tabVars>> /\ req' = [req EXCEPT ![r] = req'[r]]
        /\ req'[r].state # "answered"
    <3>1. CASE Start(r)
      BY <3>1, Starts
    <3>2. CASE Rank(r)
      BY <3>2, Ranks
    <3>3. QED
      BY <1>6, <3>1, <3>2
  <2>2. ASSUME NEW t \in Tab PROVE Kept(t)
    <3>1. \/ current[t] = None
          \/ req'[current[t]].state # "answered"
          \/ req'[current[t]] = req[current[t]]
      BY <2>1 DEF TypeOK
    <3>2. QED
      BY <1>2, <2>1, <3>1 DEF serverVars, tabVars
  <2>3. QED
    BY <2>2
<1>7. ASSUME NEW r \in Request, ReadFollowing(r) \/ ReadRanked(r) PROVE \A t \in Tab : Kept(t)
  <2>1. /\ UNCHANGED <<serverVars, tabVars>>
        /\ req' = [req EXCEPT ![r] = req'[r]]
    <3>1. PICK E, snap, bucket : Reading(r, E, snap, bucket)
      BY <1>7, Readings
    <3>2. QED
      BY <3>1, Answers
  <2>2. ASSUME NEW t \in Tab, current[t] = r PROVE Kept(t)
    <3>1. Chain(mode[t], Landing(pages[t], req'[r]), LandingDue(due[t], req'[r]), snapshots,
                On(mode[t]))
      BY <1>7, <2>2, ChainAnswered
    <3>2. On(mode[t])' = On(mode[t])
      BY <2>1, OnSame DEF serverVars, tabVars
    <3>3. NextChain(t)'
      BY <2>1, <2>2, <3>1, <3>2 DEF NextChain, serverVars, tabVars
    <3>4. ShownChain(t)'
      BY <1>1, <2>1, <3>2 DEF ShownChain, serverVars, tabVars
    <3>5. QED
      BY <3>3, <3>4 DEF Kept
  <2>3. ASSUME NEW t \in Tab, current[t] # r PROVE Kept(t)
    <3>1. current[t] = None \/ req'[current[t]] = req[current[t]]
      BY <2>1, <2>3 DEF TypeOK
    <3>2. QED
      BY <1>2, <2>1, <3>1 DEF serverVars, tabVars
  <2>4. QED
    BY <2>2, <2>3
<1>8. ASSUME NEW r \in Request, Land(r) PROVE \A t \in Tab : Kept(t)
  <2>1. PICK t \in Tab :
            /\ t = req[r].tab /\ current[t] = r /\ req[r].state = "answered"
            /\ pages' = [pages EXCEPT ![t] = Landing(pages[t], req[r])]
            /\ current' = [current EXCEPT ![t] = None]
            /\ due' = [due EXCEPT ![t] = LandingDue(due[t], req[r])]
            /\ req' = [req EXCEPT ![r] = None]
            /\ UNCHANGED <<serverVars, mode, cursor>>
    BY <1>8, Lands
  <2>2. UNCHANGED <<tableVars, mode, snapshots>>
    BY <2>1 DEF serverVars
  <2>3. Kept(t)
    <3>1. /\ pages'[t] = Landing(pages[t], req[r]) /\ current'[t] = None
          /\ due'[t] = LandingDue(due[t], req[r])
      BY <2>1 DEF TypeOK
    <3>2. Chain(mode[t], Landing(pages[t], req[r]), LandingDue(due[t], req[r]), snapshots,
                On(mode[t]))
      BY <1>1, <2>1, FeedAssumption DEF NextChain
    <3>3. On(mode[t])' = On(mode[t])
      BY <2>2, OnSame
    <3>4. ShownChain(t)'
      BY <2>2, <3>1, <3>2, <3>3 DEF ShownChain
    <3>5. NextChain(t)'
      BY <3>1 DEF NextChain
    <3>6. QED
      BY <3>4, <3>5 DEF Kept
  <2>4. ASSUME NEW u \in Tab, u # t PROVE Kept(u)
    <3>1. current[u] # None => current[u] \in Request /\ req[current[u]].tab = u
      BY DEF TypeOK, CurrentOK, Waiting
    <3>2. current[u] # r
      BY <2>1, <2>4, <3>1, FeedAssumption
    <3>3. current[u] # None => req'[current[u]] = req[current[u]]
      BY <2>1, <3>1, <3>2 DEF TypeOK
    <3>4. pages'[u] = pages[u] /\ due'[u] = due[u] /\ current'[u] = current[u]
      BY <2>1, <2>4 DEF TypeOK
    <3>5. QED
      BY <1>2, <2>2, <3>3, <3>4
  <2>5. QED
    BY <2>3, <2>4
<1>9. ASSUME NEW r \in Request, Fail(r) PROVE \A t \in Tab : Kept(t)
  <2>1. /\ req' = [req EXCEPT ![r] = None] /\ UNCHANGED <<serverVars, mode, pages, due>>
        /\ current' = IF Wanted(r) THEN [current EXCEPT ![req[r].tab] = None] ELSE current
    BY <1>9 DEF Fail
  <2>2. ASSUME NEW u \in Tab PROVE Kept(u)
    <3>1. current[u] # None => current[u] \in Request /\ Waiting(u, req[current[u]], cursor[u])
      BY DEF TypeOK, CurrentOK
    <3>2. current[u] = r => current'[u] = None
      BY <2>1, <3>1, FeedAssumption DEF Wanted, Waiting, TypeOK
    <3>3. current'[u] = current[u] \/ current'[u] = None
      BY <2>1 DEF TypeOK
    <3>4. current'[u] # None => req'[current[u]] = req[current[u]]
      BY <2>1, <3>1, <3>2, <3>3 DEF TypeOK
    <3>5. QED
      BY <1>2, <2>1, <3>3, <3>4 DEF serverVars
  <2>3. QED
    BY <2>2
<1>10. ASSUME NEW t \in Tab, Flow(t) PROVE \A u \in Tab : Kept(u)
  <2>1. PICK r \in Request, k \in Nat : Sending(t, r, k)
    BY <1>10, Sends
  <2>2. /\ req[r] = None /\ req'[r].state = "sent"
        /\ UNCHANGED <<serverVars, mode, pages, due>>
        /\ \A x \in Request : x # r => req'[x] = req[x]
        /\ \A u \in Tab : u # t => current'[u] = current[u]
        /\ current'[t] = r
    BY <2>1 DEF Sending, TypeOK
  <2>3. ASSUME NEW u \in Tab, u # t, current[u] # None
        PROVE  req'[current[u]] = req[current[u]]
    BY <2>2, <2>3 DEF TypeOK, CurrentOK, Waiting
  <2>4. QED
    BY <1>2, <2>2, <2>3 DEF serverVars
<1>11. QED
  BY <1>0, <1>3, <1>4, <1>5, <1>6, <1>7, <1>8, <1>9, <1>10, Kinds DEF vars, Tick, serverVars

-----------------------------------------------------------------------------
(* The invariant is inductive.                                             *)
LEMMA FeedInit == Init => FeedInv
<1> SUFFICES ASSUME Init PROVE FeedInv
  OBVIOUS
<1>1. /\ snapshots = {} /\ clock = 0 /\ req = [r \in Request |-> None]
      /\ pages = [t \in Tab |-> <<>>] /\ cursor = [t \in Tab |-> 0]
      /\ current = [t \in Tab |-> None] /\ due = [t \in Tab |-> {}]
      /\ mode \in [Tab -> Mode] /\ follows \subseteq Author \cup Topic
  BY FeedAssumption DEF Init
<1>2. TypeOK
  <2>1. <<>> \in Seq(Page)
    OBVIOUS
  <2>2. QED
    BY <1>1, <2>1 DEF TypeOK
<1>3. SnapshotsOK /\ StagesOK /\ CurrentOK /\ AgesOK
  BY <1>1 DEF SnapshotsOK, StagesOK, CurrentOK, AgesOK
<1>4. BoundOK
  BY <1>1, FS_EmptySet, FeedAssumption DEF BoundOK
<1>5. ASSUME NEW t \in Tab PROVE ShownChain(t) /\ NextChain(t)
  <2>1. pages[t] = <<>> /\ due[t] = {} /\ current[t] = None /\ Len(pages[t]) = 0
    BY <1>1
  <2>2. ShownBy(pages[t]) \cup due[t] = {}
    BY <2>1 DEF ShownBy
  <2>3. \A i : i \notin 1 .. Len(pages[t])
    BY <2>1
  <2>4. Chain(mode[t], pages[t], due[t], snapshots, On(mode[t]))
    BY <2>1, <2>2, <2>3 DEF Chain, ChainOK, Functional
  <2>5. QED
    BY <2>1, <2>4 DEF ShownChain, NextChain
<1>6. QED
  BY <1>2, <1>3, <1>4, <1>5 DEF FeedInv, ChainsOK

LEMMA FeedStep == FeedInv /\ [Next]_vars => FeedInv'
BY TypeStep, SnapshotsStep, StagesStep, BoundStep, CurrentStep, AgesStep, ChainsStep DEF FeedInv

LEMMA FeedInvariant == Spec => []FeedInv
BY FeedInit, FeedStep, PTL DEF Spec

(* The state keeps to its types: no page shows anything but entries, and a *)
(* request is always at one of the stages that the handlers know.          *)
THEOREM FeedTypes == Spec => []TypeOK
<1>1. FeedInv => TypeOK
  BY DEF FeedInv
<1>2. QED
  BY <1>1, FeedInvariant, PTL

(* However many first pages are asked for at once, a viewer holds no more  *)
(* active snapshots than the retained ones and the new one: the statement  *)
(* that prunes them and the commit that inserts are two steps, and the     *)
(* advisory lock lets no other transaction in between                      *)
(* (CreateOrReuseRankedSnapshot).                                          *)
THEOREM SnapshotsAreBounded == Spec => []SnapshotsBounded
<1>1. FeedInv => SnapshotsBounded
  <2> SUFFICES ASSUME FeedInv PROVE SnapshotsBounded
    OBVIOUS
  <2>1. IsFiniteSet(snapshots) /\ Cardinality(snapshots) <= Retained + 1
    BY DEF FeedInv, BoundOK
  <2>2. {s \in snapshots : Active(s)} \in SUBSET snapshots
    OBVIOUS
  <2>3. /\ Cardinality({s \in snapshots : Active(s)}) \in Nat
        /\ Cardinality({s \in snapshots : Active(s)}) <= Cardinality(snapshots)
    BY <2>1, <2>2, FS_Subset, FS_CardinalityType
  <2>4. Cardinality(snapshots) \in Nat
    BY <2>1, FS_CardinalityType
  <2>5. QED
    BY <2>1, <2>3, <2>4, FeedAssumption DEF SnapshotsBounded
<1>2. QED
  BY <1>1, FeedInvariant, PTL

(* No Moin is on two pages of a chain, whatever the pages were read from   *)
(* and whatever was committed in between: each is after the cursor of the  *)
(* page before it, and a Moin has one score in all that a chain is made of *)
(* (QueryRankedSnapshot, writeFollowingFeed, useFeedPages).                *)
THEOREM NoneIsShownTwice == Spec => []ShownOnce
<1>1. ASSUME FeedInv, NEW t \in Tab,
             NEW i \in 1 .. Len(pages[t]), NEW j \in 1 .. Len(pages[t]), i < j,
             NEW e \in pages[t][i].items, NEW f \in pages[t][j].items
      PROVE  e.id # f.id
  <2>1. ChainOK(mode[t], pages[t], due[t], snapshots)
    BY <1>1 DEF FeedInv, ChainsOK, ShownChain, Chain
  <2>2. pages[t] \in Seq(Page) /\ Len(pages[t]) \in Nat
    BY <1>1 DEF FeedInv, TypeOK
  <2>3. pages[t][i].next # None
    BY <1>1, <2>1, <2>2 DEF ChainOK
  <2>4. ComesAfter(f, pages[t][i].next) /\ ~ ComesAfter(e, pages[t][i].next)
    BY <1>1, <2>1, <2>3 DEF ChainOK
  <2>5. e \in ShownBy(pages[t]) /\ f \in ShownBy(pages[t])
    BY <1>1 DEF ShownBy
  <2>6. Functional(ShownBy(pages[t]) \cup due[t])
    BY <2>1 DEF ChainOK
  <2>7. QED
    BY <2>4, <2>5, <2>6 DEF Functional
<1>2. FeedInv => ShownOnce
  <2>1. \A t \in Tab : FeedInv => Len(pages[t]) \in Nat
    BY DEF FeedInv, TypeOK
  <2>2. ASSUME FeedInv, NEW t \in Tab, NEW i \in 1 .. Len(pages[t]),
               NEW j \in 1 .. Len(pages[t]), i # j
        PROVE  \A e \in pages[t][i].items, f \in pages[t][j].items : e.id # f.id
    <3>1. i < j \/ j < i
      BY <2>1, <2>2
    <3>2. QED
      BY <1>1, <2>2, <3>1
  <2>3. QED
    BY <2>2 DEF ShownOnce
<1>3. QED
  BY <1>2, FeedInvariant, PTL

(* A chain of pages skips nothing: once it has gone past the rank of a     *)
(* Moin that has been on the Flow since the first page was read, the Moin  *)
(* is on one of its pages, whatever was published, deleted, blocked,       *)
(* re-ranked or refreshed in between.                                      *)
THEOREM NothingIsSkipped == Spec => []NothingSkipped
<1>1. FeedInv => NothingSkipped
  <2> SUFFICES ASSUME FeedInv, NEW t \in Tab, pages[t] # <<>>, NEW e \in due[t],
                      LET next == pages[t][Len(pages[t])].next IN
                      next = None \/ e.id = next.id \/ Better(e, next)
               PROVE  e \in Shown(t)
    BY DEF NothingSkipped
  <2> DEFINE k == Len(pages[t])
             c == pages[t][k].next
  <2>1. ChainOK(mode[t], pages[t], due[t], snapshots)
    BY DEF FeedInv, ChainsOK, ShownChain, Chain
  <2>2. pages[t] \in Seq(Page) /\ k \in Nat /\ k # 0 /\ e \in Entry
    BY EmptySeq DEF FeedInv, TypeOK
  <2>3. k \in 1 .. k
    BY <2>2
  <2>4. ASSUME c # None, e.id = c.id PROVE ~ ComesAfter(e, c)
    <3>1. PICK f \in pages[t][k].items : f.id = c.id /\ ~ ComesAfter(f, c)
      BY <2>1, <2>3, <2>4 DEF ChainOK
    <3>2. f \in ShownBy(pages[t]) \cup due[t] /\ e \in ShownBy(pages[t]) \cup due[t]
      BY <2>3 DEF ShownBy
    <3>3. e = f
      BY <2>1, <2>4, <3>1, <3>2 DEF ChainOK, Functional
    <3>4. QED
      BY <3>1, <3>3
  <2>5. ASSUME c # None, Better(e, c) PROVE ~ ComesAfter(e, c)
    <3>1. pages[t][k] \in Page
      BY <2>2, <2>3, ElementOfSeq
    <3>2. c \in Cursor
      BY <2>5, <3>1 DEF Page
    <3>3. e.score \in Nat /\ c.score \in Nat /\ e.id \in Nat /\ c.id \in Nat
      BY <2>2, <3>2, FeedAssumption DEF Entry, Cursor, Post
    <3>4. QED
      BY <2>5, <3>3 DEF Better, ComesAfter
  <2>6. PICK i \in 1 .. k : e \in pages[t][i].items
    BY <2>1, <2>3, <2>4, <2>5 DEF ChainOK
  <2>7. QED
    BY <2>6 DEF Shown
<1>2. QED
  BY <1>1, FeedInvariant, PTL

(* No answer that comes late replaces the first page by an older one: the  *)
(* request that a tab waits for was sent after the page it shows had been  *)
(* read, or goes on with it (load of useFeedPages, replaceFeedPage).       *)
THEOREM FlowNeverGoesBack == Spec => NeverGoesBack
<1>1. ASSUME FeedInv, [Next]_vars
      PROVE  [\A t \in Tab : pages[t] # <<>> => pages'[t][1].bucket >= pages[t][1].bucket]_vars
  BY <1>1, AgesStep DEF FeedInv
<1>2. QED
  BY <1>1, FeedInvariant, PTL DEF Spec, NeverGoesBack
=============================================================================
