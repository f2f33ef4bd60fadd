------------------------------- MODULE Feed --------------------------------
(***************************************************************************)
(* The Flow of one viewer: the ranking snapshots that the first page of    *)
(* For Me freezes (feed/snapshot.go), the keyset pages of For Me and       *)
(* Following (httpapi/posts.go, pagination/cursor.go), the follows, blocks *)
(* and mutes that decide what is on them (httpapi/social.go, visibility),  *)
(* and the tabs that chain them (useFeedPages.ts, feedCache.ts).           *)
(*                                                                         *)
(* The statement that freezes the candidates and the commit of its         *)
(* transaction are two steps, and so are the snapshot and the page read    *)
(* from it.  Time is counted in buckets of snapshotReuseSeconds.           *)
(***************************************************************************)
EXTENDS Naturals, Sequences, FiniteSets

CONSTANTS
    MaxPost,    \* Moins 1..MaxPost, in the order of (published_at, id)
    MaxScore,
    Limit,      \* Moins on a page
    Lifetime,   \* buckets for which a snapshot is active
    Retained,   \* active snapshots that a new one leaves (OFFSET 2)
    MaxChanges, \* bounds the commits that change what is on the Flow
    MaxClock,   \* bounds the clock
    Author,     \* whoever writes Moins, the viewer perhaps
    Viewer,
    Topic,
    AuthorOf,   \* [Post -> Author]
    ForFollowers,  \* Moins for the followers of their authors only
    Beginning,  \* what the tables may hold when the model begins
    Pref,       \* feed preferences that the viewer may have, and the defaults
    Ranking,    \* for preferences and what the viewer follows, the scores that
                \* a statement may compute, as functions on its candidates: no
                \* excluded topic, none published after asOf, at most
                \* SnapshotCandidateLimit
    Tab,
    Request,    \* requests that may be on their way at once
    Id,         \* identifiers of snapshots
    None

Post == 1 .. MaxPost
Entry == [id : Post, score : 0 .. MaxScore]
Other == Author \ {Viewer}
Mode == {"for_me", "following"}
Pair == ({Viewer} \X Other) \cup (Other \X {Viewer})

(* The last Moin of a page, and the snapshot it was read from.             *)
Cursor == [snap : Id \cup {None}, score : 0 .. MaxScore, id : Post]

Page == [items : SUBSET Entry, bucket : Nat, next : Cursor \cup {None}]

(* A row of feed_snapshots with its feed_snapshot_items.                   *)
SnapshotRow ==
    [id : Id, pref : Pref \cup {None}, bucket : Nat, made : Nat, items : SUBSET Entry]

(* A request for the page at a place of a tab's chain, with what its       *)
(* handler and its transaction work with, and the answer.                  *)
Stage == {"sent", "started", "ranked", "page", "answered"}
Req == [tab : Tab, place : Nat, cursor : Cursor \cup {None}, state : Stage,
        bucket : Nat, made : Nat, pref : Pref \cup {None}, snap : Id \cup {None},
        drop : SUBSET Id, items : SUBSET Entry, page : Page \cup {None}, due : SUBSET Entry]

ASSUME FeedAssumption ==
    /\ MaxPost \in Nat /\ MaxScore \in Nat /\ MaxClock \in Nat /\ MaxChanges \in Nat
    /\ Limit \in Nat \ {0} /\ Lifetime \in Nat \ {0} /\ Retained \in Nat
    /\ AuthorOf \in [Post -> Author] /\ ForFollowers \subseteq Post
    /\ Beginning \subseteq [published : SUBSET Post, follows : SUBSET (Author \cup Topic),
                             mutes : SUBSET Other, blocks : SUBSET Pair]
    /\ \A f \in Pref : \A followed \in SUBSET (Author \cup Topic) :
           Ranking[f][followed] \subseteq UNION {[S -> 0 .. MaxScore] : S \in SUBSET Post}
    /\ None \notin Request \cup Id \cup Pref \cup Cursor \cup Page \cup Req

VARIABLES
    clock,
    changes,    \* commits so far that change what is on the Flow
    published,
    follows,    \* authors and topics that the viewer follows
    mutes,      \* authors whom the viewer has muted
    blocks,     \* {<<who blocks, whom>>}, the viewer one of the two
    snapshots,  \* rows of the viewer
    req,        \* [Request -> Req or None]
    (* useFeedPages of each tab *)
    mode,       \* [Tab -> Mode]
    pages,      \* [Tab -> Pages shown, in the order of their cursors]
    cursor,     \* [Tab -> place of the page wanted, 0 for the null cursor]
    current,    \* [Tab -> the request that requestID names, or None]
    (* history *)
    due         \* [Tab -> entries on its Flow since the first page was read]

tableVars == <<published, follows, mutes, blocks>>
serverVars == <<clock, changes, tableVars, snapshots>>
tabVars == <<mode, pages, cursor, current, due>>
vars == <<serverVars, req, tabVars>>

Init ==
    /\ clock = 0
    /\ changes = 0
    /\ \E b \in Beginning :
           /\ published = b.published
           /\ follows = b.follows
           /\ mutes = b.mutes
           /\ blocks = b.blocks
    /\ snapshots = {}
    /\ req = [r \in Request |-> None]
    /\ mode \in [Tab -> Mode]
    /\ pages = [t \in Tab |-> <<>>]
    /\ cursor = [t \in Tab |-> 0]
    /\ current = [t \in Tab |-> None]
    /\ due = [t \in Tab |-> {}]

Loading(t) == current[t] # None

-----------------------------------------------------------------------------
(* The tables behind the Flow.                                             *)

Tick ==
    /\ clock < MaxClock
    /\ clock' = clock + 1
    /\ UNCHANGED <<changes, tableVars, snapshots, req, tabVars>>

(* Moin, NotBlockedBetween and NotMuted.                                   *)
Linked(p) == AuthorOf[p] = Viewer \/ AuthorOf[p] \in follows
NotBlocked(p) == \A b \in blocks : AuthorOf[p] = Viewer \/ AuthorOf[p] \notin {b[1], b[2]}
Visible(p) ==
    NotBlocked(p) /\ AuthorOf[p] \notin mutes /\ (p \in ForFollowers => Linked(p))

(* What a statement finds on a Flow.                                       *)
On(m) == {p \in published : Visible(p) /\ (m = "following" => Linked(p))}

(* A commit to these tables; history forgets what it takes off a Flow.     *)
Changed ==
    /\ changes < MaxChanges /\ changes' = changes + 1
    /\ LET on == [m \in Mode |-> On(m)'] IN
       /\ due' = [t \in Tab |-> {e \in due[t] : e.id \in on[mode[t]]}]
       /\ req' = [r \in Request |->
              IF req[r] = None THEN None
              ELSE [req[r] EXCEPT !.due = {e \in @ : e.id \in on[mode[req[r].tab]]}]]
    /\ UNCHANGED <<clock, snapshots, mode, pages, cursor, current>>

(* A Moin is published, or it is deleted or hidden.                        *)
Publish(p) ==
    /\ p \notin published
    /\ published' = published \cup {p}
    /\ UNCHANGED <<follows, mutes, blocks>>
    /\ Changed

Withdraw(p) ==
    /\ p \in published
    /\ published' = published \ {p}
    /\ UNCHANGED <<follows, mutes, blocks>>
    /\ Changed

Follows(followed) ==
    /\ follows' = followed
    /\ UNCHANGED <<published, mutes, blocks>>
    /\ Changed

(* followUser looks for a block in a statement before the one that         *)
(* inserts; a block committed in between is not seen.                      *)
FollowUser(a) == a \notin follows /\ Follows(follows \cup {a})
UnfollowUser(a) == a \in follows /\ Follows(follows \ {a})

(* A topic counts the same whatever weight its follower gave it.           *)
FollowTopic(c) == c \notin follows /\ Follows(follows \cup {c})
UnfollowTopic(c) == c \in follows /\ Follows(follows \ {c})

(* The viewer blocks an author, or an author the viewer: both stop         *)
(* following each other.                                                   *)
BlockUser(u, v) ==
    /\ <<u, v>> \notin blocks
    /\ blocks' = blocks \cup {<<u, v>>}
    /\ follows' = follows \ {u, v}
    /\ UNCHANGED <<published, mutes>>
    /\ Changed

UnblockUser(u, v) ==
    /\ <<u, v>> \in blocks
    /\ blocks' = blocks \ {<<u, v>>}
    /\ UNCHANGED <<published, follows, mutes>>
    /\ Changed

MuteUser(a) ==
    /\ a \notin mutes
    /\ mutes' = mutes \cup {a}
    /\ UNCHANGED <<published, follows, blocks>>
    /\ Changed

UnmuteUser(a) ==
    /\ a \in mutes
    /\ mutes' = mutes \ {a}
    /\ UNCHANGED <<published, follows, blocks>>
    /\ Changed

(* A request past its transaction no longer needs what that worked with.   *)
Settled(q, state, snap) ==
    [q EXCEPT !.state = state, !.snap = snap, !.bucket = 0, !.made = 0,
              !.pref = None, !.drop = {}, !.items = {}]

-----------------------------------------------------------------------------
(* CreateOrReuseRankedSnapshot, for a request without a cursor.            *)

Active(s) == s.bucket + Lifetime > clock

(* Identifiers are random: a new one is none that is still referred to.    *)
Unused(id) ==
    /\ \A s \in snapshots : s.id # id
    /\ \A t \in Tab : \A i \in 1 .. Len(pages[t]) :
           pages[t][i].next # None => pages[t][i].next.snap # id
    /\ \A r \in Request :
           req[r] # None =>
               /\ req[r].snap # id
               /\ req[r].cursor # None => req[r].cursor.snap # id
               /\ req[r].page # None /\ req[r].page.next # None => req[r].page.next.snap # id

(* The handler notes the time.                                             *)
Start(r) ==
    /\ req[r] # None
    /\ req[r].state = "sent" /\ mode[req[r].tab] = "for_me" /\ req[r].cursor = None
    /\ req' = [req EXCEPT ![r].state = "started", ![r].bucket = clock]
    /\ UNCHANGED <<serverVars, tabVars>>

(* Mutant: the transactions of one viewer overlap.                         *)
LockableAlways == TRUE

(* pg_try_advisory_xact_lock.                                              *)
Lockable == \A r \in Request : req[r] # None => req[r].state # "ranked"

(* The candidates and their scores, from reactions, topics, links and age. *)
Frozen(scores) ==
    {[id |-> p, score |-> scores[p]] : p \in On("for_me") \cap DOMAIN scores}

(* What the statement may leave of the active snapshots: those whose       *)
(* transaction began last, of those that began together any.               *)
Prunings ==
    LET live == {s \in snapshots : Active(s)} IN
    {kept \in SUBSET live :
        /\ Cardinality(kept) <= Retained
        /\ \A s \in live \ kept :
               Cardinality(kept) = Retained /\ \A k \in kept : k.made >= s.made}

(* The lock is taken and the statement runs, with the preferences that the *)
(* handler has loaded: whichever the viewer has saved, or the defaults     *)
(* should it fail to load them.  The key of the snapshot conflicts with    *)
(* one found or it is inserted.                                            *)
Rank(r) ==
    /\ req[r] # None /\ req[r].state = "started"
    /\ Lockable
    /\ \E f \in Pref, kept \in Prunings :
           LET drop == {s.id : s \in snapshots \ kept}
               same == {s \in kept : s.pref = f /\ s.bucket = req[r].bucket}
           IN  \/ \E s \in same :
                      req' = [req EXCEPT ![r].state = "ranked", ![r].drop = drop,
                                         ![r].snap = s.id]
               \/ /\ same = {}
                  /\ \E id \in {i \in Id : Unused(i)}, scores \in Ranking[f][follows] :
                         req' = [req EXCEPT ![r].state = "ranked", ![r].drop = drop,
                                            ![r].snap = id, ![r].pref = f, ![r].made = clock,
                                            ![r].items = Frozen(scores)]
    /\ UNCHANGED <<serverVars, tabVars>>

Snapshot(r) ==
    [id |-> req[r].snap, pref |-> req[r].pref, bucket |-> req[r].bucket,
     made |-> req[r].made, items |-> req[r].items]

(* The transaction commits; a snapshot found again lives as long as a new  *)
(* one would, which within a bucket is no longer.                          *)
Commit(r) ==
    /\ req[r] # None /\ req[r].state = "ranked"
    /\ LET rest == {s \in snapshots : s.id \notin req[r].drop} IN
       snapshots' = IF \E s \in rest : s.id = req[r].snap
                    THEN rest
                    ELSE rest \cup {Snapshot(r)}
    /\ req' = [req EXCEPT ![r] = Settled(@, "page", req[r].snap)]
    /\ UNCHANGED <<clock, changes, tableVars, tabVars>>

-----------------------------------------------------------------------------
(* The pages.                                                              *)

Better(e, f) == e.score > f.score \/ (e.score = f.score /\ e.id > f.id)

(* Mutant: no tie-break by identifier.                                     *)
ComesAfterByScore(e, c) == c = None \/ e.score < c.score

(* Mutant: the last Moin of a page opens the next one.                     *)
ComesAfterOrSame(e, c) ==
    c = None \/ e.score < c.score \/ (e.score = c.score /\ e.id <= c.id)

(* The keyset condition of QueryRankedSnapshot and writeFollowingFeed.     *)
ComesAfter(e, c) ==
    c = None \/ e.score < c.score \/ (e.score = c.score /\ e.id < c.id)

First(n, entries) ==
    {e \in entries : Cardinality({f \in entries : Better(f, e)}) < n}

Worst(entries) == CHOOSE e \in entries : \A f \in entries : f = e \/ Better(f, e)

(* The page after a cursor, of the entries that are still on the Flow.     *)
PageOf(m, entries, c, snap, bucket) ==
    LET rows == {e \in entries : e.id \in On(m) /\ ComesAfter(e, c)}
        items == First(Limit, rows)
        last == Worst(items)
    IN  [items |-> items,
         bucket |-> bucket,
         next |-> IF items = rows THEN None
                  ELSE [snap |-> snap, score |-> last.score, id |-> last.id]]

(* A page is read; a first page decides what its chain is due to show.     *)
Answer(r, entries, snap, bucket) ==
    LET m == mode[req[r].tab] IN
    req' = [req EXCEPT ![r] =
        [Settled(@, "answered", None) EXCEPT
            !.cursor = None,
            !.page = PageOf(m, entries, req[r].cursor, snap, bucket),
            !.due = IF req[r].cursor # None THEN {} ELSE {e \in entries : e.id \in On(m)}]]

(* writeFollowingFeed: the Moins themselves, by (published_at, id).        *)
ReadFollowing(r) ==
    /\ req[r] # None /\ req[r].state = "sent" /\ mode[req[r].tab] = "following"
    /\ Answer(r, {[id |-> p, score |-> 0] : p \in Post}, None, clock)
    /\ UNCHANGED <<serverVars, tabVars>>

(* The snapshot of the request, from its cursor if it has one.             *)
SnapOf(q) == IF q.cursor = None THEN q.snap ELSE q.cursor.snap

(* Snapshot and QueryRankedSnapshot: the second repeats what the first has *)
(* checked, so that a request with a cursor is one step.                   *)
ReadRanked(r) ==
    /\ req[r] # None
    /\ mode[req[r].tab] = "for_me"
    /\ req[r].state = IF req[r].cursor = None THEN "page" ELSE "sent"
    /\ \E s \in snapshots :
           /\ s.id = SnapOf(req[r]) /\ Active(s)
           /\ Answer(r, s.items, s.id, s.bucket)
    /\ UNCHANGED <<serverVars, tabVars>>

-----------------------------------------------------------------------------
(* useFeedPages.                                                           *)

(* load: a new request for the page at a place of the chain; it takes over *)
(* from the one before, which may be on its way still.                     *)
Load(t, place, c) ==
    \E r \in Request :
        /\ req[r] = None
        /\ req' = [req EXCEPT ![r] =
               [tab |-> t, place |-> place, cursor |-> c, state |-> "sent",
                bucket |-> 0, made |-> 0, pref |-> None, snap |-> None, drop |-> {},
                items |-> {}, page |-> None, due |-> {}]]
        /\ current' = [current EXCEPT ![t] = r]
        /\ cursor' = [cursor EXCEPT ![t] = place]

CursorAt(t, place) == IF place = 0 THEN None ELSE pages[t][place].next

(* nextUnseenCursor: the chain goes on after the page last wanted.         *)
HasMore(t) ==
    /\ Len(pages[t]) = cursor[t] + 1
    /\ pages[t][cursor[t] + 1].next # None

LoadMore(t) ==
    /\ ~ Loading(t)
    /\ HasMore(t)
    /\ Load(t, cursor[t] + 1, CursorAt(t, cursor[t] + 1))
    /\ UNCHANGED <<serverVars, mode, pages, due>>

(* reload, after an error: the page wanted is asked for again.             *)
Retry(t) ==
    /\ ~ Loading(t)
    /\ Len(pages[t]) = cursor[t]
    /\ Load(t, cursor[t], CursorAt(t, cursor[t]))
    /\ UNCHANGED <<serverVars, mode, pages, due>>

(* The mount, the button, which is disabled while a page loads, or a Moin  *)
(* that the viewer has just posted, at any time.                           *)
ReloadFirstPage(t) ==
    /\ Load(t, 0, None)
    /\ UNCHANGED <<serverVars, mode, pages, due>>

(* Mutant: whatever arrives is shown.                                      *)
WantedAlways(r) == TRUE

(* The guard of load: neither superseded nor aborted.                      *)
Wanted(r) == current[req[r].tab] = r

(* replaceFeedPage.                                                        *)
Land(r) ==
    /\ req[r] # None /\ req[r].state = "answered" /\ Wanted(r)
    /\ LET t == req[r].tab
           k == req[r].place
       IN  /\ pages' = [pages EXCEPT ![t] = Append(SubSeq(@, 1, k), req[r].page)]
           /\ current' = [current EXCEPT ![t] = None]
           /\ due' = [due EXCEPT ![t] = IF k = 0 THEN req[r].due ELSE @]
    /\ req' = [req EXCEPT ![r] = None]
    /\ UNCHANGED <<serverVars, mode, cursor>>

(* feed_snapshot_busy, feed_snapshot_expired, an error of the database, a  *)
(* request aborted by its client: the transaction, if any, is rolled back. *)
(* Who waits for the page is shown an error; an answer to a request that   *)
(* has been superseded is dropped like this too.                           *)
Fail(r) ==
    /\ req[r] # None
    /\ req' = [req EXCEPT ![r] = None]
    /\ current' = IF Wanted(r) THEN [current EXCEPT ![req[r].tab] = None] ELSE current
    /\ UNCHANGED <<serverVars, mode, pages, cursor, due>>

-----------------------------------------------------------------------------
Moins == \E p \in Post : Publish(p) \/ Withdraw(p)

Social ==
    \/ \E a \in Other : FollowUser(a) \/ UnfollowUser(a) \/ MuteUser(a) \/ UnmuteUser(a)
    \/ \E c \in Topic : FollowTopic(c) \/ UnfollowTopic(c)
    \/ \E b \in Pair : BlockUser(b[1], b[2]) \/ UnblockUser(b[1], b[2])

Handler(r) ==
    Start(r) \/ Rank(r) \/ Commit(r) \/ ReadFollowing(r) \/ ReadRanked(r)

Flow(t) == LoadMore(t) \/ Retry(t) \/ ReloadFirstPage(t)

Response(r) == Land(r) \/ Fail(r)

Next ==
    \/ Tick \/ Moins \/ Social
    \/ \E r \in Request : Handler(r) \/ Response(r)
    \/ \E t \in Tab : Flow(t)

Spec == Init /\ [][Next]_vars

-----------------------------------------------------------------------------
(* Properties.                                                             *)

TypeOK ==
    /\ clock \in Nat
    /\ follows \subseteq Author \cup Topic
    /\ snapshots \subseteq SnapshotRow
    /\ req \in [Request -> Req \cup {None}]
    /\ mode \in [Tab -> Mode]
    /\ pages \in [Tab -> Seq(Page)]
    /\ cursor \in [Tab -> Nat]
    /\ current \in [Tab -> Request \cup {None}]
    /\ due \in [Tab -> SUBSET Entry]

(* A viewer holds at most the new and the retained active snapshots,       *)
(* three, however many first pages are asked for at once                   *)
(* (docs/architecture.md, CreateOrReuseRankedSnapshot).                    *)
SnapshotsBounded == Cardinality({s \in snapshots : Active(s)}) <= Retained + 1

Shown(t) == UNION {pages[t][i].items : i \in 1 .. Len(pages[t])}

(* Keyset paging skips nothing: a Moin that has been on the Flow ever      *)
(* since the first page was read is on one of the pages once the chain has *)
(* gone past its rank, whatever was published, deleted, blocked, re-ranked *)
(* or refreshed in between.                                                *)
NothingSkipped ==
    \A t \in Tab :
        pages[t] # <<>> =>
            LET next == pages[t][Len(pages[t])].next IN
            \A e \in due[t] :
                next = None \/ e.id = next.id \/ Better(e, next) => e \in Shown(t)

(* No Moin is shown twice by a chain of pages.                             *)
ShownOnce ==
    \A t \in Tab : \A i, j \in 1 .. Len(pages[t]) :
        i # j => \A e \in pages[t][i].items, f \in pages[t][j].items : e.id # f.id

(* A Flow never falls back to an older first page: an answer that comes    *)
(* late does not replace a newer one.                                      *)
NeverGoesBack ==
    [][\A t \in Tab :
           pages[t] # <<>> => pages'[t][1].bucket >= pages[t][1].bucket]_vars
=============================================================================
