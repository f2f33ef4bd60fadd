----------------------------- MODULE QueryCache -----------------------------
(***************************************************************************)
(* The query layer of the browser: the shared cache and requests of        *)
(* hooks/apiQueryClient.ts, the hook useApiQuery that shows them, and the  *)
(* event with which api/client.ts announces a mutation.                    *)
(*                                                                         *)
(* What the server answers to a query is a revision of the area (the first *)
(* segment of the path) that the query belongs to.  A mutation of this tab *)
(* invalidates the area of its own path only.  What it changes in another  *)
(* area (a follow is posted to /links and shown by /users) is for that     *)
(* area a ChangeElsewhere: nothing is announced to its views.              *)
(*                                                                         *)
(* JavaScript runs one callback at a time; an action is one callback, and  *)
(* callbacks of the same promise chain are separate actions.               *)
(***************************************************************************)
EXTENDS Naturals, Sequences

CONSTANTS
    Query,        \* paths of GET requests
    Area,         \* what a mutation invalidates
    AreaOf,       \* [Query -> Area], apiQueryResourceKeys
    View,         \* mounted uses of the hook
    Paths,        \* [View -> the paths that this use may ask for]
    None,         \* no path, no data, no request
    MaxEntries,   \* MAX_QUERY_CACHE_ENTRIES
    Retries,      \* DEFAULT_QUERY_RETRIES
    MaxRevision   \* bound: mutations of an area

ASSUME QueryAssumption ==
    /\ AreaOf \in [Query -> Area]
    /\ Paths \in [View -> SUBSET Query]
    /\ None \notin Query /\ None \notin Nat
    /\ MaxEntries \in Nat \ {0}
    /\ Retries \in Nat
    /\ MaxRevision \in Nat

Revision == 0..MaxRevision
Data == [of : Query, rev : Revision]

Outcome == [of : Query, rev : Revision \cup {None}]   \* without a revision: rejected

ASSUME DataAssumption == None \notin Data /\ None \notin Outcome

VARIABLES
    (* the server, and one mutation of this tab per area *)
    version,    \* [Area -> revision]
    mutation,   \* [Area -> the revision it committed, or None]
    (* history *)
    acked,      \* [Area -> newest revision that was announced]
    seen,       \* [Query -> newest revision that a view has settled on]
    dropped,    \* views that lost the request they wait for to a Clear
    (* the client *)
    order,      \* paths in the cache, the least recently used first
    entry,      \* [Query -> cached revision or None]
    fresh,      \* [Query -> the entry is within its TTL]
    phase,      \* [Query -> the shared request]
    answer,     \* [Query -> revision in its response]
    attempt,    \* [Query -> its retries so far]
    consumers,  \* [Query -> views that wait for it]
    detached,   \* aborted requests whose response may still come
    (* the hooks *)
    path,       \* [View -> path or None]
    shown,      \* [View -> data or None]
    busy,       \* [View -> loading, initially or in the background]
    stale,      \* [View -> shown as stale]
    result      \* [View -> outcome of its latest load that it has not taken]

worldVars == <<version, mutation, acked, seen>>
cacheVars == <<order, entry, fresh>>
requestVars == <<phase, answer, attempt, consumers, detached>>
viewVars == <<path, shown, busy, stale, result, dropped>>
vars == <<worldVars, cacheVars, requestVars, viewVars>>

Newer(r, s) == IF r > s THEN r ELSE s

(* Responses, timers and clicks are tasks of the browser; the              *)
(* continuations that an earlier task has settled run first.               *)
Drained == \A v \in View : result[v] = None

Init ==
    /\ version = [a \in Area |-> 0]
    /\ mutation = [a \in Area |-> None]
    /\ acked = [a \in Area |-> 0]
    /\ seen = [q \in Query |-> 0]
    /\ order = <<>>
    /\ entry = [q \in Query |-> None]
    /\ fresh = [q \in Query |-> FALSE]
    /\ phase = [q \in Query |-> "none"]
    /\ answer = [q \in Query |-> 0]
    /\ attempt = [q \in Query |-> 0]
    /\ consumers = [q \in Query |-> {}]
    /\ detached = {}
    /\ path = [v \in View |-> None]
    /\ shown = [v \in View |-> None]
    /\ busy = [v \in View |-> FALSE]
    /\ stale = [v \in View |-> FALSE]
    /\ result = [v \in View |-> None]
    /\ dropped = {}

-----------------------------------------------------------------------------
(* The cache.                                                              *)

Without(s, qs) == SelectSeq(s, LAMBDA q : q \notin qs)

(* touchCacheEntry.                                                        *)
Touch(q) == order' = Append(Without(order, {q}), q) /\ UNCHANGED <<entry, fresh>>

(* writeApiQueryCache and evictOverflowingEntries.                         *)
Put(q, r) ==
    LET o == Append(Without(order, {q}), q)
        over == IF Len(o) > MaxEntries THEN Len(o) - MaxEntries ELSE 0
        evicted == {o[k] : k \in 1..over}
    IN /\ order' = SubSeq(o, over + 1, Len(o))
       /\ entry' = [p \in Query |-> IF p \in evicted THEN None
                                    ELSE IF p = q THEN r ELSE entry[p]]
       /\ fresh' = [p \in Query |-> p = q \/ (p \notin evicted /\ fresh[p])]

(* The TTL has passed; the entry may still be shown while it is reloaded.  *)
Ages(q) ==
    /\ entry[q] # None /\ fresh[q]
    /\ fresh' = [fresh EXCEPT ![q] = FALSE]
    /\ UNCHANGED <<order, entry, worldVars, requestVars, viewVars>>

(* Too old even for that: readApiQueryCache deletes it.                    *)
Expires(q) ==
    /\ entry[q] # None /\ ~fresh[q]
    /\ entry' = [entry EXCEPT ![q] = None]
    /\ order' = Without(order, {q})
    /\ UNCHANGED <<fresh, worldVars, requestVars, viewVars>>

-----------------------------------------------------------------------------
(* Consumers and shared requests.                                          *)

(* The response of an aborted request can still arrive.  Bounds: those of  *)
(* the last abort only, and none that no mutation can outdate any more.    *)
Detached(qs) ==
    LET served == {q \in qs : phase[q] = "served" /\ answer[q] < MaxRevision}
        last == {[of |-> q, rev |-> answer[q]] : q \in served}
    IN IF last = {} THEN detached ELSE last

(* Mutant: one consumer that leaves aborts the request of the others.      *)
AbandonedByOne(vs) == {q \in Query : consumers[q] \cap vs # {}}

(* Mutant: an abandoned request goes on.                                   *)
AbandonedNever(vs) == {}

(* releaseConsumer: requests that nobody else waits for are aborted.       *)
Abandoned(vs) == {q \in Query : consumers[q] # {} /\ consumers[q] \subseteq vs}

Leave(v) ==
    LET gone == Abandoned({v}) IN
      /\ phase' = [q \in Query |-> IF q \in gone THEN "none" ELSE phase[q]]
      /\ consumers' = [q \in Query |-> consumers[q] \ {v}]
      /\ detached' = Detached(gone)
      /\ answer' = [q \in Query |-> IF q \in gone THEN 0 ELSE answer[q]]
      /\ attempt' = [q \in Query |-> IF q \in gone THEN 0 ELSE attempt[q]]

(* requestApiQuery: join the request under way or send one.                *)
Join(v, q) ==
    LET gone == Abandoned({v})
        new == phase[q] = "none" \/ q \in gone
    IN /\ phase' = [p \in Query |-> IF p = q /\ new THEN "sent"
                                    ELSE IF p \in gone THEN "none" ELSE phase[p]]
       /\ consumers' = [p \in Query |-> IF p = q THEN (consumers[p] \ {v}) \cup {v}
                                        ELSE consumers[p] \ {v}]
       /\ detached' = Detached(gone)
       /\ answer' = [p \in Query |-> IF p \in gone THEN 0 ELSE answer[p]]
       /\ attempt' = [p \in Query |-> IF p \in gone THEN 0 ELSE attempt[p]]

(* load: the earlier load of the view is superseded.                       *)
Load(v, q, seed) ==
    /\ Join(v, q)
    /\ path' = [path EXCEPT ![v] = q]
    /\ shown' = [shown EXCEPT ![v] = seed]
    /\ busy' = [busy EXCEPT ![v] = TRUE]
    /\ stale' = [stale EXCEPT ![v] = seed # None]
    /\ result' = [result EXCEPT ![v] = None]
    /\ dropped' = dropped \ {v}

-----------------------------------------------------------------------------
(* The hook: a path is set, changed, reloaded or unmounted.                *)

ShowFresh(v, q) ==
    /\ Drained /\ path[v] # q
    /\ entry[q] # None /\ fresh[q]
    /\ Touch(q) /\ Leave(v)
    /\ path' = [path EXCEPT ![v] = q]
    /\ shown' = [shown EXCEPT ![v] = [of |-> q, rev |-> entry[q]]]
    /\ busy' = [busy EXCEPT ![v] = FALSE]
    /\ stale' = [stale EXCEPT ![v] = FALSE]
    /\ result' = [result EXCEPT ![v] = None]
    /\ dropped' = dropped \ {v}
    /\ seen' = [seen EXCEPT ![q] = Newer(@, entry[q])]
    /\ UNCHANGED <<version, mutation, acked>>

ShowStale(v, q) ==
    /\ Drained /\ path[v] # q
    /\ entry[q] # None /\ ~fresh[q]
    /\ Touch(q)
    /\ Load(v, q, [of |-> q, rev |-> entry[q]])
    /\ UNCHANGED worldVars

(* keepPreviousData shows what another path had, as stale.                 *)
ShowNew(v, q) ==
    /\ Drained /\ path[v] # q
    /\ entry[q] = None
    /\ \E seed \in {None, shown[v]} : Load(v, q, seed)
    /\ UNCHANGED <<worldVars, cacheVars>>

Reload(v) ==
    /\ Drained /\ path[v] # None
    /\ Load(v, path[v], shown[v])
    /\ UNCHANGED <<worldVars, cacheVars>>

Unmount(v) ==
    /\ path[v] # None
    /\ Leave(v)
    /\ path' = [path EXCEPT ![v] = None]
    /\ shown' = [shown EXCEPT ![v] = None]
    /\ busy' = [busy EXCEPT ![v] = FALSE]
    /\ stale' = [stale EXCEPT ![v] = FALSE]
    /\ result' = [result EXCEPT ![v] = None]
    /\ dropped' = dropped \ {v}
    /\ UNCHANGED <<worldVars, cacheVars>>

-----------------------------------------------------------------------------
(* A request on its way.                                                   *)

Serve(q) ==
    /\ phase[q] = "sent"
    /\ phase' = [phase EXCEPT ![q] = "served"]
    /\ answer' = [answer EXCEPT ![q] = version[AreaOf[q]]]
    /\ UNCHANGED <<attempt, consumers, detached, worldVars, cacheVars, viewVars>>

(* A network error, 429 or 503: wait, and send it again.                   *)
Retry(q) ==
    /\ phase[q] \in {"sent", "served"} /\ attempt[q] < Retries
    /\ phase' = [phase EXCEPT ![q] = "waiting"]
    /\ answer' = [answer EXCEPT ![q] = 0]
    /\ UNCHANGED <<attempt, consumers, detached, worldVars, cacheVars, viewVars>>

(* Mutant: the timer of the retry was removed with an abort listener.      *)
ResendNever(q) == FALSE /\ UNCHANGED vars

Resend(q) ==
    /\ phase[q] = "waiting"
    /\ phase' = [phase EXCEPT ![q] = "sent"]
    /\ attempt' = [attempt EXCEPT ![q] = @ + 1]
    /\ UNCHANGED <<answer, consumers, detached, worldVars, cacheVars, viewVars>>

(* The promise settles for every consumer at once.                         *)
Finish(q, outcome) ==
    /\ phase' = [phase EXCEPT ![q] = "none"]
    /\ answer' = [answer EXCEPT ![q] = 0]
    /\ attempt' = [attempt EXCEPT ![q] = 0]
    /\ consumers' = [consumers EXCEPT ![q] = {}]
    /\ result' = [v \in View |-> IF v \in consumers[q] THEN outcome ELSE result[v]]
    /\ UNCHANGED <<detached, path, shown, busy, stale, dropped>>

(* Any other error, or one too many.                                       *)
Reject(q) ==
    /\ Drained /\ phase[q] \in {"sent", "served"}
    /\ Finish(q, [of |-> q, rev |-> None])
    /\ UNCHANGED <<worldVars, cacheVars>>

(* The response of a request that is still the shared one is cached and    *)
(* handed to the consumers.                                                *)
Land(q) ==
    /\ Drained /\ phase[q] = "served"
    /\ Put(q, answer[q])
    /\ Finish(q, [of |-> q, rev |-> answer[q]])
    /\ UNCHANGED worldVars

(* Mutant: a detached response is cached as that of the shared request is. *)
LandDetachedCached(d) ==
    /\ d \in detached
    /\ detached' = detached \ {d}
    /\ Put(d.of, d.rev)
    /\ UNCHANGED <<phase, answer, attempt, consumers, worldVars, viewVars>>

(* The response of a detached request is not used.                         *)
LandDetached(d) ==
    /\ d \in detached
    /\ detached' = detached \ {d}
    /\ UNCHANGED <<phase, answer, attempt, consumers, worldVars, cacheVars, viewVars>>

(* The continuation of load; a failure leaves the seed on the screen, as   *)
(* stale.                                                                  *)
Continue(v) ==
    /\ result[v] # None
    /\ LET failed == result[v].rev = None IN
         /\ stale' = [stale EXCEPT ![v] = failed /\ shown[v] # None]
         /\ shown' = [shown EXCEPT ![v] = IF failed THEN @ ELSE result[v]]
         /\ seen' = [q \in Query |-> IF ~failed /\ q = result[v].of
                                     THEN Newer(seen[q], result[v].rev) ELSE seen[q]]
    /\ busy' = [busy EXCEPT ![v] = FALSE]
    /\ result' = [result EXCEPT ![v] = None]
    /\ UNCHANGED <<path, dropped, version, mutation, acked, cacheVars, requestVars>>

-----------------------------------------------------------------------------
(* Mutations.                                                              *)

Change(a) == version[a] < MaxRevision /\ version' = [version EXCEPT ![a] = @ + 1]

(* Another tab or user.                                                    *)
ChangeElsewhere(a) ==
    /\ Change(a)
    /\ UNCHANGED <<mutation, acked, seen, cacheVars, requestVars, viewVars>>

Commit(a) ==
    /\ mutation[a] = None
    /\ Change(a)
    /\ mutation' = [mutation EXCEPT ![a] = version[a] + 1]
    /\ UNCHANGED <<acked, seen, cacheVars, requestVars, viewVars>>

(* No answer, or an error: nothing is announced.                           *)
CommitUnknown(a) ==
    /\ mutation[a] # None
    /\ mutation' = [mutation EXCEPT ![a] = None]
    /\ UNCHANGED <<version, acked, seen, cacheVars, requestVars, viewVars>>

(* invalidateApiQueries: entries go, requests are detached, and then the   *)
(* views start over together.                                              *)
Invalidate(qs) ==
    LET vs == {v \in View : path[v] \in qs} IN
      /\ order' = Without(order, qs)
      /\ entry' = [q \in Query |-> IF q \in qs THEN None ELSE entry[q]]
      /\ phase' = [q \in Query |-> IF q \notin qs THEN phase[q]
                                   ELSE IF \E v \in vs : path[v] = q THEN "sent" ELSE "none"]
      /\ consumers' = [q \in Query |-> IF q \in qs THEN {v \in vs : path[v] = q} ELSE consumers[q]]
      /\ attempt' = [q \in Query |-> IF q \in qs THEN 0 ELSE attempt[q]]
      /\ detached' = Detached(qs)
      /\ busy' = [v \in View |-> v \in vs \/ busy[v]]
      /\ stale' = [v \in View |-> IF v \in vs THEN shown[v] # None ELSE stale[v]]
      /\ result' = [v \in View |-> IF v \in vs THEN None ELSE result[v]]
      /\ answer' = [q \in Query |-> IF q \in qs THEN 0 ELSE answer[q]]
      /\ fresh' = [q \in Query |-> q \notin qs /\ fresh[q]]
      /\ dropped' = dropped \ vs
      /\ UNCHANGED <<path, shown>>

(* The answer of the mutation: moina:api-mutated.                          *)
Announce(a) ==
    /\ mutation[a] # None
    /\ mutation' = [mutation EXCEPT ![a] = None]
    /\ acked' = [acked EXCEPT ![a] = Newer(@, mutation[a])]
    /\ Invalidate({q \in Query : AreaOf[q] = a})
    /\ UNCHANGED <<version, seen>>

(* clearApiQueryCache({ abort: true }) at a login, a logout and an answer  *)
(* 401.  The views are still mounted: the hook of one that waits for a     *)
(* request returns from the AbortError without a word, and its spinner     *)
(* stays on.                                                               *)
Clear ==
    /\ order' = <<>>
    /\ entry' = [q \in Query |-> None]
    /\ fresh' = [q \in Query |-> FALSE]
    /\ phase' = [q \in Query |-> "none"]
    /\ consumers' = [q \in Query |-> {}]
    /\ detached' = Detached(Query)
    /\ answer' = [q \in Query |-> 0]
    /\ attempt' = [q \in Query |-> 0]
    /\ dropped' = dropped \cup UNION {consumers[q] : q \in Query}
    /\ UNCHANGED <<worldVars, path, shown, busy, stale, result>>

-----------------------------------------------------------------------------
Hook(v) ==
    \/ \E q \in Paths[v] : ShowFresh(v, q) \/ ShowStale(v, q) \/ ShowNew(v, q)
    \/ Reload(v) \/ Unmount(v) \/ Continue(v)

Request(q) ==
    \/ Serve(q) \/ Retry(q) \/ Resend(q) \/ Reject(q) \/ Land(q)
    \/ Ages(q) \/ Expires(q)

Mutation(a) == ChangeElsewhere(a) \/ Commit(a) \/ CommitUnknown(a) \/ Announce(a)

Next ==
    \/ \E v \in View : Hook(v)
    \/ \E q \in Query : Request(q)
    \/ \E d \in detached : LandDetached(d)
    \/ \E a \in Area : Mutation(a)
    \/ Clear

Spec == Init /\ [][Next]_vars

(* What the query layer owes to a request: an answer, a retry, a result.   *)
Advance(q) == Serve(q) \/ Resend(q) \/ Reject(q) \/ Land(q)

(* What a view does of itself: it takes a result or goes with the user.  A *)
(* clear that finds views mounted comes with setUser(null), upon which     *)
(* Protected redirects to the login page and its views are unmounted.      *)
Follow(v) == Continue(v) \/ (v \in dropped /\ Unmount(v))

(* A request is answered or fails, timers fire and continuations run;      *)
(* users and mutations do as they like.  Strong fairness: a task waits for *)
(* the continuations before it, and there may always be new ones.          *)
FairSpec ==
    /\ Spec
    /\ \A q \in Query : SF_vars(Advance(q))
    /\ \A v \in View : WF_vars(Follow(v))

-----------------------------------------------------------------------------
(* The server, the cache, the requests and the views keep their types.     *)
TypeOK ==
    /\ version \in [Area -> Revision]
    /\ mutation \in [Area -> Revision \cup {None}]
    /\ acked \in [Area -> Revision]
    /\ seen \in [Query -> Revision]
    /\ entry \in [Query -> Revision \cup {None}]
    /\ fresh \in [Query -> BOOLEAN]
    /\ phase \in [Query -> {"none", "sent", "served", "waiting"}]
    /\ answer \in [Query -> Revision]
    /\ attempt \in [Query -> 0..Retries]
    /\ \A q \in Query : phase[q] = "waiting" => attempt[q] < Retries
    /\ consumers \in [Query -> SUBSET View]
    /\ detached \subseteq Data
    /\ path \in [View -> Query \cup {None}]
    /\ shown \in [View -> Data \cup {None}]
    /\ busy \in [View -> BOOLEAN]
    /\ stale \in [View -> BOOLEAN]
    /\ result \in [View -> Outcome \cup {None}]
    /\ dropped \subseteq View

(* A view that is neither loading nor marked as stale.                     *)
Settled(v) == shown[v] # None /\ ~busy[v] /\ ~stale[v]

(* "Such a response must never repopulate the cache after the mutation":   *)
(* once a mutation has been answered, neither the cache nor a view that is *)
(* not marked shows anything older of the area of the mutation's path.     *)
ReadYourWrites ==
    /\ \A q \in Query : entry[q] # None => entry[q] >= acked[AreaOf[q]]
    /\ \A v \in View : Settled(v) => shown[v].rev >= acked[AreaOf[shown[v].of]]

(* Nothing waits for ever: behind every loading view there is a request    *)
(* under way or a result that it has not taken yet, unless a clear took    *)
(* the request from it.                                                    *)
LoadingIsBacked ==
    \A v \in View : busy[v] =>
        \/ phase[path[v]] # "none" /\ v \in consumers[path[v]]
        \/ result[v] # None
        \/ v \in dropped

(* A request for which no view waits any more has been aborted.            *)
NobodyWaitsInVain == \A q \in Query : phase[q] # "none" => consumers[q] # {}

(* What a view settles on is never older than what any view has settled on *)
(* for that path before.                                                   *)
NeverBackwards ==
    [][\A v \in View :
         (Settled(v)' /\ (shown'[v] # shown[v] \/ ~Settled(v)))
            => shown'[v].rev >= seen[shown'[v].of]]_vars

(* The view itself starts over.                                            *)
Restarts(v) == Reload(v) \/ \E q \in Paths[v] : ShowStale(v, q) \/ ShowNew(v, q)

(* A load ends, with data, with an error or with its view, although        *)
(* failures, retries, mutations, clears and other views interrupt it,      *)
(* unless its own view starts over for ever.                               *)
LoadsEnd ==
    \A v \in View : []<><<Restarts(v)>>_vars \/ (busy[v] ~> ~busy[v])
=============================================================================
