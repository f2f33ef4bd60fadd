-------------------------- MODULE QueryCacheProofs --------------------------
(***************************************************************************)
(* What the query layer of the browser owes to its views, for any number   *)
(* of paths, areas, views, retries and mutations and any size of cache.    *)
(***************************************************************************)
EXTENDS QueryCache, TLAPS

(* Each use of the hook asks only for paths that exist.                    *)
LEMMA PathsAreQueries == \A v \in View : \A q \in Paths[v] : q \in Query
BY QueryAssumption

(* What is remembered of an abort is data.                                 *)
LEMMA DetachedType ==
    ASSUME TypeOK, NEW qs \in SUBSET Query PROVE Detached(qs) \subseteq Data
BY DEF Detached, TypeOK, Data

(* Every revision that is put on the server is within the bound.           *)
LEMMA NewerType == \A r, s \in Revision : Newer(r, s) \in Revision
BY QueryAssumption DEF Newer, Revision

(* The server, the cache, the requests and the views keep their types.     *)
LEMMA TypeStep == TypeOK /\ [Next]_vars => TypeOK'
<1> SUFFICES ASSUME TypeOK, [Next]_vars PROVE TypeOK'
  OBVIOUS
<1> USE QueryAssumption, PathsAreQueries DEF worldVars, cacheVars, requestVars, viewVars
<1>1. ASSUME NEW v \in View, NEW q \in Query, ShowFresh(v, q) PROVE TypeOK'
  <2>0. Abandoned({v}) \in SUBSET Query
    BY DEF Abandoned
  <2>1. /\ version' \in [Area -> Revision] /\ acked' \in [Area -> Revision] /\ seen' \in [Query -> Revision]
        /\ mutation' \in [Area -> Revision \cup {None}]
    BY <1>1, NewerType DEF ShowFresh, TypeOK, Touch, Leave, Abandoned, Newer, Data, Outcome, Revision
  <2>2. /\ entry' \in [Query -> Revision \cup {None}] /\ fresh' \in [Query -> BOOLEAN]
    BY <1>1 DEF ShowFresh, TypeOK, Touch, Leave, Abandoned, Newer, Data, Outcome, Revision
  <2>3. /\ phase' \in [Query -> {"none", "sent", "served", "waiting"}]
        /\ consumers' \in [Query -> SUBSET View]
    BY <1>1 DEF ShowFresh, TypeOK, Touch, Leave, Abandoned, Newer, Data, Outcome, Revision
  <2>4. /\ answer' \in [Query -> Revision] /\ attempt' \in [Query -> 0..Retries]
        /\ \A x \in Query : phase'[x] = "waiting" => attempt'[x] < Retries
    BY <1>1 DEF ShowFresh, TypeOK, Touch, Leave, Abandoned, Newer, Data, Outcome, Revision
  <2>5. detached' \subseteq Data
    BY <1>1, <2>0, DetachedType DEF ShowFresh, TypeOK, Touch, Leave, Abandoned, Newer, Data, Outcome, Revision
  <2>6. /\ path' \in [View -> Query \cup {None}] /\ shown' \in [View -> Data \cup {None}]
    BY <1>1 DEF ShowFresh, TypeOK, Touch, Leave, Abandoned, Newer, Data, Outcome, Revision
  <2>7. /\ busy' \in [View -> BOOLEAN] /\ stale' \in [View -> BOOLEAN]
        /\ result' \in [View -> Outcome \cup {None}] /\ dropped' \subseteq View
    BY <1>1 DEF ShowFresh, TypeOK, Touch, Leave, Abandoned, Newer, Data, Outcome, Revision
  <2> QED
    BY <2>1, <2>2, <2>3, <2>4, <2>5, <2>6, <2>7 DEF TypeOK
<1>2. ASSUME NEW v \in View, NEW q \in Query, ShowStale(v, q) PROVE TypeOK'
  <2>0. Abandoned({v}) \in SUBSET Query
    BY DEF Abandoned
  <2>1. /\ version' \in [Area -> Revision] /\ acked' \in [Area -> Revision] /\ seen' \in [Query -> Revision]
        /\ mutation' \in [Area -> Revision \cup {None}]
    BY <1>2, NewerType DEF ShowStale, TypeOK, Touch, Load, Join, Abandoned, Data, Outcome, Revision
  <2>2. /\ entry' \in [Query -> Revision \cup {None}] /\ fresh' \in [Query -> BOOLEAN]
    BY <1>2 DEF ShowStale, TypeOK, Touch, Load, Join, Abandoned, Data, Outcome, Revision
  <2>3. /\ phase' \in [Query -> {"none", "sent", "served", "waiting"}]
        /\ consumers' \in [Query -> SUBSET View]
    BY <1>2 DEF ShowStale, TypeOK, Touch, Load, Join, Abandoned, Data, Outcome, Revision
  <2>4. /\ answer' \in [Query -> Revision] /\ attempt' \in [Query -> 0..Retries]
        /\ \A x \in Query : phase'[x] = "waiting" => attempt'[x] < Retries
    BY <1>2 DEF ShowStale, TypeOK, Touch, Load, Join, Abandoned, Data, Outcome, Revision
  <2>5. detached' \subseteq Data
    BY <1>2, <2>0, DetachedType DEF ShowStale, TypeOK, Touch, Load, Join, Abandoned, Data, Outcome, Revision
  <2>6. /\ path' \in [View -> Query \cup {None}] /\ shown' \in [View -> Data \cup {None}]
    BY <1>2 DEF ShowStale, TypeOK, Touch, Load, Join, Abandoned, Data, Outcome, Revision
  <2>7. /\ busy' \in [View -> BOOLEAN] /\ stale' \in [View -> BOOLEAN]
        /\ result' \in [View -> Outcome \cup {None}] /\ dropped' \subseteq View
    BY <1>2 DEF ShowStale, TypeOK, Touch, Load, Join, Abandoned, Data, Outcome, Revision
  <2> QED
    BY <2>1, <2>2, <2>3, <2>4, <2>5, <2>6, <2>7 DEF TypeOK
<1>3. ASSUME NEW v \in View, NEW q \in Query, ShowNew(v, q) PROVE TypeOK'
  <2>0. Abandoned({v}) \in SUBSET Query
    BY DEF Abandoned
  <2>1. /\ version' \in [Area -> Revision] /\ acked' \in [Area -> Revision] /\ seen' \in [Query -> Revision]
        /\ mutation' \in [Area -> Revision \cup {None}]
    BY <1>3, NewerType DEF ShowNew, TypeOK, Load, Join, Abandoned, Data, Outcome, Revision
  <2>2. /\ entry' \in [Query -> Revision \cup {None}] /\ fresh' \in [Query -> BOOLEAN]
    BY <1>3 DEF ShowNew, TypeOK, Load, Join, Abandoned, Data, Outcome, Revision
  <2>3. /\ phase' \in [Query -> {"none", "sent", "served", "waiting"}]
        /\ consumers' \in [Query -> SUBSET View]
    BY <1>3 DEF ShowNew, TypeOK, Load, Join, Abandoned, Data, Outcome, Revision
  <2>4. /\ answer' \in [Query -> Revision] /\ attempt' \in [Query -> 0..Retries]
        /\ \A x \in Query : phase'[x] = "waiting" => attempt'[x] < Retries
    BY <1>3 DEF ShowNew, TypeOK, Load, Join, Abandoned, Data, Outcome, Revision
  <2>5. detached' \subseteq Data
    BY <1>3, <2>0, DetachedType DEF ShowNew, TypeOK, Load, Join, Abandoned, Data, Outcome, Revision
  <2>6. /\ path' \in [View -> Query \cup {None}] /\ shown' \in [View -> Data \cup {None}]
    BY <1>3 DEF ShowNew, TypeOK, Load, Join, Abandoned, Data, Outcome, Revision
  <2>7. /\ busy' \in [View -> BOOLEAN] /\ stale' \in [View -> BOOLEAN]
        /\ result' \in [View -> Outcome \cup {None}] /\ dropped' \subseteq View
    BY <1>3 DEF ShowNew, TypeOK, Load, Join, Abandoned, Data, Outcome, Revision
  <2> QED
    BY <2>1, <2>2, <2>3, <2>4, <2>5, <2>6, <2>7 DEF TypeOK
<1>4. ASSUME NEW v \in View, Reload(v) PROVE TypeOK'
  <2>0. Abandoned({v}) \in SUBSET Query
    BY DEF Abandoned
  <2>1. /\ version' \in [Area -> Revision] /\ acked' \in [Area -> Revision] /\ seen' \in [Query -> Revision]
        /\ mutation' \in [Area -> Revision \cup {None}]
    BY <1>4, NewerType DEF Reload, TypeOK, Load, Join, Abandoned, Data, Outcome, Revision
  <2>2. /\ entry' \in [Query -> Revision \cup {None}] /\ fresh' \in [Query -> BOOLEAN]
    BY <1>4 DEF Reload, TypeOK, Load, Join, Abandoned, Data, Outcome, Revision
  <2>3. /\ phase' \in [Query -> {"none", "sent", "served", "waiting"}]
        /\ consumers' \in [Query -> SUBSET View]
    BY <1>4 DEF Reload, TypeOK, Load, Join, Abandoned, Data, Outcome, Revision
  <2>4. /\ answer' \in [Query -> Revision] /\ attempt' \in [Query -> 0..Retries]
        /\ \A x \in Query : phase'[x] = "waiting" => attempt'[x] < Retries
    BY <1>4 DEF Reload, TypeOK, Load, Join, Abandoned, Data, Outcome, Revision
  <2>5. detached' \subseteq Data
    BY <1>4, <2>0, DetachedType DEF Reload, TypeOK, Load, Join, Abandoned, Data, Outcome, Revision
  <2>6. /\ path' \in [View -> Query \cup {None}] /\ shown' \in [View -> Data \cup {None}]
    BY <1>4 DEF Reload, TypeOK, Load, Join, Abandoned, Data, Outcome, Revision
  <2>7. /\ busy' \in [View -> BOOLEAN] /\ stale' \in [View -> BOOLEAN]
        /\ result' \in [View -> Outcome \cup {None}] /\ dropped' \subseteq View
    BY <1>4 DEF Reload, TypeOK, Load, Join, Abandoned, Data, Outcome, Revision
  <2> QED
    BY <2>1, <2>2, <2>3, <2>4, <2>5, <2>6, <2>7 DEF TypeOK
<1>5. ASSUME NEW v \in View, Unmount(v) PROVE TypeOK'
  <2>0. Abandoned({v}) \in SUBSET Query
    BY DEF Abandoned
  <2>1. /\ version' \in [Area -> Revision] /\ acked' \in [Area -> Revision] /\ seen' \in [Query -> Revision]
        /\ mutation' \in [Area -> Revision \cup {None}]
    BY <1>5, NewerType DEF Unmount, TypeOK, Leave, Abandoned, Data, Outcome, Revision
  <2>2. /\ entry' \in [Query -> Revision \cup {None}] /\ fresh' \in [Query -> BOOLEAN]
    BY <1>5 DEF Unmount, TypeOK, Leave, Abandoned, Data, Outcome, Revision
  <2>3. /\ phase' \in [Query -> {"none", "sent", "served", "waiting"}]
        /\ consumers' \in [Query -> SUBSET View]
    BY <1>5 DEF Unmount, TypeOK, Leave, Abandoned, Data, Outcome, Revision
  <2>4. /\ answer' \in [Query -> Revision] /\ attempt' \in [Query -> 0..Retries]
        /\ \A x \in Query : phase'[x] = "waiting" => attempt'[x] < Retries
    BY <1>5 DEF Unmount, TypeOK, Leave, Abandoned, Data, Outcome, Revision
  <2>5. detached' \subseteq Data
    BY <1>5, <2>0, DetachedType DEF Unmount, TypeOK, Leave, Abandoned, Data, Outcome, Revision
  <2>6. /\ path' \in [View -> Query \cup {None}] /\ shown' \in [View -> Data \cup {None}]
    BY <1>5 DEF Unmount, TypeOK, Leave, Abandoned, Data, Outcome, Revision
  <2>7. /\ busy' \in [View -> BOOLEAN] /\ stale' \in [View -> BOOLEAN]
        /\ result' \in [View -> Outcome \cup {None}] /\ dropped' \subseteq View
    BY <1>5 DEF Unmount, TypeOK, Leave, Abandoned, Data, Outcome, Revision
  <2> QED
    BY <2>1, <2>2, <2>3, <2>4, <2>5, <2>6, <2>7 DEF TypeOK
<1>6. ASSUME NEW v \in View, Continue(v) PROVE TypeOK'
  <2>1. /\ version' \in [Area -> Revision] /\ acked' \in [Area -> Revision] /\ seen' \in [Query -> Revision]
        /\ mutation' \in [Area -> Revision \cup {None}]
    BY <1>6, NewerType DEF Continue, TypeOK, Data, Outcome, Revision
  <2>2. /\ entry' \in [Query -> Revision \cup {None}] /\ fresh' \in [Query -> BOOLEAN]
    BY <1>6 DEF Continue, TypeOK, Data, Outcome, Revision
  <2>3. /\ phase' \in [Query -> {"none", "sent", "served", "waiting"}]
        /\ consumers' \in [Query -> SUBSET View]
    BY <1>6 DEF Continue, TypeOK, Data, Outcome, Revision
  <2>4. /\ answer' \in [Query -> Revision] /\ attempt' \in [Query -> 0..Retries]
        /\ \A x \in Query : phase'[x] = "waiting" => attempt'[x] < Retries
    BY <1>6 DEF Continue, TypeOK, Data, Outcome, Revision
  <2>5. detached' \subseteq Data
    BY <1>6 DEF Continue, TypeOK, Data, Outcome, Revision
  <2>6. /\ path' \in [View -> Query \cup {None}] /\ shown' \in [View -> Data \cup {None}]
    BY <1>6 DEF Continue, TypeOK, Data, Outcome, Revision
  <2>7. /\ busy' \in [View -> BOOLEAN] /\ stale' \in [View -> BOOLEAN]
        /\ result' \in [View -> Outcome \cup {None}] /\ dropped' \subseteq View
    BY <1>6 DEF Continue, TypeOK, Data, Outcome, Revision
  <2> QED
    BY <2>1, <2>2, <2>3, <2>4, <2>5, <2>6, <2>7 DEF TypeOK
<1>7. ASSUME NEW q \in Query, Serve(q) PROVE TypeOK'
  <2>1. answer' \in [Query -> Revision]
    BY <1>7 DEF Serve, TypeOK
  <2>2. QED
    BY <1>7, <2>1 DEF Serve, TypeOK
<1>8. ASSUME NEW q \in Query, Retry(q) PROVE TypeOK'
  BY <1>8 DEF Retry, TypeOK, Revision
<1>9. ASSUME NEW q \in Query, Resend(q) PROVE TypeOK'
  BY <1>9 DEF Resend, TypeOK
<1>10. ASSUME NEW q \in Query, Reject(q) PROVE TypeOK'
  <2>1. /\ version' \in [Area -> Revision] /\ acked' \in [Area -> Revision] /\ seen' \in [Query -> Revision]
        /\ mutation' \in [Area -> Revision \cup {None}]
    BY <1>10, NewerType DEF Reject, TypeOK, Finish, Data, Outcome, Revision
  <2>2. /\ entry' \in [Query -> Revision \cup {None}] /\ fresh' \in [Query -> BOOLEAN]
    BY <1>10 DEF Reject, TypeOK, Finish, Data, Outcome, Revision
  <2>3. /\ phase' \in [Query -> {"none", "sent", "served", "waiting"}]
        /\ consumers' \in [Query -> SUBSET View]
    BY <1>10 DEF Reject, TypeOK, Finish, Data, Outcome, Revision
  <2>4. /\ answer' \in [Query -> Revision] /\ attempt' \in [Query -> 0..Retries]
        /\ \A x \in Query : phase'[x] = "waiting" => attempt'[x] < Retries
    BY <1>10 DEF Reject, TypeOK, Finish, Data, Outcome, Revision
  <2>5. detached' \subseteq Data
    BY <1>10 DEF Reject, TypeOK, Finish, Data, Outcome, Revision
  <2>6. /\ path' \in [View -> Query \cup {None}] /\ shown' \in [View -> Data \cup {None}]
    BY <1>10 DEF Reject, TypeOK, Finish, Data, Outcome, Revision
  <2>7. /\ busy' \in [View -> BOOLEAN] /\ stale' \in [View -> BOOLEAN]
        /\ result' \in [View -> Outcome \cup {None}] /\ dropped' \subseteq View
    BY <1>10 DEF Reject, TypeOK, Finish, Data, Outcome, Revision
  <2> QED
    BY <2>1, <2>2, <2>3, <2>4, <2>5, <2>6, <2>7 DEF TypeOK
<1>11. ASSUME NEW q \in Query, Land(q) PROVE TypeOK'
  <2>1. /\ version' \in [Area -> Revision] /\ acked' \in [Area -> Revision] /\ seen' \in [Query -> Revision]
        /\ mutation' \in [Area -> Revision \cup {None}]
    BY <1>11, NewerType DEF Land, TypeOK, Finish, Put, Data, Outcome, Revision
  <2>2. /\ entry' \in [Query -> Revision \cup {None}] /\ fresh' \in [Query -> BOOLEAN]
    BY <1>11 DEF Land, TypeOK, Finish, Put, Data, Outcome, Revision
  <2>3. /\ phase' \in [Query -> {"none", "sent", "served", "waiting"}]
        /\ consumers' \in [Query -> SUBSET View]
    BY <1>11 DEF Land, TypeOK, Finish, Put, Data, Outcome, Revision
  <2>4. /\ answer' \in [Query -> Revision] /\ attempt' \in [Query -> 0..Retries]
        /\ \A x \in Query : phase'[x] = "waiting" => attempt'[x] < Retries
    BY <1>11 DEF Land, TypeOK, Finish, Put, Data, Outcome, Revision
  <2>5. detached' \subseteq Data
    BY <1>11 DEF Land, TypeOK, Finish, Put, Data, Outcome, Revision
  <2>6. /\ path' \in [View -> Query \cup {None}] /\ shown' \in [View -> Data \cup {None}]
    BY <1>11 DEF Land, TypeOK, Finish, Put, Data, Outcome, Revision
  <2>7. /\ busy' \in [View -> BOOLEAN] /\ stale' \in [View -> BOOLEAN]
        /\ result' \in [View -> Outcome \cup {None}] /\ dropped' \subseteq View
    BY <1>11 DEF Land, TypeOK, Finish, Put, Data, Outcome, Revision
  <2> QED
    BY <2>1, <2>2, <2>3, <2>4, <2>5, <2>6, <2>7 DEF TypeOK
<1>12. ASSUME NEW q \in Query, Ages(q) PROVE TypeOK'
  BY <1>12 DEF Ages, TypeOK
<1>13. ASSUME NEW q \in Query, Expires(q) PROVE TypeOK'
  BY <1>13 DEF Expires, TypeOK
<1>14. ASSUME NEW d \in detached, LandDetached(d) PROVE TypeOK'
  BY <1>14 DEF LandDetached, TypeOK
<1>15. ASSUME NEW a \in Area, ChangeElsewhere(a) PROVE TypeOK'
  BY <1>15 DEF ChangeElsewhere, TypeOK, Change, Revision
<1>16. ASSUME NEW a \in Area, Commit(a) PROVE TypeOK'
  BY <1>16 DEF Commit, TypeOK, Change, Revision
<1>17. ASSUME NEW a \in Area, CommitUnknown(a) PROVE TypeOK'
  BY <1>17 DEF CommitUnknown, TypeOK
<1>18. ASSUME NEW a \in Area, Announce(a) PROVE TypeOK'
  <2>0. {q \in Query : AreaOf[q] = a} \in SUBSET Query
    OBVIOUS
  <2>1. /\ version' \in [Area -> Revision] /\ acked' \in [Area -> Revision] /\ seen' \in [Query -> Revision]
        /\ mutation' \in [Area -> Revision \cup {None}]
    BY <1>18, NewerType DEF Announce, TypeOK, Invalidate, Revision
  <2>2. /\ entry' \in [Query -> Revision \cup {None}] /\ fresh' \in [Query -> BOOLEAN]
    BY <1>18 DEF Announce, TypeOK, Invalidate, Revision
  <2>3. /\ phase' \in [Query -> {"none", "sent", "served", "waiting"}]
        /\ consumers' \in [Query -> SUBSET View]
    BY <1>18 DEF Announce, TypeOK, Invalidate, Revision
  <2>4. /\ answer' \in [Query -> Revision] /\ attempt' \in [Query -> 0..Retries]
        /\ \A x \in Query : phase'[x] = "waiting" => attempt'[x] < Retries
    BY <1>18 DEF Announce, TypeOK, Invalidate, Revision
  <2>5. detached' \subseteq Data
    BY <1>18, <2>0, DetachedType DEF Announce, TypeOK, Invalidate, Revision
  <2>6. /\ path' \in [View -> Query \cup {None}] /\ shown' \in [View -> Data \cup {None}]
    BY <1>18 DEF Announce, TypeOK, Invalidate, Revision
  <2>7. /\ busy' \in [View -> BOOLEAN] /\ stale' \in [View -> BOOLEAN]
        /\ result' \in [View -> Outcome \cup {None}] /\ dropped' \subseteq View
    BY <1>18 DEF Announce, TypeOK, Invalidate, Revision
  <2> QED
    BY <2>1, <2>2, <2>3, <2>4, <2>5, <2>6, <2>7 DEF TypeOK
<1>19. CASE Clear
  <2>1. /\ version' \in [Area -> Revision] /\ acked' \in [Area -> Revision] /\ seen' \in [Query -> Revision]
        /\ mutation' \in [Area -> Revision \cup {None}]
    BY <1>19, NewerType DEF Clear, TypeOK, Revision
  <2>2. /\ entry' \in [Query -> Revision \cup {None}] /\ fresh' \in [Query -> BOOLEAN]
    BY <1>19 DEF Clear, TypeOK, Revision
  <2>3. /\ phase' \in [Query -> {"none", "sent", "served", "waiting"}]
        /\ consumers' \in [Query -> SUBSET View]
    BY <1>19 DEF Clear, TypeOK, Revision
  <2>4. /\ answer' \in [Query -> Revision] /\ attempt' \in [Query -> 0..Retries]
        /\ \A x \in Query : phase'[x] = "waiting" => attempt'[x] < Retries
    BY <1>19 DEF Clear, TypeOK, Revision
  <2>5. detached' \subseteq Data
    BY <1>19, DetachedType DEF Clear, TypeOK, Revision
  <2>6. /\ path' \in [View -> Query \cup {None}] /\ shown' \in [View -> Data \cup {None}]
    BY <1>19 DEF Clear, TypeOK, Revision
  <2>7. /\ busy' \in [View -> BOOLEAN] /\ stale' \in [View -> BOOLEAN]
        /\ result' \in [View -> Outcome \cup {None}] /\ dropped' \subseteq View
    BY <1>19 DEF Clear, TypeOK, Revision
  <2> QED
    BY <2>1, <2>2, <2>3, <2>4, <2>5, <2>6, <2>7 DEF TypeOK
<1>20. CASE UNCHANGED vars
  BY <1>20 DEF vars, TypeOK
<1>21. QED
  BY <1>1, <1>2, <1>3, <1>4, <1>5, <1>6, <1>7, <1>8, <1>9, <1>10, <1>11, <1>12, <1>13, <1>14,
     <1>15, <1>16, <1>17, <1>18, <1>19, <1>20
     DEF Next, Hook, Request, Mutation

(* The types hold of every behaviour.                                      *)
THEOREM TypeCorrect == Spec => []TypeOK
<1>1. Init => TypeOK
  BY QueryAssumption DEF Init, TypeOK, Data, Revision
<1>2. QED
  BY <1>1, TypeStep, PTL DEF Spec

-----------------------------------------------------------------------------
(* Waiting.  A view waits for one request, the one of the path it shows,   *)
(* and only until there is a result.                                       *)
Waits ==
    \A v \in View : \A q \in Query : v \in consumers[q] =>
        path[v] = q /\ phase[q] # "none" /\ busy[v] /\ result[v] = None

(* A view that loads has a path, and waits or has a result, of that path,  *)
(* unless a clear took the request from it.                                *)
Backed ==
    \A v \in View :
        /\ busy[v] => path[v] # None /\ (result[v] = None => v \in consumers[path[v]] \cup dropped)
        /\ result[v] # None => path[v] = result[v].of

(* Every step keeps them, and that nobody waits in vain.                   *)
LEMMA WaitStep ==
    TypeOK /\ Waits /\ Backed /\ NobodyWaitsInVain /\ [Next]_vars
      => Waits' /\ Backed' /\ NobodyWaitsInVain'
<1> SUFFICES ASSUME TypeOK, Waits, Backed, NobodyWaitsInVain, [Next]_vars
             PROVE  Waits' /\ Backed' /\ NobodyWaitsInVain'
  OBVIOUS
<1> USE QueryAssumption, PathsAreQueries
    DEF TypeOK, Waits, Backed, NobodyWaitsInVain, worldVars, cacheVars, requestVars, viewVars
<1>1. ASSUME NEW v \in View, NEW q \in Query, ShowFresh(v, q) PROVE Waits' /\ Backed' /\ NobodyWaitsInVain'
  <2>1. Waits'
    BY <1>1 DEF ShowFresh, Touch, Leave, Abandoned, Newer
  <2>2. Backed'
    BY <1>1 DEF ShowFresh, Touch, Leave, Abandoned, Newer
  <2>3. NobodyWaitsInVain'
    BY <1>1 DEF ShowFresh, Touch, Leave, Abandoned, Newer
  <2>4. QED
    BY <2>1, <2>2, <2>3
<1>2. ASSUME NEW v \in View, NEW q \in Query, ShowStale(v, q) PROVE Waits' /\ Backed' /\ NobodyWaitsInVain'
  <2>1. Waits'
    BY <1>2 DEF ShowStale, Touch, Load, Join, Abandoned
  <2>2. Backed'
    BY <1>2 DEF ShowStale, Touch, Load, Join, Abandoned
  <2>3. NobodyWaitsInVain'
    BY <1>2 DEF ShowStale, Touch, Load, Join, Abandoned
  <2>4. QED
    BY <2>1, <2>2, <2>3
<1>3. ASSUME NEW v \in View, NEW q \in Query, ShowNew(v, q) PROVE Waits' /\ Backed' /\ NobodyWaitsInVain'
  <2>1. Waits'
    BY <1>3 DEF ShowNew, Load, Join, Abandoned
  <2>2. Backed'
    BY <1>3 DEF ShowNew, Load, Join, Abandoned
  <2>3. NobodyWaitsInVain'
    BY <1>3 DEF ShowNew, Load, Join, Abandoned
  <2>4. QED
    BY <2>1, <2>2, <2>3
<1>4. ASSUME NEW v \in View, Reload(v) PROVE Waits' /\ Backed' /\ NobodyWaitsInVain'
  <2>1. Waits'
    BY <1>4 DEF Reload, Load, Join, Abandoned
  <2>2. Backed'
    BY <1>4 DEF Reload, Load, Join, Abandoned
  <2>3. NobodyWaitsInVain'
    BY <1>4 DEF Reload, Load, Join, Abandoned
  <2>4. QED
    BY <2>1, <2>2, <2>3
<1>5. ASSUME NEW v \in View, Unmount(v) PROVE Waits' /\ Backed' /\ NobodyWaitsInVain'
  <2>1. Waits'
    BY <1>5 DEF Unmount, Leave, Abandoned
  <2>2. Backed'
    BY <1>5 DEF Unmount, Leave, Abandoned
  <2>3. NobodyWaitsInVain'
    BY <1>5 DEF Unmount, Leave, Abandoned
  <2>4. QED
    BY <2>1, <2>2, <2>3
<1>6. ASSUME NEW v \in View, Continue(v) PROVE Waits' /\ Backed' /\ NobodyWaitsInVain'
  <2>1. Waits'
    BY <1>6 DEF Continue, Newer
  <2>2. Backed'
    BY <1>6 DEF Continue, Newer
  <2>3. NobodyWaitsInVain'
    BY <1>6 DEF Continue, Newer
  <2>4. QED
    BY <2>1, <2>2, <2>3
<1>7. ASSUME NEW q \in Query, Serve(q) PROVE Waits' /\ Backed' /\ NobodyWaitsInVain'
  BY <1>7 DEF Serve
<1>8. ASSUME NEW q \in Query, Retry(q) PROVE Waits' /\ Backed' /\ NobodyWaitsInVain'
  BY <1>8 DEF Retry
<1>9. ASSUME NEW q \in Query, Resend(q) PROVE Waits' /\ Backed' /\ NobodyWaitsInVain'
  BY <1>9 DEF Resend
<1>10. ASSUME NEW q \in Query, Reject(q) PROVE Waits' /\ Backed' /\ NobodyWaitsInVain'
  <2>1. Waits'
    BY <1>10 DEF Reject, Finish
  <2>6. [of |-> q, rev |-> None] # None
    BY DataAssumption DEF Outcome, Revision
  <2>2. Backed'
    BY <1>10, <2>6 DEF Reject, Finish
  <2>3. NobodyWaitsInVain'
    BY <1>10 DEF Reject, Finish
  <2>4. QED
    BY <2>1, <2>2, <2>3
<1>11. ASSUME NEW q \in Query, Land(q) PROVE Waits' /\ Backed' /\ NobodyWaitsInVain'
  <2>1. Waits'
    BY <1>11 DEF Land, Finish, Put
  <2>6. [of |-> q, rev |-> answer[q]] # None
    BY DataAssumption DEF Outcome, Revision
  <2>2. Backed'
    BY <1>11, <2>6 DEF Land, Finish, Put
  <2>3. NobodyWaitsInVain'
    BY <1>11 DEF Land, Finish, Put
  <2>4. QED
    BY <2>1, <2>2, <2>3
<1>12. ASSUME NEW q \in Query, Ages(q) PROVE Waits' /\ Backed' /\ NobodyWaitsInVain'
  BY <1>12 DEF Ages
<1>13. ASSUME NEW q \in Query, Expires(q) PROVE Waits' /\ Backed' /\ NobodyWaitsInVain'
  BY <1>13 DEF Expires
<1>14. ASSUME NEW d \in detached, LandDetached(d) PROVE Waits' /\ Backed' /\ NobodyWaitsInVain'
  BY <1>14 DEF LandDetached
<1>15. ASSUME NEW a \in Area, ChangeElsewhere(a) PROVE Waits' /\ Backed' /\ NobodyWaitsInVain'
  BY <1>15 DEF ChangeElsewhere, Change
<1>16. ASSUME NEW a \in Area, Commit(a) PROVE Waits' /\ Backed' /\ NobodyWaitsInVain'
  BY <1>16 DEF Commit, Change
<1>17. ASSUME NEW a \in Area, CommitUnknown(a) PROVE Waits' /\ Backed' /\ NobodyWaitsInVain'
  BY <1>17 DEF CommitUnknown
<1>18. ASSUME NEW a \in Area, Announce(a) PROVE Waits' /\ Backed' /\ NobodyWaitsInVain'
  <2>1. Waits'
    BY <1>18 DEF Announce, Invalidate, Newer
  <2>2. Backed'
    BY <1>18 DEF Announce, Invalidate, Newer
  <2>3. NobodyWaitsInVain'
    BY <1>18 DEF Announce, Invalidate, Newer
  <2>4. QED
    BY <2>1, <2>2, <2>3
<1>19. CASE Clear
  BY <1>19 DEF Clear
<1>20. CASE UNCHANGED vars
  BY <1>20 DEF vars
<1>21. QED
  BY <1>1, <1>2, <1>3, <1>4, <1>5, <1>6, <1>7, <1>8, <1>9, <1>10, <1>11, <1>12, <1>13, <1>14,
     <1>15, <1>16, <1>17, <1>18, <1>19, <1>20
     DEF Next, Hook, Request, Mutation

(* LoadingIsBacked and NobodyWaitsInVain, for any number of views.         *)
LEMMA Waiting == Spec => [](TypeOK /\ Waits /\ Backed /\ NobodyWaitsInVain)
<1>1. Init => Waits /\ Backed /\ NobodyWaitsInVain
  BY DEF Init, Waits, Backed, NobodyWaitsInVain
<1>2. QED
  BY <1>1, TypeCorrect, WaitStep, PTL DEF Spec

(* Behind a loading view there is a request under way, or a result, or a   *)
(* clear has taken the request from it.                                    *)
THEOREM LoadsAreBacked == Spec => []LoadingIsBacked
<1>1. TypeOK /\ Waits /\ Backed => LoadingIsBacked
  BY DEF TypeOK, Waits, Backed, LoadingIsBacked
<1>2. QED
  BY <1>1, Waiting, PTL

(* A request without consumers has been aborted.                           *)
THEOREM NoRequestInVain == Spec => []NobodyWaitsInVain
BY Waiting, PTL

-----------------------------------------------------------------------------
(* Reading one's own writes.  Whatever may still reach a view unmarked was *)
(* answered by the server after the newest mutation that was announced.    *)
Recent ==
    /\ \A a \in Area : acked[a] <= version[a] /\ (mutation[a] # None => mutation[a] <= version[a])
    /\ \A q \in Query : entry[q] # None => entry[q] >= acked[AreaOf[q]]
    /\ \A q \in Query : phase[q] = "served" => answer[q] >= acked[AreaOf[q]]
    /\ \A v \in View : (result[v] # None /\ result[v].rev # None)
                           => result[v].rev >= acked[AreaOf[result[v].of]]
    /\ \A v \in View : Settled(v) => shown[v].of = path[v]
                                     /\ shown[v].rev >= acked[AreaOf[shown[v].of]]

(* Every step keeps it.                                                    *)
LEMMA RecentStep ==
    TypeOK /\ Backed /\ Recent /\ [Next]_vars => Recent'
<1> SUFFICES ASSUME TypeOK, Backed, Recent, [Next]_vars PROVE Recent'
  OBVIOUS
<1> USE QueryAssumption, DataAssumption, PathsAreQueries
    DEF TypeOK, Backed, Recent, Settled, Data, Outcome, Revision,
        worldVars, cacheVars, requestVars, viewVars
<1>1. ASSUME NEW v \in View, NEW q \in Query, ShowFresh(v, q) PROVE Recent'
  <2>1. \A x \in Area : acked'[x] <= version'[x] /\ (mutation'[x] # None => mutation'[x] <= version'[x])
    BY <1>1 DEF ShowFresh, Touch, Leave, Abandoned, Newer
  <2>2. \A x \in Query : entry'[x] # None => entry'[x] >= acked'[AreaOf[x]]
    BY <1>1 DEF ShowFresh, Touch, Leave, Abandoned, Newer
  <2>3. \A x \in Query : phase'[x] = "served" => answer'[x] >= acked'[AreaOf[x]]
    BY <1>1 DEF ShowFresh, Touch, Leave, Abandoned, Newer
  <2>4. \A w \in View : (result'[w] # None /\ result'[w].rev # None)
                 => result'[w].rev >= acked'[AreaOf[result'[w].of]]
    BY <1>1 DEF ShowFresh, Touch, Leave, Abandoned, Newer
  <2>5. \A w \in View : Settled(w)' => shown'[w].of = path'[w]
                 /\ shown'[w].rev >= acked'[AreaOf[shown'[w].of]]
    BY <1>1 DEF ShowFresh, Touch, Leave, Abandoned, Newer
  <2>6. QED
    BY <2>1, <2>2, <2>3, <2>4, <2>5
<1>2. ASSUME NEW v \in View, NEW q \in Query, ShowStale(v, q) PROVE Recent'
  <2>1. \A x \in Area : acked'[x] <= version'[x] /\ (mutation'[x] # None => mutation'[x] <= version'[x])
    BY <1>2 DEF ShowStale, Touch, Load, Join, Abandoned
  <2>2. \A x \in Query : entry'[x] # None => entry'[x] >= acked'[AreaOf[x]]
    BY <1>2 DEF ShowStale, Touch, Load, Join, Abandoned
  <2>3. \A x \in Query : phase'[x] = "served" => answer'[x] >= acked'[AreaOf[x]]
    BY <1>2 DEF ShowStale, Touch, Load, Join, Abandoned
  <2>4. \A w \in View : (result'[w] # None /\ result'[w].rev # None)
                 => result'[w].rev >= acked'[AreaOf[result'[w].of]]
    BY <1>2 DEF ShowStale, Touch, Load, Join, Abandoned
  <2>5. \A w \in View : Settled(w)' => shown'[w].of = path'[w]
                 /\ shown'[w].rev >= acked'[AreaOf[shown'[w].of]]
    BY <1>2 DEF ShowStale, Touch, Load, Join, Abandoned
  <2>6. QED
    BY <2>1, <2>2, <2>3, <2>4, <2>5
<1>3. ASSUME NEW v \in View, NEW q \in Query, ShowNew(v, q) PROVE Recent'
  <2>1. \A x \in Area : acked'[x] <= version'[x] /\ (mutation'[x] # None => mutation'[x] <= version'[x])
    BY <1>3 DEF ShowNew, Load, Join, Abandoned
  <2>2. \A x \in Query : entry'[x] # None => entry'[x] >= acked'[AreaOf[x]]
    BY <1>3 DEF ShowNew, Load, Join, Abandoned
  <2>3. \A x \in Query : phase'[x] = "served" => answer'[x] >= acked'[AreaOf[x]]
    BY <1>3 DEF ShowNew, Load, Join, Abandoned
  <2>4. \A w \in View : (result'[w] # None /\ result'[w].rev # None)
                 => result'[w].rev >= acked'[AreaOf[result'[w].of]]
    BY <1>3 DEF ShowNew, Load, Join, Abandoned
  <2>5. \A w \in View : Settled(w)' => shown'[w].of = path'[w]
                 /\ shown'[w].rev >= acked'[AreaOf[shown'[w].of]]
    BY <1>3 DEF ShowNew, Load, Join, Abandoned
  <2>6. QED
    BY <2>1, <2>2, <2>3, <2>4, <2>5
<1>4. ASSUME NEW v \in View, Reload(v) PROVE Recent'
  <2>1. \A x \in Area : acked'[x] <= version'[x] /\ (mutation'[x] # None => mutation'[x] <= version'[x])
    BY <1>4 DEF Reload, Load, Join, Abandoned
  <2>2. \A x \in Query : entry'[x] # None => entry'[x] >= acked'[AreaOf[x]]
    BY <1>4 DEF Reload, Load, Join, Abandoned
  <2>3. \A x \in Query : phase'[x] = "served" => answer'[x] >= acked'[AreaOf[x]]
    BY <1>4 DEF Reload, Load, Join, Abandoned
  <2>4. \A w \in View : (result'[w] # None /\ result'[w].rev # None)
                 => result'[w].rev >= acked'[AreaOf[result'[w].of]]
    BY <1>4 DEF Reload, Load, Join, Abandoned
  <2>5. \A w \in View : Settled(w)' => shown'[w].of = path'[w]
                 /\ shown'[w].rev >= acked'[AreaOf[shown'[w].of]]
    BY <1>4 DEF Reload, Load, Join, Abandoned
  <2>6. QED
    BY <2>1, <2>2, <2>3, <2>4, <2>5
<1>5. ASSUME NEW v \in View, Unmount(v) PROVE Recent'
  <2>1. \A x \in Area : acked'[x] <= version'[x] /\ (mutation'[x] # None => mutation'[x] <= version'[x])
    BY <1>5 DEF Unmount, Leave, Abandoned
  <2>2. \A x \in Query : entry'[x] # None => entry'[x] >= acked'[AreaOf[x]]
    BY <1>5 DEF Unmount, Leave, Abandoned
  <2>3. \A x \in Query : phase'[x] = "served" => answer'[x] >= acked'[AreaOf[x]]
    BY <1>5 DEF Unmount, Leave, Abandoned
  <2>4. \A w \in View : (result'[w] # None /\ result'[w].rev # None)
                 => result'[w].rev >= acked'[AreaOf[result'[w].of]]
    BY <1>5 DEF Unmount, Leave, Abandoned
  <2>5. \A w \in View : Settled(w)' => shown'[w].of = path'[w]
                 /\ shown'[w].rev >= acked'[AreaOf[shown'[w].of]]
    BY <1>5 DEF Unmount, Leave, Abandoned
  <2>6. QED
    BY <2>1, <2>2, <2>3, <2>4, <2>5
<1>6. ASSUME NEW v \in View, Continue(v) PROVE Recent'
  <2>1. \A x \in Area : acked'[x] <= version'[x] /\ (mutation'[x] # None => mutation'[x] <= version'[x])
    BY <1>6 DEF Continue, Newer
  <2>2. \A x \in Query : entry'[x] # None => entry'[x] >= acked'[AreaOf[x]]
    BY <1>6 DEF Continue, Newer
  <2>3. \A x \in Query : phase'[x] = "served" => answer'[x] >= acked'[AreaOf[x]]
    BY <1>6 DEF Continue, Newer
  <2>4. \A w \in View : (result'[w] # None /\ result'[w].rev # None)
                 => result'[w].rev >= acked'[AreaOf[result'[w].of]]
    BY <1>6 DEF Continue, Newer
  <2>5. \A w \in View : Settled(w)' => shown'[w].of = path'[w]
                 /\ shown'[w].rev >= acked'[AreaOf[shown'[w].of]]
    BY <1>6 DEF Continue, Newer
  <2>6. QED
    BY <2>1, <2>2, <2>3, <2>4, <2>5
<1>7. ASSUME NEW q \in Query, Serve(q) PROVE Recent'
  BY <1>7 DEF Serve
<1>8. ASSUME NEW q \in Query, Retry(q) PROVE Recent'
  BY <1>8 DEF Retry
<1>9. ASSUME NEW q \in Query, Resend(q) PROVE Recent'
  BY <1>9 DEF Resend
<1>10. ASSUME NEW q \in Query, Reject(q) PROVE Recent'
  <2>1. \A x \in Area : acked'[x] <= version'[x] /\ (mutation'[x] # None => mutation'[x] <= version'[x])
    BY <1>10 DEF Reject, Finish
  <2>2. \A x \in Query : entry'[x] # None => entry'[x] >= acked'[AreaOf[x]]
    BY <1>10 DEF Reject, Finish
  <2>3. \A x \in Query : phase'[x] = "served" => answer'[x] >= acked'[AreaOf[x]]
    BY <1>10 DEF Reject, Finish
  <2>4. \A w \in View : (result'[w] # None /\ result'[w].rev # None)
                 => result'[w].rev >= acked'[AreaOf[result'[w].of]]
    BY <1>10 DEF Reject, Finish
  <2>5. \A w \in View : Settled(w)' => shown'[w].of = path'[w]
                 /\ shown'[w].rev >= acked'[AreaOf[shown'[w].of]]
    BY <1>10 DEF Reject, Finish
  <2>6. QED
    BY <2>1, <2>2, <2>3, <2>4, <2>5
<1>11. ASSUME NEW q \in Query, Land(q) PROVE Recent'
  <2>1. \A x \in Area : acked'[x] <= version'[x] /\ (mutation'[x] # None => mutation'[x] <= version'[x])
    BY <1>11 DEF Land, Finish, Put
  <2>2. \A x \in Query : entry'[x] # None => entry'[x] >= acked'[AreaOf[x]]
    BY <1>11 DEF Land, Finish, Put
  <2>3. \A x \in Query : phase'[x] = "served" => answer'[x] >= acked'[AreaOf[x]]
    BY <1>11 DEF Land, Finish, Put
  <2>4. \A w \in View : (result'[w] # None /\ result'[w].rev # None)
                 => result'[w].rev >= acked'[AreaOf[result'[w].of]]
    BY <1>11 DEF Land, Finish, Put
  <2>5. \A w \in View : Settled(w)' => shown'[w].of = path'[w]
                 /\ shown'[w].rev >= acked'[AreaOf[shown'[w].of]]
    BY <1>11 DEF Land, Finish, Put
  <2>6. QED
    BY <2>1, <2>2, <2>3, <2>4, <2>5
<1>12. ASSUME NEW q \in Query, Ages(q) PROVE Recent'
  BY <1>12 DEF Ages
<1>13. ASSUME NEW q \in Query, Expires(q) PROVE Recent'
  BY <1>13 DEF Expires
<1>14. ASSUME NEW d \in detached, LandDetached(d) PROVE Recent'
  BY <1>14 DEF LandDetached
<1>15. ASSUME NEW a \in Area, ChangeElsewhere(a) PROVE Recent'
  BY <1>15 DEF ChangeElsewhere, Change
<1>16. ASSUME NEW a \in Area, Commit(a) PROVE Recent'
  <2>1. \A x \in Area : acked'[x] <= version'[x] /\ (mutation'[x] # None => mutation'[x] <= version'[x])
    BY <1>16 DEF Commit, Change
  <2>2. \A x \in Query : entry'[x] # None => entry'[x] >= acked'[AreaOf[x]]
    BY <1>16 DEF Commit, Change
  <2>3. \A x \in Query : phase'[x] = "served" => answer'[x] >= acked'[AreaOf[x]]
    BY <1>16 DEF Commit, Change
  <2>4. \A w \in View : (result'[w] # None /\ result'[w].rev # None)
                 => result'[w].rev >= acked'[AreaOf[result'[w].of]]
    BY <1>16 DEF Commit, Change
  <2>5. \A w \in View : Settled(w)' => shown'[w].of = path'[w]
                 /\ shown'[w].rev >= acked'[AreaOf[shown'[w].of]]
    BY <1>16 DEF Commit, Change
  <2>6. QED
    BY <2>1, <2>2, <2>3, <2>4, <2>5
<1>17. ASSUME NEW a \in Area, CommitUnknown(a) PROVE Recent'
  BY <1>17 DEF CommitUnknown
<1>18. ASSUME NEW a \in Area, Announce(a) PROVE Recent'
  <2>1. \A x \in Area : acked'[x] <= version'[x] /\ (mutation'[x] # None => mutation'[x] <= version'[x])
    BY <1>18 DEF Announce, Invalidate, Newer
  <2>2. \A x \in Query : entry'[x] # None => entry'[x] >= acked'[AreaOf[x]]
    BY <1>18 DEF Announce, Invalidate, Newer
  <2>3. \A x \in Query : phase'[x] = "served" => answer'[x] >= acked'[AreaOf[x]]
    BY <1>18 DEF Announce, Invalidate, Newer
  <2>4. \A w \in View : (result'[w] # None /\ result'[w].rev # None)
                 => result'[w].rev >= acked'[AreaOf[result'[w].of]]
    BY <1>18 DEF Announce, Invalidate, Newer
  <2>5. \A w \in View : Settled(w)' => shown'[w].of = path'[w]
                 /\ shown'[w].rev >= acked'[AreaOf[shown'[w].of]]
    BY <1>18 DEF Announce, Invalidate, Newer
  <2>6. QED
    BY <2>1, <2>2, <2>3, <2>4, <2>5
<1>19. CASE Clear
  <2>1. \A x \in Area : acked'[x] <= version'[x] /\ (mutation'[x] # None => mutation'[x] <= version'[x])
    BY <1>19 DEF Clear
  <2>2. \A x \in Query : entry'[x] # None => entry'[x] >= acked'[AreaOf[x]]
    BY <1>19 DEF Clear
  <2>3. \A x \in Query : phase'[x] = "served" => answer'[x] >= acked'[AreaOf[x]]
    BY <1>19 DEF Clear
  <2>4. \A w \in View : (result'[w] # None /\ result'[w].rev # None)
                 => result'[w].rev >= acked'[AreaOf[result'[w].of]]
    BY <1>19 DEF Clear
  <2>5. \A w \in View : Settled(w)' => shown'[w].of = path'[w]
                 /\ shown'[w].rev >= acked'[AreaOf[shown'[w].of]]
    BY <1>19 DEF Clear
  <2>6. QED
    BY <2>1, <2>2, <2>3, <2>4, <2>5
<1>20. CASE UNCHANGED vars
  BY <1>20 DEF vars
<1>21. QED
  BY <1>1, <1>2, <1>3, <1>4, <1>5, <1>6, <1>7, <1>8, <1>9, <1>10, <1>11, <1>12, <1>13, <1>14,
     <1>15, <1>16, <1>17, <1>18, <1>19, <1>20
     DEF Next, Hook, Request, Mutation

(* ReadYourWrites, for every number of queries, views and mutations.       *)
THEOREM ReadsYourWrites == Spec => []ReadYourWrites
<1>1. Init => Recent
  BY QueryAssumption DEF Init, Recent, Settled
<1>2. Recent => ReadYourWrites
  BY DEF Recent, ReadYourWrites
<1>3. QED
  BY <1>1, <1>2, Waiting, RecentStep, PTL DEF Spec

-----------------------------------------------------------------------------
(* Never backwards.  A view has data in hand that it has not taken yet.    *)
InHand(v) == result[v] # None /\ result[v].rev # None

(* For each path the revisions grow along the way from the screen, over    *)
(* what is in hand, to the cache and to the response of a request.         *)
Upward ==
    /\ \A q \in Query : seen[q] <= version[AreaOf[q]]
    /\ \A q \in Query : entry[q] # None => seen[q] <= entry[q] /\ entry[q] <= version[AreaOf[q]]
    /\ \A q \in Query : phase[q] = "served" =>
            /\ seen[q] <= answer[q] /\ answer[q] <= version[AreaOf[q]]
            /\ entry[q] # None => entry[q] <= answer[q]
    /\ \A v \in View : InHand(v) =>
            /\ seen[result[v].of] <= result[v].rev
            /\ result[v].rev <= version[AreaOf[result[v].of]]
            /\ phase[result[v].of] = "served" => result[v].rev <= answer[result[v].of]
            /\ entry[result[v].of] # None => result[v].rev <= entry[result[v].of]
    /\ \A v, w \in View : (InHand(v) /\ InHand(w) /\ result[v].of = result[w].of)
                              => result[v].rev = result[w].rev

(* Every step keeps it.                                                    *)
LEMMA UpwardStep == TypeOK /\ Upward /\ [Next]_vars => Upward'
<1> SUFFICES ASSUME TypeOK, Upward, [Next]_vars PROVE Upward'
  OBVIOUS
<1> USE QueryAssumption, DataAssumption, PathsAreQueries
    DEF TypeOK, Upward, InHand, Data, Outcome, Revision,
        worldVars, cacheVars, requestVars, viewVars
<1>1. ASSUME NEW v \in View, NEW q \in Query, ShowFresh(v, q) PROVE Upward'
  <2>1. \A x \in Query : seen'[x] <= version'[AreaOf[x]]
    BY <1>1 DEF ShowFresh, Touch, Leave, Abandoned, Newer, Drained
  <2>2. \A x \in Query : entry'[x] # None => seen'[x] <= entry'[x] /\ entry'[x] <= version'[AreaOf[x]]
    BY <1>1 DEF ShowFresh, Touch, Leave, Abandoned, Newer, Drained
  <2>3. \A x \in Query : phase'[x] = "served" =>
          /\ seen'[x] <= answer'[x] /\ answer'[x] <= version'[AreaOf[x]]
          /\ entry'[x] # None => entry'[x] <= answer'[x]
    BY <1>1 DEF ShowFresh, Touch, Leave, Abandoned, Newer, Drained
  <2>4. \A w \in View : InHand(w)' =>
          /\ seen'[result'[w].of] <= result'[w].rev
          /\ result'[w].rev <= version'[AreaOf[result'[w].of]]
          /\ phase'[result'[w].of] = "served" => result'[w].rev <= answer'[result'[w].of]
          /\ entry'[result'[w].of] # None => result'[w].rev <= entry'[result'[w].of]
    BY <1>1 DEF ShowFresh, Touch, Leave, Abandoned, Newer, Drained
  <2>5. \A u, w \in View : (InHand(u)' /\ InHand(w)' /\ result'[u].of = result'[w].of)
          => result'[u].rev = result'[w].rev
    BY <1>1 DEF ShowFresh, Touch, Leave, Abandoned, Newer, Drained
  <2>6. QED
    BY <2>1, <2>2, <2>3, <2>4, <2>5
<1>2. ASSUME NEW v \in View, NEW q \in Query, ShowStale(v, q) PROVE Upward'
  <2>1. \A x \in Query : seen'[x] <= version'[AreaOf[x]]
    BY <1>2 DEF ShowStale, Touch, Load, Join, Abandoned
  <2>2. \A x \in Query : entry'[x] # None => seen'[x] <= entry'[x] /\ entry'[x] <= version'[AreaOf[x]]
    BY <1>2 DEF ShowStale, Touch, Load, Join, Abandoned
  <2>3. \A x \in Query : phase'[x] = "served" =>
          /\ seen'[x] <= answer'[x] /\ answer'[x] <= version'[AreaOf[x]]
          /\ entry'[x] # None => entry'[x] <= answer'[x]
    BY <1>2 DEF ShowStale, Touch, Load, Join, Abandoned
  <2>4. \A w \in View : InHand(w)' =>
          /\ seen'[result'[w].of] <= result'[w].rev
          /\ result'[w].rev <= version'[AreaOf[result'[w].of]]
          /\ phase'[result'[w].of] = "served" => result'[w].rev <= answer'[result'[w].of]
          /\ entry'[result'[w].of] # None => result'[w].rev <= entry'[result'[w].of]
    BY <1>2 DEF ShowStale, Touch, Load, Join, Abandoned
  <2>5. \A u, w \in View : (InHand(u)' /\ InHand(w)' /\ result'[u].of = result'[w].of)
          => result'[u].rev = result'[w].rev
    BY <1>2 DEF ShowStale, Touch, Load, Join, Abandoned
  <2>6. QED
    BY <2>1, <2>2, <2>3, <2>4, <2>5
<1>3. ASSUME NEW v \in View, NEW q \in Query, ShowNew(v, q) PROVE Upward'
  <2>1. \A x \in Query : seen'[x] <= version'[AreaOf[x]]
    BY <1>3 DEF ShowNew, Load, Join, Abandoned
  <2>2. \A x \in Query : entry'[x] # None => seen'[x] <= entry'[x] /\ entry'[x] <= version'[AreaOf[x]]
    BY <1>3 DEF ShowNew, Load, Join, Abandoned
  <2>3. \A x \in Query : phase'[x] = "served" =>
          /\ seen'[x] <= answer'[x] /\ answer'[x] <= version'[AreaOf[x]]
          /\ entry'[x] # None => entry'[x] <= answer'[x]
    BY <1>3 DEF ShowNew, Load, Join, Abandoned
  <2>4. \A w \in View : InHand(w)' =>
          /\ seen'[result'[w].of] <= result'[w].rev
          /\ result'[w].rev <= version'[AreaOf[result'[w].of]]
          /\ phase'[result'[w].of] = "served" => result'[w].rev <= answer'[result'[w].of]
          /\ entry'[result'[w].of] # None => result'[w].rev <= entry'[result'[w].of]
    BY <1>3 DEF ShowNew, Load, Join, Abandoned
  <2>5. \A u, w \in View : (InHand(u)' /\ InHand(w)' /\ result'[u].of = result'[w].of)
          => result'[u].rev = result'[w].rev
    BY <1>3 DEF ShowNew, Load, Join, Abandoned
  <2>6. QED
    BY <2>1, <2>2, <2>3, <2>4, <2>5
<1>4. ASSUME NEW v \in View, Reload(v) PROVE Upward'
  <2>1. \A x \in Query : seen'[x] <= version'[AreaOf[x]]
    BY <1>4 DEF Reload, Load, Join, Abandoned
  <2>2. \A x \in Query : entry'[x] # None => seen'[x] <= entry'[x] /\ entry'[x] <= version'[AreaOf[x]]
    BY <1>4 DEF Reload, Load, Join, Abandoned
  <2>3. \A x \in Query : phase'[x] = "served" =>
          /\ seen'[x] <= answer'[x] /\ answer'[x] <= version'[AreaOf[x]]
          /\ entry'[x] # None => entry'[x] <= answer'[x]
    BY <1>4 DEF Reload, Load, Join, Abandoned
  <2>4. \A w \in View : InHand(w)' =>
          /\ seen'[result'[w].of] <= result'[w].rev
          /\ result'[w].rev <= version'[AreaOf[result'[w].of]]
          /\ phase'[result'[w].of] = "served" => result'[w].rev <= answer'[result'[w].of]
          /\ entry'[result'[w].of] # None => result'[w].rev <= entry'[result'[w].of]
    BY <1>4 DEF Reload, Load, Join, Abandoned
  <2>5. \A u, w \in View : (InHand(u)' /\ InHand(w)' /\ result'[u].of = result'[w].of)
          => result'[u].rev = result'[w].rev
    BY <1>4 DEF Reload, Load, Join, Abandoned
  <2>6. QED
    BY <2>1, <2>2, <2>3, <2>4, <2>5
<1>5. ASSUME NEW v \in View, Unmount(v) PROVE Upward'
  <2>1. \A x \in Query : seen'[x] <= version'[AreaOf[x]]
    BY <1>5 DEF Unmount, Leave, Abandoned
  <2>2. \A x \in Query : entry'[x] # None => seen'[x] <= entry'[x] /\ entry'[x] <= version'[AreaOf[x]]
    BY <1>5 DEF Unmount, Leave, Abandoned
  <2>3. \A x \in Query : phase'[x] = "served" =>
          /\ seen'[x] <= answer'[x] /\ answer'[x] <= version'[AreaOf[x]]
          /\ entry'[x] # None => entry'[x] <= answer'[x]
    BY <1>5 DEF Unmount, Leave, Abandoned
  <2>4. \A w \in View : InHand(w)' =>
          /\ seen'[result'[w].of] <= result'[w].rev
          /\ result'[w].rev <= version'[AreaOf[result'[w].of]]
          /\ phase'[result'[w].of] = "served" => result'[w].rev <= answer'[result'[w].of]
          /\ entry'[result'[w].of] # None => result'[w].rev <= entry'[result'[w].of]
    BY <1>5 DEF Unmount, Leave, Abandoned
  <2>5. \A u, w \in View : (InHand(u)' /\ InHand(w)' /\ result'[u].of = result'[w].of)
          => result'[u].rev = result'[w].rev
    BY <1>5 DEF Unmount, Leave, Abandoned
  <2>6. QED
    BY <2>1, <2>2, <2>3, <2>4, <2>5
<1>6. ASSUME NEW v \in View, Continue(v) PROVE Upward'
  <2>1. \A x \in Query : seen'[x] <= version'[AreaOf[x]]
    BY <1>6 DEF Continue, Newer
  <2>2. \A x \in Query : entry'[x] # None => seen'[x] <= entry'[x] /\ entry'[x] <= version'[AreaOf[x]]
    BY <1>6 DEF Continue, Newer
  <2>3. \A x \in Query : phase'[x] = "served" =>
          /\ seen'[x] <= answer'[x] /\ answer'[x] <= version'[AreaOf[x]]
          /\ entry'[x] # None => entry'[x] <= answer'[x]
    BY <1>6 DEF Continue, Newer
  <2>4. \A w \in View : InHand(w)' =>
          /\ seen'[result'[w].of] <= result'[w].rev
          /\ result'[w].rev <= version'[AreaOf[result'[w].of]]
          /\ phase'[result'[w].of] = "served" => result'[w].rev <= answer'[result'[w].of]
          /\ entry'[result'[w].of] # None => result'[w].rev <= entry'[result'[w].of]
    BY <1>6 DEF Continue, Newer
  <2>5. \A u, w \in View : (InHand(u)' /\ InHand(w)' /\ result'[u].of = result'[w].of)
          => result'[u].rev = result'[w].rev
    BY <1>6 DEF Continue, Newer
  <2>6. QED
    BY <2>1, <2>2, <2>3, <2>4, <2>5
<1>7. ASSUME NEW q \in Query, Serve(q) PROVE Upward'
  <2>1. \A x \in Query : seen'[x] <= version'[AreaOf[x]]
    BY <1>7 DEF Serve
  <2>2. \A x \in Query : entry'[x] # None => seen'[x] <= entry'[x] /\ entry'[x] <= version'[AreaOf[x]]
    BY <1>7 DEF Serve
  <2>3. \A x \in Query : phase'[x] = "served" =>
          /\ seen'[x] <= answer'[x] /\ answer'[x] <= version'[AreaOf[x]]
          /\ entry'[x] # None => entry'[x] <= answer'[x]
    BY <1>7 DEF Serve
  <2>4. \A w \in View : InHand(w)' =>
          /\ seen'[result'[w].of] <= result'[w].rev
          /\ result'[w].rev <= version'[AreaOf[result'[w].of]]
          /\ phase'[result'[w].of] = "served" => result'[w].rev <= answer'[result'[w].of]
          /\ entry'[result'[w].of] # None => result'[w].rev <= entry'[result'[w].of]
    BY <1>7 DEF Serve
  <2>5. \A u, w \in View : (InHand(u)' /\ InHand(w)' /\ result'[u].of = result'[w].of)
          => result'[u].rev = result'[w].rev
    BY <1>7 DEF Serve
  <2>6. QED
    BY <2>1, <2>2, <2>3, <2>4, <2>5
<1>8. ASSUME NEW q \in Query, Retry(q) PROVE Upward'
  BY <1>8 DEF Retry
<1>9. ASSUME NEW q \in Query, Resend(q) PROVE Upward'
  BY <1>9 DEF Resend
<1>10. ASSUME NEW q \in Query, Reject(q) PROVE Upward'
  <2>1. \A x \in Query : seen'[x] <= version'[AreaOf[x]]
    BY <1>10 DEF Reject, Finish, Drained
  <2>2. \A x \in Query : entry'[x] # None => seen'[x] <= entry'[x] /\ entry'[x] <= version'[AreaOf[x]]
    BY <1>10 DEF Reject, Finish, Drained
  <2>3. \A x \in Query : phase'[x] = "served" =>
          /\ seen'[x] <= answer'[x] /\ answer'[x] <= version'[AreaOf[x]]
          /\ entry'[x] # None => entry'[x] <= answer'[x]
    BY <1>10 DEF Reject, Finish, Drained
  <2>4. \A w \in View : InHand(w)' =>
          /\ seen'[result'[w].of] <= result'[w].rev
          /\ result'[w].rev <= version'[AreaOf[result'[w].of]]
          /\ phase'[result'[w].of] = "served" => result'[w].rev <= answer'[result'[w].of]
          /\ entry'[result'[w].of] # None => result'[w].rev <= entry'[result'[w].of]
    BY <1>10 DEF Reject, Finish, Drained
  <2>5. \A u, w \in View : (InHand(u)' /\ InHand(w)' /\ result'[u].of = result'[w].of)
          => result'[u].rev = result'[w].rev
    BY <1>10 DEF Reject, Finish, Drained
  <2>6. QED
    BY <2>1, <2>2, <2>3, <2>4, <2>5
<1>11. ASSUME NEW q \in Query, Land(q) PROVE Upward'
  <2>1. \A x \in Query : seen'[x] <= version'[AreaOf[x]]
    BY <1>11 DEF Land, Finish, Put, Drained
  <2>2. \A x \in Query : entry'[x] # None => seen'[x] <= entry'[x] /\ entry'[x] <= version'[AreaOf[x]]
    BY <1>11 DEF Land, Finish, Put, Drained
  <2>3. \A x \in Query : phase'[x] = "served" =>
          /\ seen'[x] <= answer'[x] /\ answer'[x] <= version'[AreaOf[x]]
          /\ entry'[x] # None => entry'[x] <= answer'[x]
    BY <1>11 DEF Land, Finish, Put, Drained
  <2>7. \A w \in View : InHand(w)' => result'[w].of = q /\ result'[w].rev = answer[q]
    BY <1>11 DEF Land, Finish, Drained
  <2>8. phase'[q] = "none" /\ entry'[q] \in {None, answer[q]} /\ UNCHANGED <<seen, version>>
    BY <1>11 DEF Land, Finish, Put
  <2>9. seen[q] <= answer[q] /\ answer[q] <= version[AreaOf[q]]
    BY <1>11 DEF Land
  <2>4. \A w \in View : InHand(w)' =>
          /\ seen'[result'[w].of] <= result'[w].rev
          /\ result'[w].rev <= version'[AreaOf[result'[w].of]]
          /\ phase'[result'[w].of] = "served" => result'[w].rev <= answer'[result'[w].of]
          /\ entry'[result'[w].of] # None => result'[w].rev <= entry'[result'[w].of]
    BY <2>7, <2>8, <2>9
  <2>5. \A u, w \in View : (InHand(u)' /\ InHand(w)' /\ result'[u].of = result'[w].of)
          => result'[u].rev = result'[w].rev
    BY <1>11 DEF Land, Finish, Put, Drained
  <2>6. QED
    BY <2>1, <2>2, <2>3, <2>4, <2>5
<1>12. ASSUME NEW q \in Query, Ages(q) PROVE Upward'
  BY <1>12 DEF Ages
<1>13. ASSUME NEW q \in Query, Expires(q) PROVE Upward'
  BY <1>13 DEF Expires
<1>14. ASSUME NEW d \in detached, LandDetached(d) PROVE Upward'
  BY <1>14 DEF LandDetached
<1>15. ASSUME NEW a \in Area, ChangeElsewhere(a) PROVE Upward'
  <2>1. \A x \in Query : seen'[x] <= version'[AreaOf[x]]
    BY <1>15 DEF ChangeElsewhere, Change
  <2>2. \A x \in Query : entry'[x] # None => seen'[x] <= entry'[x] /\ entry'[x] <= version'[AreaOf[x]]
    BY <1>15 DEF ChangeElsewhere, Change
  <2>3. \A x \in Query : phase'[x] = "served" =>
          /\ seen'[x] <= answer'[x] /\ answer'[x] <= version'[AreaOf[x]]
          /\ entry'[x] # None => entry'[x] <= answer'[x]
    BY <1>15 DEF ChangeElsewhere, Change
  <2>4. \A w \in View : InHand(w)' =>
          /\ seen'[result'[w].of] <= result'[w].rev
          /\ result'[w].rev <= version'[AreaOf[result'[w].of]]
          /\ phase'[result'[w].of] = "served" => result'[w].rev <= answer'[result'[w].of]
          /\ entry'[result'[w].of] # None => result'[w].rev <= entry'[result'[w].of]
    BY <1>15 DEF ChangeElsewhere, Change
  <2>5. \A u, w \in View : (InHand(u)' /\ InHand(w)' /\ result'[u].of = result'[w].of)
          => result'[u].rev = result'[w].rev
    BY <1>15 DEF ChangeElsewhere, Change
  <2>6. QED
    BY <2>1, <2>2, <2>3, <2>4, <2>5
<1>16. ASSUME NEW a \in Area, Commit(a) PROVE Upward'
  <2>1. \A x \in Query : seen'[x] <= version'[AreaOf[x]]
    BY <1>16 DEF Commit, Change
  <2>2. \A x \in Query : entry'[x] # None => seen'[x] <= entry'[x] /\ entry'[x] <= version'[AreaOf[x]]
    BY <1>16 DEF Commit, Change
  <2>3. \A x \in Query : phase'[x] = "served" =>
          /\ seen'[x] <= answer'[x] /\ answer'[x] <= version'[AreaOf[x]]
          /\ entry'[x] # None => entry'[x] <= answer'[x]
    BY <1>16 DEF Commit, Change
  <2>4. \A w \in View : InHand(w)' =>
          /\ seen'[result'[w].of] <= result'[w].rev
          /\ result'[w].rev <= version'[AreaOf[result'[w].of]]
          /\ phase'[result'[w].of] = "served" => result'[w].rev <= answer'[result'[w].of]
          /\ entry'[result'[w].of] # None => result'[w].rev <= entry'[result'[w].of]
    BY <1>16 DEF Commit, Change
  <2>5. \A u, w \in View : (InHand(u)' /\ InHand(w)' /\ result'[u].of = result'[w].of)
          => result'[u].rev = result'[w].rev
    BY <1>16 DEF Commit, Change
  <2>6. QED
    BY <2>1, <2>2, <2>3, <2>4, <2>5
<1>17. ASSUME NEW a \in Area, CommitUnknown(a) PROVE Upward'
  BY <1>17 DEF CommitUnknown
<1>18. ASSUME NEW a \in Area, Announce(a) PROVE Upward'
  <2>1. \A x \in Query : seen'[x] <= version'[AreaOf[x]]
    BY <1>18 DEF Announce, Invalidate, Newer
  <2>2. \A x \in Query : entry'[x] # None => seen'[x] <= entry'[x] /\ entry'[x] <= version'[AreaOf[x]]
    BY <1>18 DEF Announce, Invalidate, Newer
  <2>3. \A x \in Query : phase'[x] = "served" =>
          /\ seen'[x] <= answer'[x] /\ answer'[x] <= version'[AreaOf[x]]
          /\ entry'[x] # None => entry'[x] <= answer'[x]
    BY <1>18 DEF Announce, Invalidate, Newer
  <2>4. \A w \in View : InHand(w)' =>
          /\ seen'[result'[w].of] <= result'[w].rev
          /\ result'[w].rev <= version'[AreaOf[result'[w].of]]
          /\ phase'[result'[w].of] = "served" => result'[w].rev <= answer'[result'[w].of]
          /\ entry'[result'[w].of] # None => result'[w].rev <= entry'[result'[w].of]
    BY <1>18 DEF Announce, Invalidate, Newer
  <2>5. \A u, w \in View : (InHand(u)' /\ InHand(w)' /\ result'[u].of = result'[w].of)
          => result'[u].rev = result'[w].rev
    BY <1>18 DEF Announce, Invalidate, Newer
  <2>6. QED
    BY <2>1, <2>2, <2>3, <2>4, <2>5
<1>19. CASE Clear
  <2>1. \A x \in Query : seen'[x] <= version'[AreaOf[x]]
    BY <1>19 DEF Clear
  <2>2. \A x \in Query : entry'[x] # None => seen'[x] <= entry'[x] /\ entry'[x] <= version'[AreaOf[x]]
    BY <1>19 DEF Clear
  <2>3. \A x \in Query : phase'[x] = "served" =>
          /\ seen'[x] <= answer'[x] /\ answer'[x] <= version'[AreaOf[x]]
          /\ entry'[x] # None => entry'[x] <= answer'[x]
    BY <1>19 DEF Clear
  <2>4. \A w \in View : InHand(w)' =>
          /\ seen'[result'[w].of] <= result'[w].rev
          /\ result'[w].rev <= version'[AreaOf[result'[w].of]]
          /\ phase'[result'[w].of] = "served" => result'[w].rev <= answer'[result'[w].of]
          /\ entry'[result'[w].of] # None => result'[w].rev <= entry'[result'[w].of]
    BY <1>19 DEF Clear
  <2>5. \A u, w \in View : (InHand(u)' /\ InHand(w)' /\ result'[u].of = result'[w].of)
          => result'[u].rev = result'[w].rev
    BY <1>19 DEF Clear
  <2>6. QED
    BY <2>1, <2>2, <2>3, <2>4, <2>5
<1>20. CASE UNCHANGED vars
  BY <1>20 DEF vars
<1>21. QED
  BY <1>1, <1>2, <1>3, <1>4, <1>5, <1>6, <1>7, <1>8, <1>9, <1>10, <1>11, <1>12, <1>13, <1>14,
     <1>15, <1>16, <1>17, <1>18, <1>19, <1>20
     DEF Next, Hook, Request, Mutation

(* The step itself does not settle a view on anything older.               *)
LEMMA BackwardsNever ==
    ASSUME TypeOK, Upward, [Next]_vars
    PROVE  [\A v \in View :
              (Settled(v)' /\ (shown'[v] # shown[v] \/ ~Settled(v)))
                 => shown'[v].rev >= seen[shown'[v].of]]_vars
<1> SUFFICES ASSUME NEW u \in View, Settled(u)', shown'[u] # shown[u] \/ ~Settled(u)
             PROVE  shown'[u].rev >= seen[shown'[u].of]
  OBVIOUS
<1> USE QueryAssumption, DataAssumption, PathsAreQueries
    DEF TypeOK, Upward, InHand, Settled, Data, Outcome, Revision,
        worldVars, cacheVars, requestVars, viewVars
<1>1. ASSUME NEW v \in View, NEW q \in Query, ShowFresh(v, q) PROVE shown'[u].rev >= seen[shown'[u].of]
  BY <1>1 DEF ShowFresh, Touch, Leave, Abandoned, Newer
<1>2. ASSUME NEW v \in View, NEW q \in Query, ShowStale(v, q) PROVE shown'[u].rev >= seen[shown'[u].of]
  BY <1>2 DEF ShowStale, Touch, Load, Join, Abandoned
<1>3. ASSUME NEW v \in View, NEW q \in Query, ShowNew(v, q) PROVE shown'[u].rev >= seen[shown'[u].of]
  BY <1>3 DEF ShowNew, Load, Join, Abandoned
<1>4. ASSUME NEW v \in View, Reload(v) PROVE shown'[u].rev >= seen[shown'[u].of]
  BY <1>4 DEF Reload, Load, Join, Abandoned
<1>5. ASSUME NEW v \in View, Unmount(v) PROVE shown'[u].rev >= seen[shown'[u].of]
  BY <1>5 DEF Unmount, Leave, Abandoned
<1>6. ASSUME NEW v \in View, Continue(v) PROVE shown'[u].rev >= seen[shown'[u].of]
  BY <1>6 DEF Continue, Newer
<1>7. ASSUME NEW q \in Query, Serve(q) PROVE shown'[u].rev >= seen[shown'[u].of]
  BY <1>7 DEF Serve
<1>8. ASSUME NEW q \in Query, Retry(q) PROVE shown'[u].rev >= seen[shown'[u].of]
  BY <1>8 DEF Retry
<1>9. ASSUME NEW q \in Query, Resend(q) PROVE shown'[u].rev >= seen[shown'[u].of]
  BY <1>9 DEF Resend
<1>10. ASSUME NEW q \in Query, Reject(q) PROVE shown'[u].rev >= seen[shown'[u].of]
  BY <1>10 DEF Reject, Finish
<1>11. ASSUME NEW q \in Query, Land(q) PROVE shown'[u].rev >= seen[shown'[u].of]
  BY <1>11 DEF Land, Finish, Put
<1>12. ASSUME NEW q \in Query, Ages(q) PROVE shown'[u].rev >= seen[shown'[u].of]
  BY <1>12 DEF Ages
<1>13. ASSUME NEW q \in Query, Expires(q) PROVE shown'[u].rev >= seen[shown'[u].of]
  BY <1>13 DEF Expires
<1>14. ASSUME NEW d \in detached, LandDetached(d) PROVE shown'[u].rev >= seen[shown'[u].of]
  BY <1>14 DEF LandDetached
<1>15. ASSUME NEW a \in Area, ChangeElsewhere(a) PROVE shown'[u].rev >= seen[shown'[u].of]
  BY <1>15 DEF ChangeElsewhere, Change
<1>16. ASSUME NEW a \in Area, Commit(a) PROVE shown'[u].rev >= seen[shown'[u].of]
  BY <1>16 DEF Commit, Change
<1>17. ASSUME NEW a \in Area, CommitUnknown(a) PROVE shown'[u].rev >= seen[shown'[u].of]
  BY <1>17 DEF CommitUnknown
<1>18. ASSUME NEW a \in Area, Announce(a) PROVE shown'[u].rev >= seen[shown'[u].of]
  BY <1>18 DEF Announce, Invalidate, Newer
<1>19. CASE Clear
  BY <1>19 DEF Clear
<1>20. CASE UNCHANGED vars
  BY <1>20 DEF vars
<1>21. QED
  BY <1>1, <1>2, <1>3, <1>4, <1>5, <1>6, <1>7, <1>8, <1>9, <1>10, <1>11, <1>12, <1>13, <1>14,
     <1>15, <1>16, <1>17, <1>18, <1>19, <1>20
     DEF Next, Hook, Request, Mutation

(* NeverBackwards, for every number of queries, views and mutations.       *)
THEOREM GoesNeverBackwards == Spec => NeverBackwards
<1>1. Init => Upward
  BY QueryAssumption DEF Init, Upward, InHand, Revision
<1>2. TypeOK /\ Upward /\ [Next]_vars =>
         [\A v \in View :
              (Settled(v)' /\ (shown'[v] # shown[v] \/ ~Settled(v)))
                 => shown'[v].rev >= seen[shown'[v].of]]_vars
  BY BackwardsNever
<1>3. QED
  BY <1>1, <1>2, TypeCorrect, UpwardStep, PTL DEF Spec, NeverBackwards

=============================================================================
