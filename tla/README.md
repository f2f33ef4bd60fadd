# Moina: verification

This directory holds TLA+ models of Moina (server and web client) and the machine-checked
arguments about them.  It is kept beside the code (paths below are relative to
the repository): a change of a mapped function should be followed by a change of
the definition that models it (`PROJECT.json`, "map", names the lines).

- `<Module>.tla` models a component, `MC<Module>.tla` and `MC<Module>_<run>.cfg`
  instantiate it for TLC, `<Module>Proofs.tla` holds its theorems.
- `EventDelivery.tla` is an abstract specification; `Outbox` implements it.
- `MCOperations.tla` checks `Outbox`, `Authority` and `SettingCache` in one run, and
  `OperationsProofs.tla` has the theorems about the three.

## 1. The system

Moina is a corporate microblog: a Go server (`backend/`), PostgreSQL as its only
store and its only channel between server instances, and a React client
(`frontend/`).  Any number of instances run the same process
(`cmd/moina/main.go`): HTTP handlers, two outbox workers each, a settings-cache
listener, a digest worker, an orphan-media cleaner and a retention worker.  Nothing
is elected; the instances coordinate through rows, row locks, advisory locks and
LISTEN/NOTIFY.

### Components

| Component | State it keeps | Operations | Hard behaviour | What makes it correct |
|---|---|---|---|---|
| Transactional outbox (`event/repository.go`, `event/dispatcher.go`) | `outbox_events`: delivery, attempts, lease, availability | Enqueue, claimBatch, handle, MarkDelivered, MarkFailed, RetryDeadLetter, retention | workers of several processes, leases that run out, crashes, lost answers, wake-ups | at-least-once delivery, fenced settlement, dead letters only after all attempts |
| Settings cache (`settings_cache.go`, `settings.go`, `store.go` LISTEN) | one row per key; a map with a load time per instance | cachedSettingPayload, saveSetting, invalidate, notify, reconnect | loads in flight across an invalidation, lost notifications | staleness of at most one TTL, convergence |
| Role permission cache (`auth_cache.go`) | permissions per role set, per instance | permissionsForRoles, invalidate, notify | as above | as above |
| Moins and approval (`posts.go`, `workflow.go`, `admin.go`) | `posts`, `approval_requests`, the policy | create, Remoin, edit, delete, moderate, un-Remoin, review | READ COMMITTED transactions over two rows locked in both orders; policy and approvers that change meanwhile | decision and Moin agree, separation of duties, no deadlock |
| Notification digest and preferences (`notification_digest.go`, `preferences.go`) | preferences, digest state, digest marks of notification rows, digest events | putPreferences, generateNotificationDigests | preference updates against the worker of any instance, rows that arrive while they are counted, failed batches | each row in exactly one digest, no replay of a backlog, no schedule put back |
| Notification fan-out and hub (`outbox.go`, `notification_signal.go`, `ws.go`) | notification rows, per-user queues of 32 in each instance | handleOutboxEvent, publishNotificationSignals, hub, WebSocket loop | slow clients, signals out of order, eligibility that ends | the durable list is complete, signals are only hints |
| Sessions, passwords, API keys (`auth.go`, `server.go`, `AuthContext.tsx`) | `sessions`, `api_keys`, `users`, cookies, the tab's idea of the user | login, logout, change password, authenticate, keys | revocation against requests in flight | a revoked credential stops working |
| OIDC login (`oidc.go`, `silentSso.ts`) | flow cookies, `user_identities`, two flags of the tab | start, callback, silent attempt | tabs that share a cookie, callbacks that fail, two first logins of a subject | no login loop, a sign-out sticks |
| Administration (`admin.go`) | users, roles, role revisions | adminUpdateUser, adminPutRoles, keys | check-then-write on counts of rows, stale principals | a super administrator is left, nobody gives more than he has |
| Reports and moderation (`social.go`, `admin.go`) | `reports`, moderation actions | createReport, resolveReport | two moderators | one resolution |
| Moims, follows, blocks, mutes (`social.go`) | memberships, relations | join, leave, follow, block | last owner, block against follow | a Moim keeps an owner; a block ends both follows |
| Media (`media/`) | `media_assets`, large objects | upload, attach, orphan cleanup | quota under parallel uploads, cleanup against attachment | no attached asset is removed, quota holds |
| Feed (`feed/`) | ranked snapshots | CreateSnapshot, page, prune | pruning while a client pages | each Moin once per snapshot |
| Search, visibility, cursors (`search/`, `visibility/`, `pagination/`) | none | queries | keyset pages over changing rows | paging neither repeats nor skips unchanged rows |
| Retention (`retention.go`) | none of its own | batches under an advisory lock | several instances | only settled rows go |
| Rate limits (`server.go`, `network.go`) | `rate_limits` buckets, a memory fallback | allow | window boundaries, several instances | at most N per window |
| Migrations (`store/migration_runner.go`) | `schema_migrations` | run | instances that start together | each migration once, in order |
| MCP, AI, SMTP, outbound policy | none | calls to external services | time-outs | retries belong to the outbox |
| Analytics, observability, audit | append-only rows and counters | record | none | none |
| Client query cache, feed pages (`apiQueryClient.ts`, `useFeedPages.ts`, `feedCache.ts`) | cached answers, requests in flight | read, invalidate, page | late answers, shared requests | an answer older than an invalidation is not cached |
| Client composer, notifications, completion | drafts, uploads | submit, retry | late answers | one submission per draft |

### How they meet

- Handlers write business rows and `outbox_events` in one transaction; a worker
  claims the event later, writes the notification row and signals the hubs of all
  instances.  `Approval` models the writing side (`told` is the set of recorded
  events), `Outbox` the queue, `Inbox` what the handler does and how a tab learns of
  it, `NotificationDigest` another reader of the rows.
- `saveSetting` and the role editor write a row and notify; the policy that
  `createPostRecord` reads comes from the settings cache, the permissions of a
  principal from the role cache.  One LISTEN worker serves both caches:
  `SettingCache` has the worker, `Authority` what is built from the permissions.
- `Authority` decides who may change users, roles and keys; `SignIn` has the
  sessions that such a change ends.
- The digest worker writes digest events into the same outbox under an idempotency
  key.  Retention removes delivered events (`Purge` in `Outbox`), and with them their
  keys.
- A Moin refers to assets: `Media` has the rows that both write.
- The tabs read through `QueryCache`, except the Flow, which chains pages by itself
  (`Feed`), and the badge, which counts frames of the WebSocket (`Inbox`).

## 2. The models

### Outbox (and EventDelivery)

Every statement of `repository.go` is one atomic action: `Enqueue`, `Claim`,
`MarkDelivered`, `MarkFailed`, `RetryDeadLetter`, `Purge`.  `pc[w]` is the place of
a `Dispatcher.work` goroutine between them; `item` and `seen` are the event and the
`Attempts` that the claim returned, which is what `MarkFailed` decides from.
`Claim` reads its clock any time before the statement runs (`lag`), as the code
does.  Time is relative (ticks until `available_at`, ticks since `locked_at`), so
no clock has to be bounded.  `slack[w]` is the time that a worker spends outside its
handler while it has a row; `Late` stands for every value above the margin between
the lease and the handler's time-out, i.e. for a worker that overslept.
Failures: the answer to a claim is lost (`ClaimLost`), a mark fails and is logged
(`MarkError`), the process dies or is stopped (`Crash`) and returns (`Restart`),
the handler fails before or after its commit (`Fail`).

`EventDelivery` is the promise: an event is attempted, applied at least once before
it is delivered, parked only after `MaxAttempts`, restarted by an operator,
forgotten only when delivered.  `ImplementsDelivery` is the refinement
(`Delivery == INSTANCE EventDelivery WITH ...`).

### Inbox

One user's notifications.  A recorded event is handled in two steps, `Check`
(eligibility and preferences) and `Deliver` (the row, the e-mail event and the signal
in one transaction), and may be handled again after `HandlerFails`; there is one
handler per event at a time, which `Outbox` guarantees as long as no worker oversleeps.
The e-mail has its own course: `MailSend`, `MailMark` (emailed_at), `MailSettle`, and
`MailLapse`, an acceptance that is not recorded.  Each instance has a LISTEN
connection (`Listen`, `LinkDrops`), the signals it received, and a publisher that
loads the notification and asks again whether it is eligible (`Load`, `Hide`) before
it gives it to the hub (`Publish`).  The hub puts it into the client's queue or, when
the queue is full, cancels the connection.  The tab counts frames (`Write`), reloads
the durable summary when the connection opens and on a timer (`Reload`, `Serve`,
`Arrive`), and reads notifications here or elsewhere.  `late`, `pushed`, `due`, `sent`
and `lapses` are history.

### SettingCache

One setting key, any number of instances.  `Miss`, `Load`, `Store` are the three
moments of `cachedSettingPayload` between which anything may happen (`began` is the
clock read before the query); `Save`, `DropOwn`, `Answer` those of `saveSetting`;
`Reset`, `Listen`, `Apply`, `Disconnect` the LISTEN worker.  History: `outdated[r]`,
the time since revision `r` was superseded, and `spoilt`, the instances whose old copy
no notification will remove, because it was lost or came before the copy.

### Approval

Each request is a transaction of several statements.  PostgreSQL runs it at READ
COMMITTED: an UPDATE finds its rows (`StartUpdate`), waits for each lock and looks
at the row again (`LockRow`), and what it writes appears at the commit
(`CommitReview`, `CommitEdit`, `CommitDelete`, `Insert`), which gives up all locks.
`BreakDeadlock` is PostgreSQL's detector.  `Scope` and `Matches` are the WHERE
clauses of the five handlers.  `SetPolicy` and `SetApprovers` change what
`createPostRecord` and `reviewApproval` read at any moment.  The policy is the one
the request reads, hence possibly a cached one.

### NotificationDigest

One user.  `put[s]` is a `putPreferences` transaction, `batch[w]` one run of
`generateNotificationDigests` in some instance; both take the lock of the
preferences row, the batch also the advisory lock.  `note` is the digest mark of a
row, `digests` the digest events with what they count, `window` is the idempotency
key.  `since` is a history variable, the beginning of the current subscription.
`NothingLost` is about steps: a row is marked only together with a new digest that
counts it, or by a worker that has counted it and finds a digest of its window.
`Deliver` and `Hide` are the outbox handler's insertion and withdrawal of a row.
A signature is the preferences that it was computed from; `odd` says that the stored
document is one for which the SQL of the candidates and the Go code that stores the
signature compute different strings, so that the user is a candidate at every run.

### Media

An upload (`Put` of `media/postgres.go`) is `Begin` (the advisory lock of the owner,
tried and not waited for), `Admit` (the quota, counted from what is committed) and
`Store`.  A transaction that writes a Moin checks its assets (`Check`), inserts the
links one by one, each with the key-share lock of the asset (`Attach`,
`AttachFails`), and commits.  `updateProfile` checks an avatar and sets it in two
statements (`Pick`, `SetAvatar`).  Removal looks at the links in the snapshot of its
statement and locks the rows afterwards: `DeleteStart` and `DeleteEnd` for
`deleteMedia`, `SweepStart`, `SweepTake` (FOR UPDATE SKIP LOCKED) and `SweepDelete` for
the cleanup of each instance.  `used` is history: what a Moin or a profile has ever
referred to.  `Admit` counts objects and may refuse any upload for its bytes.

### SignIn

Accounts, sessions and the tabs of the web application.  A handler that accepts
credentials and then inserts a session is two steps (`login[t]` in between);
`UpdatePasswordAndRevokeSessions` is the transaction `Rewrite`, `Revoke`, commit, whose
row lock serialises it with deactivation; deactivation deletes the sessions in a
statement of its own, which may fail.  Tabs of one browser share `cookie` and `flow`
(the OIDC flow cookie, one per browser), `attempted` and `signedOut` are the flags of
`silentSso.ts` and belong to the tab.  A tab reloads only from a page that has
settled.  A sign-out may begin while an `/auth/me` of the tab is under way, as in the
code; such a tab does not enter `left`, and `SignOutSticks` does not speak of it (section
5).  History: `gen`, the number of revocations of an account, `spared`, `tries` and
`left`.

### Authority

A request carries the principal that was built when it came in (`Authenticate`,
`Load`, `Put`: the permission cache of its instance, with the clock read before the
query).  The handlers of `admin.go` and `auth.go` compare it with rows that they read
and write in a later statement: `StartUpdate` or `StartCreate`, `CanAssignRoles`,
`CountSupers`, `InsertUser` or `UpdateUser`; `PutRoles` is one transaction, followed by
`InvalidateRolePermissions`; keys are created, changed, rotated and revoked in one statement by
their owner and in two by an administrator.  `crossed` marks a handler that has read
and not yet written when another commit to users or roles happens.  `held` is
history: which policy was in force when.  `Manage` stands for the permissions of the
administration pages, `All` for `*`.  The instance drops its cache at any moment
(`Invalidate`): how a notice gets there, or does not, is the subject of
`SettingCache`.

### Feed

One viewer.  What is on the Flow follows from four tables, `published`, `follows` (of
users and topics), `mutes` and `blocks` (`On`), and from the handlers that change them:
`Publish` and `Withdraw`, `FollowUser`, `FollowTopic`, `MuteUser`, `BlockUser` and what
undoes them.  Rows of these tables that do not concern the viewer are left out.  The
transaction of `CreateOrReuseRankedSnapshot` is `Start`, `Rank` (begin,
the try-lock, the pruning and the statement) and `Commit`; the page is read from the
snapshot afterwards (`ReadRanked`).  With a cursor, the check of the snapshot and the
query are one step, since the query repeats the check.  `ReadFollowing` is the keyset
page of the following Flow.  What a statement may compute as scores is the constant
`Ranking`, per feed preference; `Rank` chooses any preference, as the code does when
loading them fails.  Time is counted in buckets of the reuse interval; a snapshot
has the one its handler noted (`bucket`) and the one its transaction began in (`made`),
by which the pruning orders.  A tab is one
mounted `FlowContent`: `LoadMore`, `Retry`, `ReloadFirstPage`, `Land` and `Fail` are
`useFeedPages`, `current` its request identifier.  `due` is history: the entries that
have been visible since the first page was read.

### QueryCache

`apiQueryClient.ts` and `useApiQuery`.  An action is one callback of JavaScript;
the continuations that a settled promise starts run before the next task
(`Drained`).  `ShowFresh`, `ShowStale`, `ShowNew`, `Reload`, `Unmount` are what a view
does; `Join` and `Leave` the consumers of a shared request, which is aborted when the
last one leaves; `Serve`, `Retry`, `Resend`, `Reject`, `Land` the request;
`LandDetached` a response that arrives after its abort.  A mutation of this tab
commits on the server (`Commit`, `CommitUnknown`) and is announced afterwards
(`Announce`), which drops what was cached for the same first path segment (`Area`) and
makes the views of it reload.  A mutation that changes what another segment shows is,
for that segment, a change made elsewhere (`ChangeElsewhere`): nothing is invalidated.
`Clear` is `clearApiQueryCache({ abort: true })` at a login, a logout and an answer 401.
The views stay mounted and lose their requests (`dropped`): the hook returns from the
AbortError and leaves the spinner on until the view goes.  `setData` and explicit
resource keys have no caller and are left out.

## 3. The runs

| Run | Instance | Shows |
|---|---|---|
| `operations_safety` | Outbox: 2 events, 2 workers, 3 attempts, lease 3, 1 fault, 4 claims. Authority: 2 users, 2 instances, 1 role besides super_admin, 1 key, 2 requests, TTL 1, 2 commits. SettingCache: 2 instances, 1 reader, TTL 1, 2 saves. 1,552,075 states | `ExclusiveHandling`, `VerdictMatchesCount`, the refinement; `PermissionsAreRecent`, `LastSuperStays`, `SupersAreProtected`, `NobodyGivesMore`; `StalenessBound`, `OldForAReason` |
| `outbox_live` | 2 events, 2 workers, 2 attempts, 5 claims, no late workers. 45,180 states | `Settles` |
| `settings_cache` | 2 instances, 1 request, TTL 2, 2 saves. 608,032 states | `Converges` |
| `approval_safety` | 2 users, one a manager, 1 Moin, 1 original, 2 requests | `DecisionMatchesPost`, `PublishedWasApproved` |
| `approval_live` | 2 users, 1 Moin, 2 requests | `RequestsEnd` |
| `digest_safety` | 2 notifications, 1 preference update, 2 workers, 3 instants. 4,991,294 states | `CountedOnce`, `NothingLost`, `NoReplay`, `SignatureIsCurrent` |
| `digest_live` | 1 notification, 1 update, 2 workers, 1 fault. 389,902 states | `DueIsHandled` |
| `inbox_safety` | 2 notifications (one asks for approval, one is e-mailed), 1 instance, queue of 1, 1 fault. 906,533 states | `NothingDropped`, `DecidedIsNotPushed`, `PushedOnce`, `MailOncePerLapse`, `SummaryFollows` |
| `query_cache` | 2 paths of one area, 2 views, a cache of 1, 1 retry, 1 mutation, clears at any moment. 264,396 states | `ReadYourWrites`, `LoadingIsBacked`, `NobodyWaitsInVain`, `NeverBackwards`, `LoadsEnd` |
| `media` | 2 assets of 1 user, 1 Moin, 2 instances, quota 1, batch 1. 295,704 states | `QuotaHolds`, `LinksAreStored`, `VictimsAreExclusive`, `OrphansGo` |
| `signin` | 2 users, one of them local, 2 tabs of one browser, 1 token, 1 revocation. 3,580,372 states | `RevocationEndsSessions`, `OneSilentAttempt`, `SignOutSticks` |
| `feed` | 2 Moins of two authors, one of them the viewer, 1 topic, pages of 1, 2 preferences, 1 tab, 2 requests, 3 snapshot identifiers, 3 buckets, 1 change of the tables behind the Flow. 4,388,934 states | `SnapshotsBounded`, `NothingSkipped`, `ShownOnce`, `NeverGoesBack` |

`operations_safety` has three components side by side: they share no row, so in a
behaviour one of them moves and the others keep their initial states (`side`); the
state space is the sum of the three and not their product.  `SidesKeepTheirSpecs` proves
that each of them behaves as its own specification says.

The invariants `TypeOK` (of every module), `DeadIsExhausted`,
`DeliveredWasApplied` (Outbox), `EditsOnlyPublished` and `Final` (Approval) are proved
for every instance and are in no run.

### Bounds and why they are enough

- `MaxFaults`: failures of statements and crashes.  One is enough for a failure at
  every point of every loop; the proofs hold for any number.
- `MaxClaims`: claims of an event in one round; above `MaxAttempts`, so that late
  workers push `attempts` past the limit.
- Two workers, two requests, two instances, two views: every conflict in these
  protocols is between two parties (a lease and its successor, two locks, a save and
  a load, a cleanup and a transaction).  Three-party cases are left to the proofs,
  which hold for any number.
- Lease 3 with a handler of 1 and a margin of 1: the smallest that satisfies the
  inequality that `validateDispatcherConfig` is there for.
- `MaxRevision` 2 in `operations_safety` and `settings_cache`: a copy that is old by one save while another
  is under way.
- `Capacity` 1: the second notification finds the queue full.  `Quota` 1 and
  `Batch` 1: the second upload is refused, the second victim is left to the other
  instance.  `MaxEntries` 1: the second path evicts the first.
- `Token` 1: a session is inserted again with the token of one that is gone; two
  sessions at once of one browser cannot be, since they share a cookie.
- Detached answers: one that no later mutation can outdate is not kept, so `detached`
  is bounded by `MaxRevision`.
- Feed: pages of one Moin and two rankings, one with a tie, make the cursor end
  inside a tie; `Lifetime` 2 and `Retained` 1 with 3 buckets let a snapshot be reused,
  pruned and expired.  The code retains two.
- Authority: `MaxChanges` 2, the commit that crosses a handler and the handler's own;
  two rosters, one and two super administrators.  `TTL` 1 with `MaxClock` 1.
- `Post`: an INSERT that finds no id left fails (`CreateRefused`).
- `MaxTime` 2 with `Hour` 1 and `Day` 2: a window, its successor, an hourly and a daily
  one, and a change of schedule between them.
- `digest_safety` has one preference update at a time and one daily time.  With two
  updates, one that began before a digest was recorded and commits after it sets the
  base line back to its own beginning (`now()` is the time at which a transaction
  begins), and a window can be used a second time; see section 5.  The exception that
  `NothingLost` makes is not reached in this run: it needs two daily times.  With two of
  them, one worker and four instants it is (14,007,847 states, too many for a run that is
  repeated), and the proof covers it.
- `inbox_safety` switches the deadlock check off: the faults are bounded and a user
  who has read everything, with nothing under way, has no step left.

### Fairness

- Outbox: time passes, workers take their steps, processes are restarted (weak).
  Claims are strongly fair per event: a row becomes unavailable whenever somebody
  locks it, and `ORDER BY available_at, id` serves the oldest first.  The liveness
  run excludes late workers, because the bound on claims would otherwise be used up by
  them.
- Inbox: the dispatcher calls the handler, a publisher goes on, a frame is written,
  the tab reloads (weak); a request for the summary is answered in the end although
  any single one may fail (strong).  Nothing is assumed of the LISTEN connection or
  the socket: `SummaryFollows` rests on the reload that a timer brings every minute.
- SettingCache: time passes, a request that began ends.  Nothing is assumed of
  notifications or connections.
- Approval: strong fairness of each request's steps: a lock that is free again and
  again is granted (PostgreSQL queues waiters).
- NotificationDigest: strong fairness of a transaction's steps (locks) and of each
  worker's wake-ups (a ticker).  No fairness of the users or the clock.
- Media: the cleanup's timer fires, and a statement or transaction that has begun goes
  on (weak).  `OrphansGo` excepts behaviours in which cleanups fail for ever or requests
  keep on trying to attach the orphan.
- QueryCache: a request is answered or fails and a retry timer fires (strong: a task
  waits for the continuations before it, and there may always be new ones), a
  continuation runs, and a view that lost its request to a clear is unmounted (weak,
  `Follow`): the logout and the handler of 401 call `setUser(null)`, upon which
  `Protected` (`App.tsx:42`) redirects to the login page, and a login is made from a page
  outside `Protected`.  None of the users.
- SignIn, Feed and Authority have safety properties only.

## 4. What is proved

All theorems hold for any number of events, workers, instances, requests, users, roles,
Moins, notifications, views, tabs, snapshots and assets, and any value of the limits that
satisfies the named assumptions.  The assumptions say that limits are natural numbers
(some not zero), that names for nobody and nothing are not in the sets they stand
outside, and what is stated below where it matters.

- **OperationsProofs, outbox.**  `OutboxTypes`; then `Fence`, the inductive invariant: a
  row that is not pending is not locked; a worker whose name is on the lock of the row in its
  hand was given the row's current `attempts`; what is settled or about to be was
  applied.  It is needed because `DeadIsExhausted` alone is not inductive: `MarkFailed`
  decides from `seen`, and only the lock links `seen` to `attempts`.  From it:
  `DeadLettersAreExhausted`, `DeliveredIsApplied`, `VerdictsMatchCounts` (the backoff and
  the dead letter follow the row's count, although `MarkFailed` computes them from the
  copy) and `OutboxImplementsDelivery`.  `HandlingIsExclusive` rests on `LeaseHeld`: a worker
  that did not oversleep has the lock, and the lock is no older than the time it has
  spent.  It uses `LeaseAssumption` (the lease exceeds handler time-out plus margin).
- **OperationsProofs, rights.**  `PermissionsStayRecent` from `RecentOK`: what an instance
  has cached, and what a request is about to cache, are the permissions of a policy that
  was in force at its stamp or later (`Backed`); for a request that still reads, the stamp
  is not in the future.  The three action properties rest on `DecidedOK`: what a handler
  knows still holds unless another commit crossed it.  For a change of an account that
  means: its target is a super administrator only if the principal is one, is not the
  last one when a removal is about to be written, and the roles given carry nothing that
  the principal lacks.  Every commit either crosses a handler or leaves these facts as
  they are (`DecidedKept`, `DecidedCrossed`); from there `LastSuperIsKept`,
  `SupersStayProtected` and `NobodyGaveMore` look at the only steps that write users or
  roles (`Changes`, `Writers`).  `DecidedOK` was checked by TLC on the instance of
  `operations_safety` before it was proved.
- **OperationsProofs, settings.**  `StalenessIsBounded`: the age of an entry, and the time
  since a load read its clock, are never less than the time for which the value has
  been outdated (`Stamped`).  `ReasonsForOldCopies`: the reasons are kept for every old
  copy, fresh or not (`Reasons`).
- **InboxProofs.**  `NothingIsDropped` needs `Waiting`: the queue of a connection that
  is not registered is empty.  `MailsOncePerLapse` counts acceptances against lapses
  by the state of the e-mail event (`Mailed`).  `PushesOnce` and `DecidedAreNotPushed`
  rest on `Course` (a notification is in an instance's signals, in its publisher's hand
  or given to its hub, and only one of them, once) and `Lateness` (a request that was
  decided before its row existed is decided).
- **ApprovalProofs.**  The inductive invariant ties locks to transactions: who holds a
  Moin's lock is past its look at the row, the row is as it was then, and a review
  holds the request's lock as well.  From it `DecisionsMatchPosts`,
  `NothingPublishedUnapproved`, `OnlyPublishedIsEdited`, `DecisionsAreFinal`.
- **NotificationDigestProofs.**  The inductive invariant `IInv` says who holds which
  lock (`Locks`), that what a holder read is still current (`Current`), that rows
  counted and not yet marked are still new or withdrawn (`Counted`), and that no new
  row is older than the subscription unless an update is about to close it (`Bounded`).
  From it `CountsOnce`, `NothingIsReplayed`, `SignaturesAreCurrent`.
  `NothingGetsLost` needs `Limited`, that a worker marks only rows that it has counted; it
  holds for any daily times, hence also where a window comes round twice, which is the
  exception it names.
- **MediaProofs.**  `LinksAreStored` and `VictimsAreExclusive` are one invariant
  (`LockStep`): a link keeps its asset only because no victim is key-shared, and the
  other way round.  `QuotaIsKept` needs `Room`: a user has at most one upload under
  way, and one that was admitted leaves the never-used assets below the quota; it
  counts with the library's theorems on finite sets (`FreshShrinks`).
- **SignInProofs.**  `AttemptsOnce` from `Remembered` (a tab without the attempt flag
  has not tried).  `SignOutsStick` from `SignedOutInv`: a tab whose credentials are being
  checked waits on its page (`Waiting`), no `/auth/me` is pending on the way to the
  provider (`Resting`), and a tab whose user has left has the flag, waits for no answer
  about a user and has no cookie once its request is done (`Gone`).
  `RevocationsEndSessions` from `Current`: a session is of its owner's generation or
  its owner is being deactivated, and a transaction that has revoked has deleted it.
- **QueryCacheProofs.**  `LoadsAreBacked` and `NoRequestInVain` from `Waits` and
  `Backed` (a view waits for at most one request, the one of its path, or has lost it
  to a clear).
  `ReadsYourWrites` from `Recent`: whatever may still reach a view unmarked was answered
  after the newest mutation that was announced.  `GoesNeverBackwards` from
  `Upward`: for each path the revisions grow from what views have settled on, over the
  results in hand, to the cache and to the response of a request.
- **FeedProofs.**  One inductive invariant, `FeedInv`, of seven parts.  `SnapshotsOK`:
  identifiers are keys, and a snapshot has each Moin once.  `StagesOK`: what a request
  has at each stage, and that the snapshot a transaction has found is there and not one
  that it prunes, or that the one it will insert is named by nobody (`Fresh`).
  `BoundOK`: one transaction at a time, and what it leaves is within `Retained`; it
  gives `SnapshotsAreBounded`.  `CurrentOK`: the request that a tab waits for is its own,
  for its first page or the one after its last.  `AgesOK`: the first page it waits for is
  no older than the one it shows, which gives `FlowNeverGoesBack`.  `ChainsOK`: for the
  pages that a tab shows, and for those it will show once the answer under way has landed,
  each page comes after the last cursor, all cursors are into one snapshot, the scores are
  a function of the Moins (so ties are broken in one way), and up to each cursor all that
  is due has been shown.  The second half is needed because an answer is computed from
  the tables in one step and shown in a later one.  `NoneIsShownTwice` and
  `NothingIsSkipped` follow.  What `PageOf` returns for every set of rows, page length and
  cursor is the lemma `Pages`: it is a best part of the rows after the cursor, and what is
  left out comes after its new cursor.  `FeedAssumption` asks of `Ranking` that a
  statement gives a Moin one score in its range.

Every invariant and every action property that a run checks is stated by a theorem.
Only model-checked are the liveness properties (`Settles`, `Converges`, `RequestsEnd`,
`DueIsHandled`, `SummaryFollows`, `OrphansGo`, `LoadsEnd`), since liveness under
fairness and ENABLED are out of the prover's reach.

## 5. Known disagreements

Where the code and its comments or documents disagree, or where it does less than
one might think.  The models have the behaviour; no property says the opposite.

1. **A second Remoin.**  The check behind "이미 Remoin한 Moin입니다" (`posts.go:161`)
   is outside the transaction that inserts, and no index makes it unique: two
   concurrent requests both insert.  `deleteRemoin` then deletes all of them and cancels
   one approval request (`posts.go:1107`); that of the other stays pending.
2. **A cancelled request of a living Moin.**  `deletePost` cancels the approval
   request "because the Moin was deleted" (`posts.go:975`) and commits before it sees
   that it deleted no Moin; that Moin can no longer be reviewed.
3. **The administrator's own write.**  `settings.go:104-106` promises that the next read
   is the own write; a load that queried before the save stores the old value after
   the invalidation.  `OldForAReason` names the case.
4. **A second digest on one date.**  The key of a daily digest is the date
   (`notification_digest.go:269`).  When the time of day is changed and comes round
   again, the second digest is a no-op and its rows are marked all the same, against
   `docs/operations.md:69`.  It is the exception that `NothingLost` names;
   `digest_safety` has one daily time and does not meet it.
5. **Other sections of the preferences.**  While a user has no row, `SELECT ... FOR
   UPDATE` locks nothing and two first updates erase each other's section
   (`preferences.go:169`, 195), against `preferences.go:143-145`.
6. **The badge.**  A live frame raises the badge; if the notification is read and
   the summary comes back with the count it had before, the effect does not run and
   the badge keeps the frame's count, against `AppShell.tsx:252-253`.  `SummaryFollows` is
   about the summary.
7. **A published Moin loses its picture.**  A link that is committed between the
   snapshot of `deleteMedia` or of the cleanup and its row lock is cascaded away with
   the asset (`media/postgres.go:50`, `social.go:1060`), against `docs/security.md:56`.
8. **A dangling avatar.**  `avatar_id` is checked and set in two statements
   (`auth.go:280`) and has no foreign key.
9. **A session that outlives a password.**  A login that has compared the old
   password inserts its session after the revocation (`auth.go:118`).
   `RevocationEndsSessions` is about the sessions that the revocation could see.
10. **Reactivation.**  Deactivation ignores an error of deleting the sessions
    (`admin.go:178`); they are of use again once the account is active.
11. **A refresh at the sign-out.**  An `/auth/me` under way at the sign-out answers
    with the user and clears the flag (`AuthContext.tsx:76`), against
    `docs/ADMIN_GUIDE.md:257`.  And a logout that fails leaves cookie and session: the
    next reload signs the user in.
12. **An expired cursor.**  The Flow's retry asks for the same cursor
    (`useFeedPages.ts:44`), against `docs/architecture.md:58`.
13. **The last super administrator.**  Two administrators who demote each other
    both count two (`admin.go:166`).  `LastSuperStays` says that only a crossed handler
    can do that.  In the same way an account is changed that has become a super
    administrator's since it was looked at (`admin.go:131`, `SupersAreProtected`), and a
    role is given that was extended since it was compared (`settings.go:554`,
    `NobodyGivesMore`).
14. **A narrowed key.**  `adminUpdateKey` writes back the permissions that it read
    (`admin.go:600`), and undoes what the owner changed in between.
15. **Two moderators** resolve one report (`admin.go:393`): the last one wins.
16. **Two signatures of one schedule.**  The candidates compare the stored signature with
    a CASE over the document (`notification_digest.go:27-32`), the worker stores what
    `looseDigestConfigSignature` makes of it (221-244).  For an empty mode or time, or a
    document whose digest is no object, they differ: the user is a candidate at every
    run, and each run closes the backlog again.  `putPreferences` writes no such document;
    one that got there otherwise is the variable `odd`, and `DueIsHandled` excepts it.
17. **A spinner after a clear.**  The hook returns from an AbortError without a state
    (`useApiQuery.ts:83`), which is meant for a view that has moved on; after a clear the
    view is still there and its spinner stays on until the redirect takes it away.
18. **A mutation of another area.**  `UserProfilePage.tsx:21` posts to `/links` and shows
    `/users`.  The mutation invalidates `/links`; the page's own `query.reload()` may join
    a request that was sent before the mutation, and other views of the profile are not
    told.  `ReadYourWrites` is about the queries of the mutation's own first segment.
19. **Once per tab session.**  `silentSso.ts:59` and `docs/ADMIN_GUIDE.md:259` say that a
    tab attempts once per session of the tab; the code clears the flag whenever a session
    is seen (`silentSso.ts:36-40`), so the tab may attempt again after that session has
    expired.  `OneSilentAttempt` counts from the last session seen.

## 6. Not modelled

- In Outbox: the wake channel (it only shortens the poll), payloads, batches of more
  than one row (`ClaimBatch` is 1 and nothing sets it).
- In Inbox: two handlers of one event at a time, quiet hours, decoration of rows,
  several tabs.
- In SettingCache: encryption, and the checks of each settings document.
- In Approval: media, hashtags, audience, reactions, bookmarks and counters of a Moin.
- In NotificationDigest: the limit of 1000 rows per digest, inactive users, changes
  of the time zone; several users of one batch are one user and `FailBatch`.
- In Media: reading an object and its slots, legacy inline payloads, and sizes: `Quota`
  is the one of objects, and the quota of bytes beside it (`media/postgres.go:126`),
  which is compared in the same statement under the same lock, may refuse any upload.
- In SignIn: CSRF tokens, rate limits, discovery, tokens and claims of OpenID Connect
  (one outcome of the callback), two first logins of one subject (the unique key
  refuses the second).
- In Authority: expiry of keys, the limiter of last_used_at, permissions like `x:*`,
  display names, the audit trail.
- In Feed: the scores themselves, the 200 candidates, hydration, errors as a state of
  the tab, and edits of single Moins in loaded pages (`updateMoinInFeed`,
  `removeMoinFromFeed`).
- **Moims**: members, joins, invitations and the Moins of a Moim.  Follows, blocks and
  mutes are in Feed as far as they concern the viewer; the check for a block before a
  follow is not a guard there, since a block committed in between is not seen.
- **Search**: a query without state.  **Rate limits**: one upsert, atomic in the
  database.  **Outbound policy**: a pure check of addresses.  **Migrations**: one advisory
  lock around a sequential loop.  **MCP, AI**: stateless translation of calls.
  **Analytics, observability, audit**: counters and append-only rows.  **Secrets,
  configuration**: field-level code.  **Composer, pages, theme**: the state of one
  component on the screen, and rendering.
