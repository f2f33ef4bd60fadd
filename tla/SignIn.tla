------------------------------- MODULE SignIn -------------------------------
(***************************************************************************)
(* Accounts, sessions and signing in: the users and sessions tables of     *)
(* store.go, the handlers of auth.go, admin.go and oidc.go that create and *)
(* end sessions, and the tabs of the web application (AuthContext.tsx,     *)
(* silentSso.ts) with their attempt to sign in silently at Keycloak.       *)
(*                                                                         *)
(* A handler that checks credentials and then inserts a session is two     *)
(* steps; UpdatePasswordAndRevokeSessions is a transaction of three.  Tabs *)
(* of one browser share their cookies; the two flags of silentSso.ts are   *)
(* the tab's own.                                                          *)
(***************************************************************************)
EXTENDS Naturals

CONSTANTS
    User,
    Local,          \* accounts that have a password; the others sign in at Keycloak
    Tab,
    Browser,
    Jar,            \* [Tab -> Browser], whose cookies a tab uses
    Token,          \* session tokens
    None,           \* no token, no tab, no session, no login
    MaxRevocations  \* bounds the changes that end all sessions of an account

ASSUME SignInAssumption ==
    /\ Local \subseteq User
    /\ Jar \in [Tab -> Browser]
    /\ None \notin Token \cup Tab
    /\ MaxRevocations \in Nat

VARIABLES
    (* users and sessions, as committed *)
    account,    \* [User -> "absent", "active" or "inactive"]
    gen,        \* [User -> number of password changes and deactivations]
    row,        \* [Token -> session or None]
    (* history *)
    spared,     \* sessions that were on their way while a revocation ran, or
                \* that a failed DELETE left behind
    (* UpdatePasswordAndRevokeSessions and DeleteUserSessions *)
    change,     \* [User -> "none", "rewritten" or "revoked"]
    by,         \* [User -> the tab that asked, None for an administrator]
    doomed,     \* [User -> sessions that the open transaction has deleted]
    closing,    \* users deactivated, whose sessions are yet to be deleted
    (* browsers *)
    cookie,     \* [Browser -> SessionCookie]
    flow,       \* [Browser -> tab whose flow OIDCCookie holds]
    sso,        \* browsers with a session at Keycloak
    (* tabs *)
    page,       \* [Tab -> what it shows or loads]
    me,         \* [Tab -> state of its request to /auth/me]
    login,      \* [Tab -> credentials accepted, session yet to be inserted]
    attempted,  \* tabs with ATTEMPTED_KEY
    signedOut,  \* tabs with SIGNED_OUT_KEY
    (* history *)
    tries,      \* [Tab -> silent attempts since it last saw a session]
    left        \* tabs whose user has signed out and not come back

tableVars == <<account, gen, row, spared>>
changeVars == <<change, by, doomed, closing>>
browserVars == <<cookie, flow, sso>>
flagVars == <<attempted, signedOut, tries, left>>
tabVars == <<page, me, login>>
vars == <<tableVars, changeVars, browserVars, tabVars, flagVars>>

Login == [owner : User, gen : Nat, via : {"password", "register", "sso"}]
Session == [owner : User, gen : Nat]

Init ==
    /\ account = [u \in User |-> "absent"]
    /\ gen = [u \in User |-> 0]
    /\ row = [k \in Token |-> None]
    /\ spared = {}
    /\ change = [u \in User |-> "none"]
    /\ by = [u \in User |-> None]
    /\ doomed = [u \in User |-> {}]
    /\ closing = {}
    /\ cookie = [b \in Browser |-> None]
    /\ flow = [b \in Browser |-> None]
    /\ sso = {}
    /\ page = [t \in Tab |-> "loading"]
    /\ me = [t \in Tab |-> "asked"]
    /\ login = [t \in Tab |-> None]
    /\ attempted = {}
    /\ signedOut = {}
    /\ tries = [t \in Tab |-> 0]
    /\ left = {}

(* SessionUser: the session of a tab, unexpired and of an active account.  *)
Valid(k) == k # None /\ row[k] # None /\ account[row[k].owner] = "active"
Authenticated(t) == Valid(cookie[Jar[t]])
Me(t) == row[cookie[Jar[t]]].owner

(* Tokens are random: a new one is none that anybody still refers to.      *)
Used ==
    {cookie[b] : b \in Browser} \cup {k \in Token : row[k] # None}
        \cup UNION {doomed[u] : u \in User}

-----------------------------------------------------------------------------
(* A tab loads: "loading" any page of the application, "signin" the page   *)
(* /login, which is not eligible for a silent attempt.                     *)

(* The user opens a page, or reloads it.                                   *)
Open(t, p) ==
    /\ page[t] \in {"app", "login", "error"}
    /\ login[t] = None
    /\ page' = [page EXCEPT ![t] = p]
    /\ me' = [me EXCEPT ![t] = "asked"]
    /\ UNCHANGED <<tableVars, changeVars, browserVars, login, flagVars>>

(* The server answers /auth/me.                                            *)
Answer(t) ==
    /\ me[t] = "asked"
    /\ me' = [me EXCEPT ![t] = IF Authenticated(t) THEN "user" ELSE "nobody"]
    /\ UNCHANGED <<tableVars, changeVars, browserVars, page, login, flagVars>>

(* setUser with a user: the effect calls clearSilentSsoState.              *)
SeesUser(t) ==
    /\ attempted' = attempted \ {t}
    /\ signedOut' = signedOut \ {t}
    /\ tries' = [tries EXCEPT ![t] = 0]

(* The request for /auth/me ends, with the answer or with an error.        *)
Loaded(t) ==
    /\ page[t] \in {"loading", "signin"}
    /\ me[t] = "user"
    /\ me' = [me EXCEPT ![t] = "idle"]
    /\ page' = [page EXCEPT ![t] = "app"]
    /\ SeesUser(t)
    /\ UNCHANGED <<tableVars, changeVars, browserVars, login, left>>

(* shouldAttemptSilentSso but for the configuration.                       *)
MayAttempt(t) == page[t] = "loading" /\ t \notin signedOut /\ t \notin attempted

(* Nobody, and the tab may not attempt, or the server does not offer it.   *)
LoadedNobody(t) ==
    /\ page[t] \in {"loading", "signin"}
    /\ me[t] \in {"asked", "nobody"}
    /\ me' = [me EXCEPT ![t] = "idle"]
    /\ page' = [page EXCEPT ![t] = "login"]
    /\ UNCHANGED <<tableVars, changeVars, browserVars, login, flagVars>>

(* Mutant: the attempt is not written down.                                *)
BeginSilentSsoUnmarked(t) ==
    /\ me[t] \in {"asked", "nobody"}
    /\ MayAttempt(t)
    /\ me' = [me EXCEPT ![t] = "idle"]
    /\ tries' = [tries EXCEPT ![t] = @ + 1]
    /\ flow' = [flow EXCEPT ![Jar[t]] = t]
    /\ \E p \in {"silent", "provider"} : page' = [page EXCEPT ![t] = p]
    /\ UNCHANGED <<tableVars, changeVars, cookie, sso, login, attempted, signedOut, left>>

(* beginSilentSso and oidcLogin: the cookie of the flow replaces that of   *)
(* another tab.  Without autoLogin, prompt=none is dropped.                *)
BeginSilentSso(t) ==
    /\ me[t] \in {"asked", "nobody"}
    /\ MayAttempt(t)
    /\ me' = [me EXCEPT ![t] = "idle"]
    /\ attempted' = attempted \cup {t}
    /\ tries' = [tries EXCEPT ![t] = @ + 1]
    /\ flow' = [flow EXCEPT ![Jar[t]] = t]
    /\ \E p \in {"silent", "provider"} : page' = [page EXCEPT ![t] = p]
    /\ UNCHANGED <<tableVars, changeVars, cookie, sso, login, signedOut, left>>

(* The button of the login page.                                           *)
OidcLogin(t) ==
    /\ page[t] = "login" /\ login[t] = None
    /\ me' = [me EXCEPT ![t] = "idle"]
    /\ flow' = [flow EXCEPT ![Jar[t]] = t]
    /\ page' = [page EXCEPT ![t] = "provider"]
    /\ UNCHANGED <<tableVars, changeVars, cookie, sso, login, flagVars>>

-----------------------------------------------------------------------------
(* oidcCallback.                                                           *)

AtProvider(t) == page[t] \in {"silent", "provider"} /\ login[t] = None

(* The state is not that of the cookie, or there is no cookie.             *)
CallbackRefused(t) ==
    /\ AtProvider(t)
    /\ flow[Jar[t]] # t
    /\ flow' = [flow EXCEPT ![Jar[t]] = None]
    /\ page' = [page EXCEPT ![t] = "error"]
    /\ UNCHANGED <<tableVars, changeVars, cookie, sso, me, login, flagVars>>

(* login_required, or the user has cancelled: /login?sso=none or error.    *)
ProviderError(t) ==
    /\ AtProvider(t)
    /\ flow[Jar[t]] = t
    /\ page[t] = "silent" => Jar[t] \notin sso
    /\ flow' = [flow EXCEPT ![Jar[t]] = None]
    /\ page' = [page EXCEPT ![t] = "signin"]
    /\ me' = [me EXCEPT ![t] = "asked"]
    /\ UNCHANGED <<tableVars, changeVars, cookie, sso, login, flagVars>>

(* A code of account u: UserByOIDC and UpsertOIDCUser, and the check that  *)
(* the account is active.  Or an error: no token, provisioning_disabled,   *)
(* inactive_user.                                                          *)
Callback(t, u) ==
    /\ AtProvider(t)
    /\ flow[Jar[t]] = t
    /\ u \notin Local
    /\ page[t] = "silent" => Jar[t] \in sso
    /\ flow' = [flow EXCEPT ![Jar[t]] = None]
    /\ sso' = sso \cup {Jar[t]}
    /\ \/ /\ account[u] # "inactive"
          /\ account' = [account EXCEPT ![u] = "active"]
          /\ login' = [login EXCEPT ![t] = [owner |-> u, gen |-> gen[u], via |-> "sso"]]
          /\ page' = page
       \/ /\ page' = [page EXCEPT ![t] = "error"]
          /\ UNCHANGED <<account, login>>
    /\ UNCHANGED <<gen, row, spared, changeVars, cookie, me, flagVars>>

-----------------------------------------------------------------------------
(* login and register of auth.go.                                          *)

(* UserByUsername: active, local, and the password is right.               *)
LoginCheck(t, u) ==
    /\ page[t] = "login" /\ login[t] = None /\ me[t] = "idle"
    /\ u \in Local /\ account[u] = "active"
    /\ login' = [login EXCEPT ![t] = [owner |-> u, gen |-> gen[u], via |-> "password"]]
    /\ UNCHANGED <<tableVars, changeVars, browserVars, page, me, flagVars>>

Register(t, u) ==
    /\ page[t] = "login" /\ login[t] = None /\ me[t] = "idle"
    /\ u \in Local /\ account[u] = "absent"
    /\ account' = [account EXCEPT ![u] = "active"]
    /\ login' = [login EXCEPT ![t] = [owner |-> u, gen |-> gen[u], via |-> "register"]]
    /\ UNCHANGED <<gen, row, spared, changeVars, browserVars, page, me, flagVars>>

(* A session that the revocations of its owner have not seen.              *)
Overtaken(l) == l.gen # gen[l.owner] \/ change[l.owner] = "revoked"

(* issueSession inserts the session, whatever has happened to the account  *)
(* since, and sets the cookie.  The answer of login carries the user; a    *)
(* registration is followed by refresh, a callback redirects.              *)
IssueSession(t, k) ==
    /\ login[t] # None
    /\ k \in Token \ Used
    /\ row' = [row EXCEPT ![k] = [owner |-> login[t].owner, gen |-> login[t].gen]]
    /\ spared' = IF Overtaken(login[t]) THEN spared \cup {k} ELSE spared \ {k}
    /\ cookie' = [cookie EXCEPT ![Jar[t]] = k]
    /\ login' = [login EXCEPT ![t] = None]
    /\ left' = {o \in left : Jar[o] # Jar[t]}
    /\ \/ /\ login[t].via = "password"
          /\ page' = [page EXCEPT ![t] = "app"]
          /\ SeesUser(t)
          /\ me' = me
       \/ /\ login[t].via # "password"
          /\ page' = [page EXCEPT ![t] = IF login[t].via = "sso" THEN "loading" ELSE "login"]
          /\ me' = [me EXCEPT ![t] = "asked"]
          /\ UNCHANGED <<attempted, signedOut, tries>>
    /\ UNCHANGED <<account, gen, changeVars, flow, sso>>

(* session_failed.                                                         *)
IssueFails(t) ==
    /\ login[t] # None
    /\ login' = [login EXCEPT ![t] = None]
    /\ page' = [page EXCEPT ![t] = IF login[t].via = "sso" THEN "error" ELSE "login"]
    /\ UNCHANGED <<tableVars, changeVars, browserVars, me, flagVars>>

-----------------------------------------------------------------------------
(* In the application.                                                     *)

(* refresh, after the profile has been saved or an account registered.     *)
Refresh(t) ==
    /\ page[t] = "app" /\ me[t] = "idle"
    /\ me' = [me EXCEPT ![t] = "asked"]
    /\ UNCHANGED <<tableVars, changeVars, browserVars, page, login, flagVars>>

(* setUser with what refresh has been told, wherever the user is by now.   *)
RefreshLands(t) ==
    /\ page[t] \in {"app", "leaving", "login"}
    /\ me[t] # "idle"
    /\ me' = [me EXCEPT ![t] = "idle"]
    /\ \/ /\ me[t] = "user"
          /\ page' = [page EXCEPT ![t] = IF @ = "login" THEN "app" ELSE @]
          /\ SeesUser(t)
       \/ /\ me[t] \in {"asked", "nobody"}
          /\ page' = [page EXCEPT ![t] = IF @ = "app" THEN "login" ELSE @]
          /\ UNCHANGED <<attempted, signedOut, tries>>
    /\ UNCHANGED <<tableVars, changeVars, browserVars, login, left>>

(* Any request is answered 401: moina:unauthorized.                        *)
Unauthorized(t) ==
    /\ page[t] = "app" /\ ~Authenticated(t)
    /\ page' = [page EXCEPT ![t] = "signin"]
    /\ me' = [me EXCEPT ![t] = "asked"]
    /\ UNCHANGED <<tableVars, changeVars, browserVars, login, flagVars>>

(* Mutant: signing out is not written down.                                *)
MarkSignedOutNever(t) == UNCHANGED <<attempted, signedOut>>

(* logout: first markSignedOut.  The history leaves out a sign-out that a  *)
(* refresh is about to overtake.                                           *)
MarkSignedOut(t) ==
    /\ attempted' = attempted \cup {t}
    /\ signedOut' = signedOut \cup {t}

SignsOut(t) ==
    /\ MarkSignedOut(t)
    /\ page' = [page EXCEPT ![t] = "leaving"]
    /\ left' = IF me[t] = "idle" THEN left \cup {t} ELSE left

Logout(t) ==
    /\ page[t] = "app"
    /\ SignsOut(t)
    /\ UNCHANGED <<tableVars, changeVars, browserVars, me, login, tries>>

(* ... then the server deletes the session, if it can, and the cookies ... *)
LogoutServed(t) ==
    /\ page[t] = "leaving" /\ Authenticated(t)
    /\ \/ row' = [row EXCEPT ![cookie[Jar[t]]] = None]
       \/ row' = row
    /\ cookie' = [cookie EXCEPT ![Jar[t]] = None]
    /\ page' = [page EXCEPT ![t] = "login"]
    /\ UNCHANGED <<account, gen, spared, changeVars, flow, sso, me, login, flagVars>>

(* ... or the request fails; the tab forgets the user all the same.        *)
LogoutFails(t) ==
    /\ page[t] = "leaving"
    /\ page' = [page EXCEPT ![t] = "login"]
    /\ left' = IF cookie[Jar[t]] = None THEN left ELSE left \ {t}
    /\ UNCHANGED <<tableVars, changeVars, browserVars, me, login, attempted, signedOut, tries>>

-----------------------------------------------------------------------------
(* UpdatePasswordAndRevokeSessions, for the owner (changePassword, with    *)
(* the current password) or for an administrator (adminResetPassword).     *)

Revocable(u) == gen[u] < MaxRevocations
SessionsOf(u) == {k \in Token : row[k] # None /\ row[k].owner = u}

(* The UPDATE locks the row of the user until the transaction ends.        *)
Rewrite(u, who) ==
    /\ u \in Local /\ account[u] # "absent"
    /\ change[u] = "none" /\ Revocable(u)
    /\ who # None => page[who] = "app" /\ Authenticated(who) /\ Me(who) = u
    /\ change' = [change EXCEPT ![u] = "rewritten"]
    /\ by' = [by EXCEPT ![u] = who]
    /\ UNCHANGED <<tableVars, doomed, closing, browserVars, tabVars, flagVars>>

(* Mutant: a refused DELETE does not undo the password.                    *)
RevokeDiscardingError(u) ==
    /\ change[u] = "rewritten"
    /\ change' = [change EXCEPT ![u] = "revoked"]
    /\ \E S \in {SessionsOf(u), {}} : doomed' = [doomed EXCEPT ![u] = S]
    /\ UNCHANGED <<tableVars, by, closing, browserVars, tabVars, flagVars>>

(* The DELETE sees the sessions that are committed by now.                 *)
Revoke(u) ==
    /\ change[u] = "rewritten"
    /\ change' = [change EXCEPT ![u] = "revoked"]
    /\ doomed' = [doomed EXCEPT ![u] = SessionsOf(u)]
    /\ UNCHANGED <<tableVars, by, closing, browserVars, tabVars, flagVars>>

Ended(u) ==
    /\ change' = [change EXCEPT ![u] = "none"]
    /\ by' = [by EXCEPT ![u] = None]
    /\ doomed' = [doomed EXCEPT ![u] = {}]
    /\ closing' = closing

Awaited(u) == by[u] # None /\ page[by[u]] = "app"

(* The answer to the owner clears the cookies and the tab signs out; it    *)
(* may have left the page meanwhile.                                       *)
CommitPassword(u) ==
    /\ change[u] = "revoked"
    /\ Ended(u)
    /\ gen' = [gen EXCEPT ![u] = @ + 1]
    /\ row' = [k \in Token |-> IF k \in doomed[u] THEN None ELSE row[k]]
    /\ \/ /\ Awaited(u)
          /\ cookie' = [cookie EXCEPT ![Jar[by[u]]] = None]
          /\ SignsOut(by[u])
       \/ /\ ~Awaited(u)
          /\ UNCHANGED <<cookie, page, attempted, signedOut, left>>
    /\ UNCHANGED <<account, spared, flow, sso, me, login, tries>>

AbortPassword(u) ==
    /\ change[u] # "none"
    /\ Ended(u)
    /\ UNCHANGED <<tableVars, browserVars, tabVars, flagVars>>

-----------------------------------------------------------------------------
(* adminUpdateUser, active = false: the UPDATE, then DeleteUserSessions.   *)

Deactivate(u) ==
    /\ account[u] = "active"
    /\ change[u] = "none" /\ Revocable(u)
    /\ account' = [account EXCEPT ![u] = "inactive"]
    /\ gen' = [gen EXCEPT ![u] = @ + 1]
    /\ closing' = closing \cup {u}
    /\ UNCHANGED <<row, spared, change, by, doomed, browserVars, tabVars, flagVars>>

CloseSessions(u) ==
    /\ u \in closing
    /\ closing' = closing \ {u}
    /\ row' = [k \in Token |-> IF k \in SessionsOf(u) THEN None ELSE row[k]]
    /\ UNCHANGED <<account, gen, spared, change, by, doomed, browserVars, tabVars, flagVars>>

(* Its error is discarded.                                                 *)
CloseSessionsFails(u) ==
    /\ u \in closing
    /\ closing' = closing \ {u}
    /\ spared' = spared \cup SessionsOf(u)
    /\ UNCHANGED <<account, gen, row, change, by, doomed, browserVars, tabVars, flagVars>>

Reactivate(u) ==
    /\ account[u] = "inactive" /\ change[u] = "none"
    /\ account' = [account EXCEPT ![u] = "active"]
    /\ UNCHANGED <<gen, row, spared, changeVars, browserVars, tabVars, flagVars>>

-----------------------------------------------------------------------------
(* expires_at passes.  The row is of no use from then on, whenever         *)
(* DeleteExpiredSessions gets to it.                                       *)
Expire(k) ==
    /\ row[k] # None
    /\ row' = [row EXCEPT ![k] = None]
    /\ UNCHANGED <<account, gen, spared, changeVars, browserVars, tabVars, flagVars>>

(* The session at Keycloak ends.                                           *)
ProviderForgets(b) ==
    /\ b \in sso
    /\ sso' = sso \ {b}
    /\ UNCHANGED <<tableVars, changeVars, cookie, flow, tabVars, flagVars>>

-----------------------------------------------------------------------------
Load(t) == Answer(t) \/ Loaded(t) \/ LoadedNobody(t) \/ BeginSilentSso(t)

OidcCallback(t) ==
    CallbackRefused(t) \/ ProviderError(t) \/ \E u \in User : Callback(t, u)

Issue(t) == IssueFails(t) \/ \E k \in Token : IssueSession(t, k)

Visit(t) ==
    \/ \E p \in {"loading", "signin"} : Open(t, p)
    \/ OidcLogin(t) \/ \E u \in User : LoginCheck(t, u) \/ Register(t, u)
    \/ Refresh(t) \/ RefreshLands(t) \/ Unauthorized(t)
    \/ Logout(t) \/ LogoutServed(t) \/ LogoutFails(t)

Account(u) ==
    \/ \E who \in Tab \cup {None} : Rewrite(u, who)
    \/ Revoke(u) \/ CommitPassword(u) \/ AbortPassword(u)
    \/ Deactivate(u) \/ CloseSessions(u) \/ CloseSessionsFails(u) \/ Reactivate(u)

Next ==
    \/ \E t \in Tab : Load(t) \/ OidcCallback(t) \/ Issue(t) \/ Visit(t)
    \/ \E u \in User : Account(u)
    \/ \E k \in Token : Expire(k)
    \/ \E b \in Browser : ProviderForgets(b)

Spec == Init /\ [][Next]_vars

-----------------------------------------------------------------------------
(* The tables, the browsers and the tabs keep their types.                 *)
TypeOK ==
    /\ account \in [User -> {"absent", "active", "inactive"}]
    /\ gen \in [User -> Nat]
    /\ row \in [Token -> Session \cup {None}]
    /\ spared \subseteq Token
    /\ change \in [User -> {"none", "rewritten", "revoked"}]
    /\ by \in [User -> Tab \cup {None}]
    /\ doomed \in [User -> SUBSET Token]
    /\ closing \subseteq User
    /\ cookie \in [Browser -> Token \cup {None}]
    /\ flow \in [Browser -> Tab \cup {None}]
    /\ sso \subseteq Browser
    /\ page \in [Tab -> {"loading", "signin", "silent", "provider", "app", "leaving", "login", "error"}]
    /\ me \in [Tab -> {"idle", "asked", "user", "nobody"}]
    /\ login \in [Tab -> Login \cup {None}]
    /\ attempted \subseteq Tab
    /\ signedOut \subseteq Tab
    /\ tries \in [Tab -> Nat]
    /\ left \subseteq Tab

(* "both callers tell the owner every login session ended" (store.go, and  *)
(* deactivation likewise): no session from before a password change or a   *)
(* deactivation is of use after it, unless its login overtook the DELETE   *)
(* or the DELETE of a deactivation failed.                                 *)
RevocationEndsSessions ==
    \A k \in Token \ spared :
        Valid(k) /\ row[k].owner \notin closing => row[k].gen = gen[row[k].owner]

(* "It must never run more than once per browsing session"                 *)
(* (silentSso.ts): a tab attempts once until it sees a session again,      *)
(* however its page loads fail.                                            *)
OneSilentAttempt == \A t \in Tab : tries[t] <= 1

(* "An explicit sign-out must stick even while the Keycloak session is     *)
(* still alive" (AuthContext.tsx): once the user has signed out, with no   *)
(* refresh under way, the tab does not attempt until somebody signs in in  *)
(* this browser.                                                           *)
SignOutSticks == [][\A t \in left : tries'[t] <= tries[t]]_vars
=============================================================================
