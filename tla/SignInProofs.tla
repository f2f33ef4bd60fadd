---------------------------- MODULE SignInProofs ----------------------------
(***************************************************************************)
(* Sessions, sign-outs and silent attempts, for any number of accounts,    *)
(* tabs, browsers, tokens and revocations.                                 *)
(***************************************************************************)
EXTENDS SignIn, TLAPS

(* The tables, the browsers and the tabs keep their types.                 *)
LEMMA TypeStep == TypeOK /\ [Next]_vars => TypeOK'
<1> SUFFICES ASSUME TypeOK, [Next]_vars PROVE TypeOK'
  OBVIOUS
<1> USE SignInAssumption DEF TypeOK, Login, Session, tableVars, changeVars, browserVars, tabVars, flagVars
<1>1. ASSUME NEW t \in Tab, Answer(t) PROVE TypeOK'
  BY <1>1 DEF Answer
<1>2. ASSUME NEW t \in Tab, Loaded(t) PROVE TypeOK'
  BY <1>2 DEF Loaded, SeesUser
<1>3. ASSUME NEW t \in Tab, LoadedNobody(t) PROVE TypeOK'
  BY <1>3 DEF LoadedNobody
<1>4. ASSUME NEW t \in Tab, BeginSilentSso(t) PROVE TypeOK'
  BY <1>4 DEF BeginSilentSso, MayAttempt
<1>5. ASSUME NEW t \in Tab, CallbackRefused(t) PROVE TypeOK'
  BY <1>5 DEF CallbackRefused, AtProvider
<1>6. ASSUME NEW t \in Tab, ProviderError(t) PROVE TypeOK'
  BY <1>6 DEF ProviderError, AtProvider
<1>7. ASSUME NEW t \in Tab, NEW u \in User, Callback(t, u) PROVE TypeOK'
  BY <1>7 DEF Callback, AtProvider
<1>8. ASSUME NEW t \in Tab, IssueFails(t) PROVE TypeOK'
  BY <1>8 DEF IssueFails
<1>9. ASSUME NEW t \in Tab, NEW k \in Token, IssueSession(t, k) PROVE TypeOK'
  BY <1>9 DEF IssueSession, SeesUser, Overtaken, Used
<1>10. ASSUME NEW t \in Tab, NEW p \in {"loading", "signin"}, Open(t, p) PROVE TypeOK'
  BY <1>10 DEF Open
<1>11. ASSUME NEW t \in Tab, OidcLogin(t) PROVE TypeOK'
  BY <1>11 DEF OidcLogin
<1>12. ASSUME NEW t \in Tab, NEW u \in User, LoginCheck(t, u) PROVE TypeOK'
  BY <1>12 DEF LoginCheck
<1>13. ASSUME NEW t \in Tab, NEW u \in User, Register(t, u) PROVE TypeOK'
  BY <1>13 DEF Register
<1>14. ASSUME NEW t \in Tab, Refresh(t) PROVE TypeOK'
  BY <1>14 DEF Refresh
<1>15. ASSUME NEW t \in Tab, RefreshLands(t) PROVE TypeOK'
  BY <1>15 DEF RefreshLands, SeesUser
<1>16. ASSUME NEW t \in Tab, Unauthorized(t) PROVE TypeOK'
  BY <1>16 DEF Unauthorized
<1>17. ASSUME NEW t \in Tab, Logout(t) PROVE TypeOK'
  BY <1>17 DEF Logout, SignsOut, MarkSignedOut
<1>18. ASSUME NEW t \in Tab, LogoutServed(t) PROVE TypeOK'
  BY <1>18 DEF LogoutServed
<1>19. ASSUME NEW t \in Tab, LogoutFails(t) PROVE TypeOK'
  BY <1>19 DEF LogoutFails
<1>20. ASSUME NEW u \in User, NEW who \in Tab \cup {None}, Rewrite(u, who) PROVE TypeOK'
  BY <1>20 DEF Rewrite, Revocable
<1>21. ASSUME NEW u \in User, Revoke(u) PROVE TypeOK'
  BY <1>21 DEF Revoke, SessionsOf
<1>22. ASSUME NEW u \in User, CommitPassword(u) PROVE TypeOK'
  <2>1. gen' \in [User -> Nat]
    BY <1>22 DEF CommitPassword
  <2>2. row' \in [Token -> Session \cup {None}]
    BY <1>22 DEF CommitPassword
  <2>3. cookie' \in [Browser -> Token \cup {None}] /\ attempted' \subseteq Tab
       /\ signedOut' \subseteq Tab /\ left' \subseteq Tab
    BY <1>22 DEF CommitPassword, Awaited, SignsOut, MarkSignedOut
  <2>4. page' \in [Tab -> {"loading", "signin", "silent", "provider", "app", "leaving", "login", "error"}]
    BY <1>22 DEF CommitPassword, Awaited, SignsOut
  <2>5. QED
    BY <1>22, <2>1, <2>2, <2>3, <2>4 DEF CommitPassword, Ended
<1>23. ASSUME NEW u \in User, AbortPassword(u) PROVE TypeOK'
  BY <1>23 DEF AbortPassword, Ended
<1>24. ASSUME NEW u \in User, Deactivate(u) PROVE TypeOK'
  BY <1>24 DEF Deactivate, Revocable
<1>25. ASSUME NEW u \in User, CloseSessions(u) PROVE TypeOK'
  BY <1>25 DEF CloseSessions, SessionsOf
<1>26. ASSUME NEW u \in User, CloseSessionsFails(u) PROVE TypeOK'
  BY <1>26 DEF CloseSessionsFails, SessionsOf
<1>27. ASSUME NEW u \in User, Reactivate(u) PROVE TypeOK'
  BY <1>27 DEF Reactivate
<1>28. ASSUME NEW k \in Token, Expire(k) PROVE TypeOK'
  BY <1>28 DEF Expire
<1>29. ASSUME NEW b \in Browser, ProviderForgets(b) PROVE TypeOK'
  BY <1>29 DEF ProviderForgets
<1>30. CASE UNCHANGED vars
  BY <1>30 DEF vars
<1>31. QED
  BY <1>1, <1>2, <1>3, <1>4, <1>5, <1>6, <1>7, <1>8, <1>9, <1>10, <1>11, <1>12, <1>13, <1>14,
     <1>15, <1>16, <1>17, <1>18, <1>19, <1>20, <1>21, <1>22, <1>23, <1>24, <1>25, <1>26, <1>27, <1>28,
     <1>29, <1>30
     DEF Next, Load, OidcCallback, Issue, Visit, Account

(* The types hold of every behaviour.                                      *)
THEOREM TypeCorrect == Spec => []TypeOK
<1>1. Init => TypeOK
  BY SignInAssumption DEF Init, TypeOK, Session, Login
<1>2. QED
  BY <1>1, TypeStep, PTL DEF Spec

-----------------------------------------------------------------------------
(* Silent attempts.  A tab that has tried remembers it.                    *)
Remembered == \A t \in Tab : tries[t] <= 1 /\ (t \notin attempted => tries[t] = 0)

(* Every step keeps the memory.                                            *)
LEMMA RememberedStep == TypeOK /\ Remembered /\ [Next]_vars => Remembered'
<1> SUFFICES ASSUME TypeOK, Remembered, [Next]_vars PROVE Remembered'
  OBVIOUS
<1> USE DEF TypeOK, Remembered, tableVars, changeVars, browserVars, tabVars, flagVars
<1>1. ASSUME NEW t \in Tab, Answer(t) PROVE Remembered'
  BY <1>1 DEF Answer
<1>2. ASSUME NEW t \in Tab, Loaded(t) PROVE Remembered'
  BY <1>2 DEF Loaded, SeesUser
<1>3. ASSUME NEW t \in Tab, LoadedNobody(t) PROVE Remembered'
  BY <1>3 DEF LoadedNobody
<1>4. ASSUME NEW t \in Tab, BeginSilentSso(t) PROVE Remembered'
  BY <1>4 DEF BeginSilentSso, MayAttempt
<1>5. ASSUME NEW t \in Tab, CallbackRefused(t) PROVE Remembered'
  BY <1>5 DEF CallbackRefused, AtProvider
<1>6. ASSUME NEW t \in Tab, ProviderError(t) PROVE Remembered'
  BY <1>6 DEF ProviderError, AtProvider
<1>7. ASSUME NEW t \in Tab, NEW u \in User, Callback(t, u) PROVE Remembered'
  BY <1>7 DEF Callback, AtProvider
<1>8. ASSUME NEW t \in Tab, IssueFails(t) PROVE Remembered'
  BY <1>8 DEF IssueFails
<1>9. ASSUME NEW t \in Tab, NEW k \in Token, IssueSession(t, k) PROVE Remembered'
  BY <1>9 DEF IssueSession, SeesUser, Overtaken, Used
<1>10. ASSUME NEW t \in Tab, NEW p \in {"loading", "signin"}, Open(t, p) PROVE Remembered'
  BY <1>10 DEF Open
<1>11. ASSUME NEW t \in Tab, OidcLogin(t) PROVE Remembered'
  BY <1>11 DEF OidcLogin
<1>12. ASSUME NEW t \in Tab, NEW u \in User, LoginCheck(t, u) PROVE Remembered'
  BY <1>12 DEF LoginCheck
<1>13. ASSUME NEW t \in Tab, NEW u \in User, Register(t, u) PROVE Remembered'
  BY <1>13 DEF Register
<1>14. ASSUME NEW t \in Tab, Refresh(t) PROVE Remembered'
  BY <1>14 DEF Refresh
<1>15. ASSUME NEW t \in Tab, RefreshLands(t) PROVE Remembered'
  BY <1>15 DEF RefreshLands, SeesUser
<1>16. ASSUME NEW t \in Tab, Unauthorized(t) PROVE Remembered'
  BY <1>16 DEF Unauthorized
<1>17. ASSUME NEW t \in Tab, Logout(t) PROVE Remembered'
  BY <1>17 DEF Logout, SignsOut, MarkSignedOut
<1>18. ASSUME NEW t \in Tab, LogoutServed(t) PROVE Remembered'
  BY <1>18 DEF LogoutServed
<1>19. ASSUME NEW t \in Tab, LogoutFails(t) PROVE Remembered'
  BY <1>19 DEF LogoutFails
<1>20. ASSUME NEW u \in User, NEW who \in Tab \cup {None}, Rewrite(u, who) PROVE Remembered'
  BY <1>20 DEF Rewrite, Revocable
<1>21. ASSUME NEW u \in User, Revoke(u) PROVE Remembered'
  BY <1>21 DEF Revoke, SessionsOf
<1>22. ASSUME NEW u \in User, CommitPassword(u) PROVE Remembered'
  BY <1>22 DEF CommitPassword, Ended, Awaited, SignsOut, MarkSignedOut
<1>23. ASSUME NEW u \in User, AbortPassword(u) PROVE Remembered'
  BY <1>23 DEF AbortPassword, Ended
<1>24. ASSUME NEW u \in User, Deactivate(u) PROVE Remembered'
  BY <1>24 DEF Deactivate, Revocable
<1>25. ASSUME NEW u \in User, CloseSessions(u) PROVE Remembered'
  BY <1>25 DEF CloseSessions, SessionsOf
<1>26. ASSUME NEW u \in User, CloseSessionsFails(u) PROVE Remembered'
  BY <1>26 DEF CloseSessionsFails, SessionsOf
<1>27. ASSUME NEW u \in User, Reactivate(u) PROVE Remembered'
  BY <1>27 DEF Reactivate
<1>28. ASSUME NEW k \in Token, Expire(k) PROVE Remembered'
  BY <1>28 DEF Expire
<1>29. ASSUME NEW b \in Browser, ProviderForgets(b) PROVE Remembered'
  BY <1>29 DEF ProviderForgets
<1>30. CASE UNCHANGED vars
  BY <1>30 DEF vars
<1>31. QED
  BY <1>1, <1>2, <1>3, <1>4, <1>5, <1>6, <1>7, <1>8, <1>9, <1>10, <1>11, <1>12, <1>13, <1>14,
     <1>15, <1>16, <1>17, <1>18, <1>19, <1>20, <1>21, <1>22, <1>23, <1>24, <1>25, <1>26, <1>27, <1>28,
     <1>29, <1>30
     DEF Next, Load, OidcCallback, Issue, Visit, Account

(* OneSilentAttempt, for every number of tabs.                             *)
THEOREM AttemptsOnce == Spec => []OneSilentAttempt
<1>1. Init => Remembered
  BY DEF Init, Remembered
<1>2. Remembered => OneSilentAttempt
  BY DEF Remembered, OneSilentAttempt
<1>3. QED
  BY <1>1, <1>2, RememberedStep, TypeCorrect, PTL DEF Spec

-----------------------------------------------------------------------------
(* Sign-outs.  While credentials are being checked the tab waits on its    *)
(* page; a tab that has signed out bears the flag, waits for no answer     *)
(* about a user, and its browser has no session once the request is done.  *)
Waiting ==
    \A t \in Tab : login[t] # None =>
        page[t] \in {"login", "silent", "provider"} /\ me[t] = "idle"

Resting == \A t \in Tab : page[t] \in {"silent", "provider"} => me[t] = "idle"

Gone ==
    \A t \in left :
        /\ t \in signedOut
        /\ me[t] # "user"
        /\ \/ page[t] = "leaving" /\ me[t] = "idle"
           \/ cookie[Jar[t]] = None

SignedOutInv == Waiting /\ Resting /\ Gone

(* Every step keeps it.                                                    *)
LEMMA SignedOutStep == TypeOK /\ SignedOutInv /\ [Next]_vars => SignedOutInv'
<1> SUFFICES ASSUME TypeOK, Waiting, Resting, Gone, [Next]_vars PROVE SignedOutInv'
  BY DEF SignedOutInv
<1> USE SignInAssumption DEF TypeOK, SignedOutInv, tableVars, changeVars, browserVars, tabVars, flagVars
<1>1. ASSUME NEW t \in Tab, Answer(t) PROVE SignedOutInv'
  <2>1. Waiting'
    BY <1>1 DEF Answer, Waiting, Resting
  <2>2. Resting'
    BY <1>1 DEF Answer, Resting
  <2>3. Gone'
    BY <1>1 DEF Answer, Gone, Waiting, Authenticated, Valid
  <2>4. QED
    BY <2>1, <2>2, <2>3
<1>2. ASSUME NEW t \in Tab, Loaded(t) PROVE SignedOutInv'
  <2>1. Waiting'
    BY <1>2 DEF Loaded, SeesUser, Waiting, Resting
  <2>2. Resting'
    BY <1>2 DEF Loaded, SeesUser, Resting
  <2>3. Gone'
    BY <1>2 DEF Loaded, SeesUser, Gone, Waiting
  <2>4. QED
    BY <2>1, <2>2, <2>3
<1>3. ASSUME NEW t \in Tab, LoadedNobody(t) PROVE SignedOutInv'
  <2>1. Waiting'
    BY <1>3 DEF LoadedNobody, Waiting, Resting
  <2>2. Resting'
    BY <1>3 DEF LoadedNobody, Resting
  <2>3. Gone'
    BY <1>3 DEF LoadedNobody, Gone, Waiting
  <2>4. QED
    BY <2>1, <2>2, <2>3
<1>4. ASSUME NEW t \in Tab, BeginSilentSso(t) PROVE SignedOutInv'
  <2>1. Waiting'
    BY <1>4 DEF BeginSilentSso, MayAttempt, Waiting, Resting
  <2>2. Resting'
    BY <1>4 DEF BeginSilentSso, MayAttempt, Resting
  <2>3. Gone'
    BY <1>4 DEF BeginSilentSso, MayAttempt, Gone, Waiting
  <2>4. QED
    BY <2>1, <2>2, <2>3
<1>5. ASSUME NEW t \in Tab, CallbackRefused(t) PROVE SignedOutInv'
  <2>1. Waiting'
    BY <1>5 DEF CallbackRefused, AtProvider, Waiting, Resting
  <2>2. Resting'
    BY <1>5 DEF CallbackRefused, AtProvider, Resting
  <2>3. Gone'
    BY <1>5 DEF CallbackRefused, AtProvider, Gone, Waiting
  <2>4. QED
    BY <2>1, <2>2, <2>3
<1>6. ASSUME NEW t \in Tab, ProviderError(t) PROVE SignedOutInv'
  <2>1. Waiting'
    BY <1>6 DEF ProviderError, AtProvider, Waiting, Resting
  <2>2. Resting'
    BY <1>6 DEF ProviderError, AtProvider, Resting
  <2>3. Gone'
    BY <1>6 DEF ProviderError, AtProvider, Gone, Waiting
  <2>4. QED
    BY <2>1, <2>2, <2>3
<1>7. ASSUME NEW t \in Tab, NEW u \in User, Callback(t, u) PROVE SignedOutInv'
  <2>1. Waiting'
    BY <1>7 DEF Callback, AtProvider, Waiting, Resting
  <2>2. Resting'
    BY <1>7 DEF Callback, AtProvider, Resting
  <2>3. Gone'
    BY <1>7 DEF Callback, AtProvider, Gone, Waiting
  <2>4. QED
    BY <2>1, <2>2, <2>3
<1>8. ASSUME NEW t \in Tab, IssueFails(t) PROVE SignedOutInv'
  <2>1. Waiting'
    BY <1>8 DEF IssueFails, Waiting, Resting
  <2>2. Resting'
    BY <1>8 DEF IssueFails, Resting
  <2>3. Gone'
    BY <1>8 DEF IssueFails, Gone, Waiting
  <2>4. QED
    BY <2>1, <2>2, <2>3
<1>9. ASSUME NEW t \in Tab, NEW k \in Token, IssueSession(t, k) PROVE SignedOutInv'
  <2>1. Waiting'
    BY <1>9 DEF IssueSession, SeesUser, Overtaken, Used, Waiting, Resting
  <2>2. Resting'
    BY <1>9 DEF IssueSession, SeesUser, Overtaken, Used, Resting
  <2>3. Gone'
    BY <1>9 DEF IssueSession, SeesUser, Overtaken, Used, Gone, Waiting
  <2>4. QED
    BY <2>1, <2>2, <2>3
<1>10. ASSUME NEW t \in Tab, NEW p \in {"loading", "signin"}, Open(t, p) PROVE SignedOutInv'
  <2>1. Waiting'
    BY <1>10 DEF Open, Waiting, Resting
  <2>2. Resting'
    BY <1>10 DEF Open, Resting
  <2>3. Gone'
    BY <1>10 DEF Open, Gone, Waiting
  <2>4. QED
    BY <2>1, <2>2, <2>3
<1>11. ASSUME NEW t \in Tab, OidcLogin(t) PROVE SignedOutInv'
  <2>1. Waiting'
    BY <1>11 DEF OidcLogin, Waiting, Resting
  <2>2. Resting'
    BY <1>11 DEF OidcLogin, Resting
  <2>3. Gone'
    BY <1>11 DEF OidcLogin, Gone, Waiting
  <2>4. QED
    BY <2>1, <2>2, <2>3
<1>12. ASSUME NEW t \in Tab, NEW u \in User, LoginCheck(t, u) PROVE SignedOutInv'
  <2>1. Waiting'
    BY <1>12 DEF LoginCheck, Waiting, Resting
  <2>2. Resting'
    BY <1>12 DEF LoginCheck, Resting
  <2>3. Gone'
    BY <1>12 DEF LoginCheck, Gone, Waiting
  <2>4. QED
    BY <2>1, <2>2, <2>3
<1>13. ASSUME NEW t \in Tab, NEW u \in User, Register(t, u) PROVE SignedOutInv'
  <2>1. Waiting'
    BY <1>13 DEF Register, Waiting, Resting
  <2>2. Resting'
    BY <1>13 DEF Register, Resting
  <2>3. Gone'
    BY <1>13 DEF Register, Gone, Waiting
  <2>4. QED
    BY <2>1, <2>2, <2>3
<1>14. ASSUME NEW t \in Tab, Refresh(t) PROVE SignedOutInv'
  <2>1. Waiting'
    BY <1>14 DEF Refresh, Waiting, Resting
  <2>2. Resting'
    BY <1>14 DEF Refresh, Resting
  <2>3. Gone'
    BY <1>14 DEF Refresh, Gone, Waiting
  <2>4. QED
    BY <2>1, <2>2, <2>3
<1>15. ASSUME NEW t \in Tab, RefreshLands(t) PROVE SignedOutInv'
  <2>1. Waiting'
    BY <1>15 DEF RefreshLands, SeesUser, Waiting, Resting
  <2>2. Resting'
    BY <1>15 DEF RefreshLands, SeesUser, Resting
  <2>3. Gone'
    BY <1>15 DEF RefreshLands, SeesUser, Gone, Waiting
  <2>4. QED
    BY <2>1, <2>2, <2>3
<1>16. ASSUME NEW t \in Tab, Unauthorized(t) PROVE SignedOutInv'
  <2>1. Waiting'
    BY <1>16 DEF Unauthorized, Waiting, Resting
  <2>2. Resting'
    BY <1>16 DEF Unauthorized, Resting
  <2>3. Gone'
    BY <1>16 DEF Unauthorized, Gone, Waiting
  <2>4. QED
    BY <2>1, <2>2, <2>3
<1>17. ASSUME NEW t \in Tab, Logout(t) PROVE SignedOutInv'
  <2>1. Waiting'
    BY <1>17 DEF Logout, SignsOut, MarkSignedOut, Waiting, Resting
  <2>2. Resting'
    BY <1>17 DEF Logout, SignsOut, MarkSignedOut, Resting
  <2>3. Gone'
    BY <1>17 DEF Logout, SignsOut, MarkSignedOut, Gone, Waiting
  <2>4. QED
    BY <2>1, <2>2, <2>3
<1>18. ASSUME NEW t \in Tab, LogoutServed(t) PROVE SignedOutInv'
  <2>1. Waiting'
    BY <1>18 DEF LogoutServed, Waiting, Resting
  <2>2. Resting'
    BY <1>18 DEF LogoutServed, Resting
  <2>3. Gone'
    BY <1>18 DEF LogoutServed, Gone, Waiting
  <2>4. QED
    BY <2>1, <2>2, <2>3
<1>19. ASSUME NEW t \in Tab, LogoutFails(t) PROVE SignedOutInv'
  <2>1. Waiting'
    BY <1>19 DEF LogoutFails, Waiting, Resting
  <2>2. Resting'
    BY <1>19 DEF LogoutFails, Resting
  <2>3. Gone'
    BY <1>19 DEF LogoutFails, Gone, Waiting
  <2>4. QED
    BY <2>1, <2>2, <2>3
<1>20. ASSUME NEW u \in User, NEW who \in Tab \cup {None}, Rewrite(u, who) PROVE SignedOutInv'
  <2>1. Waiting'
    BY <1>20 DEF Rewrite, Revocable, Waiting, Resting
  <2>2. Resting'
    BY <1>20 DEF Rewrite, Revocable, Resting
  <2>3. Gone'
    BY <1>20 DEF Rewrite, Revocable, Gone, Waiting
  <2>4. QED
    BY <2>1, <2>2, <2>3
<1>21. ASSUME NEW u \in User, Revoke(u) PROVE SignedOutInv'
  <2>1. Waiting'
    BY <1>21 DEF Revoke, SessionsOf, Waiting, Resting
  <2>2. Resting'
    BY <1>21 DEF Revoke, SessionsOf, Resting
  <2>3. Gone'
    BY <1>21 DEF Revoke, SessionsOf, Gone, Waiting
  <2>4. QED
    BY <2>1, <2>2, <2>3
<1>22. ASSUME NEW u \in User, CommitPassword(u) PROVE SignedOutInv'
  <2>1. Waiting'
    BY <1>22 DEF CommitPassword, Ended, Awaited, SignsOut, MarkSignedOut, Waiting, Resting
  <2>2. Resting'
    BY <1>22 DEF CommitPassword, Ended, Awaited, SignsOut, MarkSignedOut, Resting
  <2>3. Gone'
    BY <1>22 DEF CommitPassword, Ended, Awaited, SignsOut, MarkSignedOut, Gone, Waiting
  <2>4. QED
    BY <2>1, <2>2, <2>3
<1>23. ASSUME NEW u \in User, AbortPassword(u) PROVE SignedOutInv'
  <2>1. Waiting'
    BY <1>23 DEF AbortPassword, Ended, Waiting, Resting
  <2>2. Resting'
    BY <1>23 DEF AbortPassword, Ended, Resting
  <2>3. Gone'
    BY <1>23 DEF AbortPassword, Ended, Gone, Waiting
  <2>4. QED
    BY <2>1, <2>2, <2>3
<1>24. ASSUME NEW u \in User, Deactivate(u) PROVE SignedOutInv'
  <2>1. Waiting'
    BY <1>24 DEF Deactivate, Revocable, Waiting, Resting
  <2>2. Resting'
    BY <1>24 DEF Deactivate, Revocable, Resting
  <2>3. Gone'
    BY <1>24 DEF Deactivate, Revocable, Gone, Waiting
  <2>4. QED
    BY <2>1, <2>2, <2>3
<1>25. ASSUME NEW u \in User, CloseSessions(u) PROVE SignedOutInv'
  <2>1. Waiting'
    BY <1>25 DEF CloseSessions, SessionsOf, Waiting, Resting
  <2>2. Resting'
    BY <1>25 DEF CloseSessions, SessionsOf, Resting
  <2>3. Gone'
    BY <1>25 DEF CloseSessions, SessionsOf, Gone, Waiting
  <2>4. QED
    BY <2>1, <2>2, <2>3
<1>26. ASSUME NEW u \in User, CloseSessionsFails(u) PROVE SignedOutInv'
  <2>1. Waiting'
    BY <1>26 DEF CloseSessionsFails, SessionsOf, Waiting, Resting
  <2>2. Resting'
    BY <1>26 DEF CloseSessionsFails, SessionsOf, Resting
  <2>3. Gone'
    BY <1>26 DEF CloseSessionsFails, SessionsOf, Gone, Waiting
  <2>4. QED
    BY <2>1, <2>2, <2>3
<1>27. ASSUME NEW u \in User, Reactivate(u) PROVE SignedOutInv'
  <2>1. Waiting'
    BY <1>27 DEF Reactivate, Waiting, Resting
  <2>2. Resting'
    BY <1>27 DEF Reactivate, Resting
  <2>3. Gone'
    BY <1>27 DEF Reactivate, Gone, Waiting
  <2>4. QED
    BY <2>1, <2>2, <2>3
<1>28. ASSUME NEW k \in Token, Expire(k) PROVE SignedOutInv'
  <2>1. Waiting'
    BY <1>28 DEF Expire, Waiting, Resting
  <2>2. Resting'
    BY <1>28 DEF Expire, Resting
  <2>3. Gone'
    BY <1>28 DEF Expire, Gone, Waiting
  <2>4. QED
    BY <2>1, <2>2, <2>3
<1>29. ASSUME NEW b \in Browser, ProviderForgets(b) PROVE SignedOutInv'
  <2>1. Waiting'
    BY <1>29 DEF ProviderForgets, Waiting, Resting
  <2>2. Resting'
    BY <1>29 DEF ProviderForgets, Resting
  <2>3. Gone'
    BY <1>29 DEF ProviderForgets, Gone, Waiting
  <2>4. QED
    BY <2>1, <2>2, <2>3
<1>30. CASE UNCHANGED vars
  BY <1>30 DEF vars, Waiting, Resting, Gone
<1>31. QED
  BY <1>1, <1>2, <1>3, <1>4, <1>5, <1>6, <1>7, <1>8, <1>9, <1>10, <1>11, <1>12, <1>13, <1>14,
     <1>15, <1>16, <1>17, <1>18, <1>19, <1>20, <1>21, <1>22, <1>23, <1>24, <1>25, <1>26, <1>27, <1>28,
     <1>29, <1>30
     DEF Next, Load, OidcCallback, Issue, Visit, Account

(* Initially nobody has signed in or out.                                  *)
LEMMA SignedOutInit == Init => SignedOutInv
BY DEF Init, SignedOutInv, Waiting, Resting, Gone

(* No step of a tab whose user has signed out is an attempt.               *)
LEMMA NoAttempt ==
    TypeOK /\ Gone /\ [Next]_vars => \A t \in left : tries'[t] <= tries[t]
<1> SUFFICES ASSUME TypeOK, Gone, [Next]_vars PROVE \A o \in left : tries'[o] <= tries[o]
  OBVIOUS
<1> USE DEF TypeOK, tableVars, changeVars, browserVars, tabVars, flagVars
<1>1. ASSUME NEW t \in Tab, Answer(t) PROVE \A o \in left : tries'[o] <= tries[o]
  BY <1>1 DEF Answer
<1>2. ASSUME NEW t \in Tab, Loaded(t) PROVE \A o \in left : tries'[o] <= tries[o]
  BY <1>2 DEF Loaded, SeesUser
<1>3. ASSUME NEW t \in Tab, LoadedNobody(t) PROVE \A o \in left : tries'[o] <= tries[o]
  BY <1>3 DEF LoadedNobody
<1>4. ASSUME NEW t \in Tab, BeginSilentSso(t) PROVE \A o \in left : tries'[o] <= tries[o]
  BY <1>4 DEF BeginSilentSso, MayAttempt, Gone
<1>5. ASSUME NEW t \in Tab, CallbackRefused(t) PROVE \A o \in left : tries'[o] <= tries[o]
  BY <1>5 DEF CallbackRefused, AtProvider
<1>6. ASSUME NEW t \in Tab, ProviderError(t) PROVE \A o \in left : tries'[o] <= tries[o]
  BY <1>6 DEF ProviderError, AtProvider
<1>7. ASSUME NEW t \in Tab, NEW u \in User, Callback(t, u) PROVE \A o \in left : tries'[o] <= tries[o]
  BY <1>7 DEF Callback, AtProvider
<1>8. ASSUME NEW t \in Tab, IssueFails(t) PROVE \A o \in left : tries'[o] <= tries[o]
  BY <1>8 DEF IssueFails
<1>9. ASSUME NEW t \in Tab, NEW k \in Token, IssueSession(t, k) PROVE \A o \in left : tries'[o] <= tries[o]
  BY <1>9 DEF IssueSession, SeesUser, Overtaken, Used
<1>10. ASSUME NEW t \in Tab, NEW p \in {"loading", "signin"}, Open(t, p) PROVE \A o \in left : tries'[o] <= tries[o]
  BY <1>10 DEF Open
<1>11. ASSUME NEW t \in Tab, OidcLogin(t) PROVE \A o \in left : tries'[o] <= tries[o]
  BY <1>11 DEF OidcLogin
<1>12. ASSUME NEW t \in Tab, NEW u \in User, LoginCheck(t, u) PROVE \A o \in left : tries'[o] <= tries[o]
  BY <1>12 DEF LoginCheck
<1>13. ASSUME NEW t \in Tab, NEW u \in User, Register(t, u) PROVE \A o \in left : tries'[o] <= tries[o]
  BY <1>13 DEF Register
<1>14. ASSUME NEW t \in Tab, Refresh(t) PROVE \A o \in left : tries'[o] <= tries[o]
  BY <1>14 DEF Refresh
<1>15. ASSUME NEW t \in Tab, RefreshLands(t) PROVE \A o \in left : tries'[o] <= tries[o]
  BY <1>15 DEF RefreshLands, SeesUser
<1>16. ASSUME NEW t \in Tab, Unauthorized(t) PROVE \A o \in left : tries'[o] <= tries[o]
  BY <1>16 DEF Unauthorized
<1>17. ASSUME NEW t \in Tab, Logout(t) PROVE \A o \in left : tries'[o] <= tries[o]
  BY <1>17 DEF Logout, SignsOut, MarkSignedOut
<1>18. ASSUME NEW t \in Tab, LogoutServed(t) PROVE \A o \in left : tries'[o] <= tries[o]
  BY <1>18 DEF LogoutServed
<1>19. ASSUME NEW t \in Tab, LogoutFails(t) PROVE \A o \in left : tries'[o] <= tries[o]
  BY <1>19 DEF LogoutFails
<1>20. ASSUME NEW u \in User, NEW who \in Tab \cup {None}, Rewrite(u, who) PROVE \A o \in left : tries'[o] <= tries[o]
  BY <1>20 DEF Rewrite, Revocable
<1>21. ASSUME NEW u \in User, Revoke(u) PROVE \A o \in left : tries'[o] <= tries[o]
  BY <1>21 DEF Revoke, SessionsOf
<1>22. ASSUME NEW u \in User, CommitPassword(u) PROVE \A o \in left : tries'[o] <= tries[o]
  BY <1>22 DEF CommitPassword, Ended, Awaited, SignsOut, MarkSignedOut
<1>23. ASSUME NEW u \in User, AbortPassword(u) PROVE \A o \in left : tries'[o] <= tries[o]
  BY <1>23 DEF AbortPassword, Ended
<1>24. ASSUME NEW u \in User, Deactivate(u) PROVE \A o \in left : tries'[o] <= tries[o]
  BY <1>24 DEF Deactivate, Revocable
<1>25. ASSUME NEW u \in User, CloseSessions(u) PROVE \A o \in left : tries'[o] <= tries[o]
  BY <1>25 DEF CloseSessions, SessionsOf
<1>26. ASSUME NEW u \in User, CloseSessionsFails(u) PROVE \A o \in left : tries'[o] <= tries[o]
  BY <1>26 DEF CloseSessionsFails, SessionsOf
<1>27. ASSUME NEW u \in User, Reactivate(u) PROVE \A o \in left : tries'[o] <= tries[o]
  BY <1>27 DEF Reactivate
<1>28. ASSUME NEW k \in Token, Expire(k) PROVE \A o \in left : tries'[o] <= tries[o]
  BY <1>28 DEF Expire
<1>29. ASSUME NEW b \in Browser, ProviderForgets(b) PROVE \A o \in left : tries'[o] <= tries[o]
  BY <1>29 DEF ProviderForgets
<1>30. CASE UNCHANGED vars
  BY <1>30 DEF vars
<1>31. QED
  BY <1>1, <1>2, <1>3, <1>4, <1>5, <1>6, <1>7, <1>8, <1>9, <1>10, <1>11, <1>12, <1>13, <1>14,
     <1>15, <1>16, <1>17, <1>18, <1>19, <1>20, <1>21, <1>22, <1>23, <1>24, <1>25, <1>26, <1>27, <1>28,
     <1>29, <1>30
     DEF Next, Load, OidcCallback, Issue, Visit, Account

(* SignOutSticks, for every number of tabs and browsers.                   *)
THEOREM SignOutsStick == Spec => SignOutSticks
<1>1. TypeOK /\ SignedOutInv /\ [Next]_vars => [\A t \in left : tries'[t] <= tries[t]]_vars
  BY NoAttempt DEF SignedOutInv
<1>2. QED
  BY <1>1, SignedOutInit, SignedOutStep, TypeCorrect, PTL DEF Spec, SignOutSticks

-----------------------------------------------------------------------------
(* Revocations.  A session is of the current generation, or its account is *)
(* about to lose it; the open transaction has deleted all but the spared.  *)
Current ==
    \A k \in Token \ spared : row[k] # None =>
        /\ row[k].gen = gen[row[k].owner] \/ row[k].owner \in closing
        /\ change[row[k].owner] = "revoked" => k \in doomed[row[k].owner]

(* Every step keeps the generations.                                       *)
LEMMA CurrentStep == TypeOK /\ Current /\ [Next]_vars => Current'
<1> SUFFICES ASSUME TypeOK, Current, [Next]_vars PROVE Current'
  OBVIOUS
<1> USE SignInAssumption DEF TypeOK, Session, tableVars, changeVars, browserVars, tabVars, flagVars
<1>1. ASSUME NEW t \in Tab, Answer(t) PROVE Current'
  BY <1>1 DEF Current, Answer
<1>2. ASSUME NEW t \in Tab, Loaded(t) PROVE Current'
  BY <1>2 DEF Current, Loaded, SeesUser
<1>3. ASSUME NEW t \in Tab, LoadedNobody(t) PROVE Current'
  BY <1>3 DEF Current, LoadedNobody
<1>4. ASSUME NEW t \in Tab, BeginSilentSso(t) PROVE Current'
  BY <1>4 DEF Current, BeginSilentSso, MayAttempt
<1>5. ASSUME NEW t \in Tab, CallbackRefused(t) PROVE Current'
  BY <1>5 DEF Current, CallbackRefused, AtProvider
<1>6. ASSUME NEW t \in Tab, ProviderError(t) PROVE Current'
  BY <1>6 DEF Current, ProviderError, AtProvider
<1>7. ASSUME NEW t \in Tab, NEW u \in User, Callback(t, u) PROVE Current'
  BY <1>7 DEF Current, Callback, AtProvider
<1>8. ASSUME NEW t \in Tab, IssueFails(t) PROVE Current'
  BY <1>8 DEF Current, IssueFails
<1>9. ASSUME NEW t \in Tab, NEW k \in Token, IssueSession(t, k) PROVE Current'
  <2> SUFFICES ASSUME NEW j \in Token, j \notin spared', row'[j] # None
              PROVE  /\ row'[j].gen = gen[row'[j].owner] \/ row'[j].owner \in closing
                     /\ change[row'[j].owner] = "revoked" => j \in doomed[row'[j].owner]
    BY <1>9 DEF Current, IssueSession
  <2>1. CASE j = k
    BY <1>9, <2>1 DEF IssueSession, Overtaken, Login
  <2>2. CASE j # k
    BY <1>9, <2>2 DEF Current, IssueSession
  <2>3. QED
    BY <2>1, <2>2
<1>10. ASSUME NEW t \in Tab, NEW p \in {"loading", "signin"}, Open(t, p) PROVE Current'
  BY <1>10 DEF Current, Open
<1>11. ASSUME NEW t \in Tab, OidcLogin(t) PROVE Current'
  BY <1>11 DEF Current, OidcLogin
<1>12. ASSUME NEW t \in Tab, NEW u \in User, LoginCheck(t, u) PROVE Current'
  BY <1>12 DEF Current, LoginCheck
<1>13. ASSUME NEW t \in Tab, NEW u \in User, Register(t, u) PROVE Current'
  BY <1>13 DEF Current, Register
<1>14. ASSUME NEW t \in Tab, Refresh(t) PROVE Current'
  BY <1>14 DEF Current, Refresh
<1>15. ASSUME NEW t \in Tab, RefreshLands(t) PROVE Current'
  BY <1>15 DEF Current, RefreshLands, SeesUser
<1>16. ASSUME NEW t \in Tab, Unauthorized(t) PROVE Current'
  BY <1>16 DEF Current, Unauthorized
<1>17. ASSUME NEW t \in Tab, Logout(t) PROVE Current'
  BY <1>17 DEF Current, Logout, SignsOut, MarkSignedOut
<1>18. ASSUME NEW t \in Tab, LogoutServed(t) PROVE Current'
  BY <1>18 DEF Current, LogoutServed
<1>19. ASSUME NEW t \in Tab, LogoutFails(t) PROVE Current'
  BY <1>19 DEF Current, LogoutFails
<1>20. ASSUME NEW u \in User, NEW who \in Tab \cup {None}, Rewrite(u, who) PROVE Current'
  BY <1>20 DEF Current, Rewrite, Revocable
<1>21. ASSUME NEW u \in User, Revoke(u) PROVE Current'
  BY <1>21 DEF Current, Revoke, SessionsOf
<1>22. ASSUME NEW u \in User, CommitPassword(u) PROVE Current'
  <2> SUFFICES ASSUME NEW j \in Token, j \notin spared', row'[j] # None
              PROVE  /\ row'[j].gen = gen'[row'[j].owner] \/ row'[j].owner \in closing'
                     /\ change'[row'[j].owner] = "revoked" => j \in doomed'[row'[j].owner]
    BY DEF Current
  <2>1. j \notin doomed[u] /\ row'[j] = row[j] /\ row[j] \in Session /\ j \notin spared
    BY <1>22 DEF CommitPassword
  <2>2. row[j].owner # u
    BY <1>22, <2>1 DEF Current, CommitPassword
  <2>3. QED
    BY <1>22, <2>1, <2>2 DEF Current, CommitPassword, Ended
<1>23. ASSUME NEW u \in User, AbortPassword(u) PROVE Current'
  BY <1>23 DEF Current, AbortPassword, Ended
<1>24. ASSUME NEW u \in User, Deactivate(u) PROVE Current'
  BY <1>24 DEF Current, Deactivate, Revocable
<1>25. ASSUME NEW u \in User, CloseSessions(u) PROVE Current'
  BY <1>25 DEF Current, CloseSessions, SessionsOf
<1>26. ASSUME NEW u \in User, CloseSessionsFails(u) PROVE Current'
  BY <1>26 DEF Current, CloseSessionsFails, SessionsOf
<1>27. ASSUME NEW u \in User, Reactivate(u) PROVE Current'
  BY <1>27 DEF Current, Reactivate
<1>28. ASSUME NEW k \in Token, Expire(k) PROVE Current'
  BY <1>28 DEF Current, Expire
<1>29. ASSUME NEW b \in Browser, ProviderForgets(b) PROVE Current'
  BY <1>29 DEF Current, ProviderForgets
<1>30. CASE UNCHANGED vars
  BY <1>30 DEF vars, Current
<1>31. QED
  BY <1>1, <1>2, <1>3, <1>4, <1>5, <1>6, <1>7, <1>8, <1>9, <1>10, <1>11, <1>12, <1>13, <1>14,
     <1>15, <1>16, <1>17, <1>18, <1>19, <1>20, <1>21, <1>22, <1>23, <1>24, <1>25, <1>26, <1>27, <1>28,
     <1>29, <1>30
     DEF Next, Load, OidcCallback, Issue, Visit, Account

(* RevocationEndsSessions, for every number of accounts and sessions.      *)
THEOREM RevocationsEndSessions == Spec => []RevocationEndsSessions
<1>1. Init => Current
  BY DEF Init, Current
<1>2. Current => RevocationEndsSessions
  BY DEF Current, RevocationEndsSessions, Valid
<1>3. QED
  BY <1>1, <1>2, CurrentStep, TypeCorrect, PTL DEF Spec
=============================================================================
