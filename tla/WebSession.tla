----------------------------- MODULE WebSession -----------------------------
(***************************************************************************)
(* The sign-in session of one browser tab: the stored token, the cached    *)
(* answers of /auth/me and of the conversation list (their query keys do   *)
(* not name the account), the route, and the requests in flight, each with *)
(* the token it was sent with.  The server is a set of valid tokens; other *)
(* tabs share only the storage.  Whether staleTime has passed is a choice, *)
(* made where the query library asks.                                      *)
(***************************************************************************)
EXTENDS Integers, FiniteSets

CONSTANTS
    Tokens,        \* access tokens the server may issue
    Users,
    Owner,         \* the account a token signs in
    OtherTokens,   \* what other tabs of the browser may store: tokens, or NoToken
    MaxRequests,   \* bound on the requests in flight
    NoToken, NoUser, NoFetch

SessionAssumption ==
    /\ Owner \in [Tokens -> Users]
    /\ OtherTokens \subseteq Tokens \cup {NoToken}
    /\ MaxRequests \in Nat
    /\ NoToken \notin Tokens /\ NoFetch \notin Tokens \cup {NoToken} /\ NoUser \notin Users

VARIABLES
    stored,     \* the token in localStorage
    token,      \* authToken, the tab's copy of it
    me,         \* currentUserQuery: data, isPending, token of its fetch
    list,       \* the conversations query: whose conversations, token of its fetch
    timedOut,   \* authVerificationTimedOut
    route,
    requests,   \* in flight: [kind, token, user]
    issued, valid,  \* the server's tokens
    strayed     \* a session was entered over another, by another tab, or left while saving

vars == <<stored, token, me, list, timedOut, route, requests, issued, valid, strayed>>
server == <<issued, valid>>
session == <<stored, token, strayed>>

PublicRoutes == {"login", "register", "approval-pending"}
ProtectedRoutes == {"conversation", "account-settings", "admin"}
Routes == PublicRoutes \cup ProtectedRoutes

\* "read": any authenticated call; "save": the PATCH of a profile form filled from
\* the account user; "login" and "register": calls that carry no token.
Request == [kind : {"read", "save", "login", "register"},
            token : Tokens \cup {NoToken}, user : Users \cup {NoUser}]
Read(t) == [kind |-> "read", token |-> t, user |-> NoUser]

NoQuery == [user |-> NoUser, pending |-> TRUE, fetch |-> NoFetch]

TypeOK ==
    /\ stored \in Tokens \cup {NoToken} /\ token \in Tokens \cup {NoToken}
    /\ me \in [user : Users \cup {NoUser}, pending : BOOLEAN,
               fetch : Tokens \cup {NoToken, NoFetch}]
    /\ list \in [owner : Users \cup {NoUser}, fetch : Tokens \cup {NoToken, NoFetch}]
    /\ timedOut \in BOOLEAN /\ route \in Routes
    /\ requests \subseteq Request
    /\ valid \subseteq issued /\ issued \subseteq Tokens
    /\ strayed \in BOOLEAN

\* What the tab shows: content, the login page or the verification fallback.
AuthState ==
    CASE token = NoToken                             -> "unauthenticated"
      [] token # NoToken /\ me.pending /\ ~timedOut  -> "checking"
      [] OTHER                                       -> "authenticated"
Content == IF route \in PublicRoutes \/ AuthState = "authenticated" THEN route
           ELSE IF AuthState = "checking" THEN "verifying" ELSE "login"
Protected == Content \in ProtectedRoutes

\* AppContent mounts: the token of an earlier visit, if any, is verified at once.
Init ==
    /\ stored \in {NoToken} \cup Tokens
    /\ issued = {stored} \cap Tokens /\ valid \in SUBSET issued
    /\ token = stored
    /\ me = [NoQuery EXCEPT !.fetch = IF stored = NoToken THEN NoFetch ELSE stored]
    /\ list = [owner |-> NoUser, fetch |-> NoFetch]
    /\ timedOut = FALSE /\ requests = {} /\ strayed = FALSE
    /\ route \in Routes

Room == Cardinality(requests) < MaxRequests

\* A query that is removed abandons its fetch, and the request goes on.
Abandoned == IF me.fetch = NoFetch THEN {} ELSE {Read(me.fetch)}

\* enabled turns true: the query fetches unless its data is fresh.
Enabled(t) ==
    IF token # NoToken THEN {me}
    ELSE {[me EXCEPT !.fetch = t, !.pending = me.user = NoUser]}
         \cup {m \in {me} : m.user # NoUser}

\* The conversation page mounts after this step: its list is fetched, with the token
\* then stored, unless it is being fetched or there is data and it is fresh.
Mounts(l) ==
    LET mounting == Content # "conversation" /\ Content' = "conversation"
        fetched  == [l EXCEPT !.fetch = stored']
    IN list' \in IF ~mounting \/ l.fetch # NoFetch THEN {l}
                 ELSE {fetched} \cup {k \in {l} : k.owner # NoUser}

-----------------------------------------------------------------------------
\* Navigation: links of the page, browser history, an address typed in.
Navigate(r) ==
    /\ route' = r
    /\ UNCHANGED <<session, me, timedOut, requests, server>>
    /\ Mounts(list)

\* Faulty: the cached account is kept.
SignOutKeepsMe(inFlight) ==
    /\ stored' = NoToken /\ token' = NoToken
    /\ me' = [me EXCEPT !.fetch = NoFetch] /\ timedOut' = FALSE
    /\ requests' = inFlight
    /\ route' = "login"
    /\ strayed' = (strayed \/ \E q \in inFlight : q.kind = "save")

\* clearAuthToken; notifyAuthChanged, which removes "me" and nothing else;
\* navigateToLogin.  inFlight: the requests still to be answered.
SignOut(inFlight) ==
    /\ stored' = NoToken /\ token' = NoToken
    /\ me' = NoQuery /\ timedOut' = FALSE
    /\ requests' = inFlight
    /\ route' = "login"
    /\ strayed' = (strayed \/ \E q \in inFlight : q.kind = "save")

Logout ==
    /\ Protected
    /\ SignOut(requests \cup Abandoned)
    /\ UNCHANGED <<list, server>>

SubmitLogin(u) ==
    /\ Content = "login" /\ Room
    /\ requests' = requests \cup {[kind |-> "login", token |-> NoToken, user |-> u]}
    /\ UNCHANGED <<session, me, list, timedOut, route, server>>

\* 200: the token is stored and announced, whatever the tab shows by now.
LoginSucceeds(q, t) ==
    /\ q.kind = "login" /\ t \notin issued /\ Owner[t] = q.user
    /\ issued' = issued \cup {t} /\ valid' = valid \cup {t}
    /\ stored' = t /\ token' = t
    /\ me' \in Enabled(t)
    /\ timedOut' = (timedOut /\ me'.pending)
    /\ requests' = requests \ {q}
    /\ route' = "conversation"
    /\ strayed' = (strayed \/ stored # NoToken \/ token # NoToken)
    /\ Mounts(list)

\* 403 with a pending account goes to its page; any other refusal is only a message.
LoginRefused(q) ==
    /\ q.kind = "login"
    /\ requests' = requests \ {q}
    /\ route' \in {route, "approval-pending"}
    /\ UNCHANGED <<session, me, list, timedOut, server>>

SubmitRegister ==
    /\ Content = "register" /\ Room
    /\ requests' = requests \cup {[kind |-> "register", token |-> NoToken, user |-> NoUser]}
    /\ UNCHANGED <<session, me, list, timedOut, route, server>>

\* Accepted, the page moves to /login; 409 or a network error is only a message.
RegisterAnswers(q) ==
    /\ q.kind = "register"
    /\ requests' = requests \ {q}
    /\ route' \in {route, "login"}
    /\ UNCHANGED <<session, me, list, timedOut, server>>

-----------------------------------------------------------------------------
\* adminFetch reads the token from the storage when it is called.
AdminFetch ==
    /\ Protected /\ Room
    /\ requests' = requests \cup {Read(stored)}
    /\ UNCHANGED <<session, me, list, timedOut, route, server>>

\* CopilotKit keeps the header of the provider's last render.
AskCopilot ==
    /\ Protected /\ Room
    /\ requests' = requests \cup {Read(token)}
    /\ UNCHANGED <<session, me, list, timedOut, route, server>>

\* Any other answer, a failed save among them, is data or an error message of a page.
Answer(q) ==
    /\ q.kind = "save" \/ (q.kind = "read" /\ q.token \in valid)
    /\ requests' = requests \ {q}
    /\ UNCHANGED <<session, me, list, timedOut, route, server>>

\* 401: authFetch, adminFetch and CopilotKit's onError sign the tab out, whichever
\* token the request was sent with.
Unauthorized(q) ==
    /\ q.kind \in {"read", "save"} /\ q.token \notin valid
    /\ SignOut((requests \ {q}) \cup Abandoned)
    /\ UNCHANGED <<list, server>>

\* saveProfile: the form holds the account shown, the PATCH goes to the stored token.
SaveProfile ==
    /\ Content = "account-settings" /\ Room
    /\ requests' = requests \cup {[kind |-> "save", token |-> stored, user |-> me.user]}
    /\ UNCHANGED <<session, me, list, timedOut, route, server>>

\* The answer is put in the cache under "me", even after a sign-out.
ProfileSaved(q) ==
    /\ q.kind = "save" /\ q.token \in valid
    /\ requests' = requests \ {q}
    /\ me' = [me EXCEPT !.user = Owner[q.token], !.pending = FALSE]
    /\ timedOut' = FALSE
    /\ UNCHANGED <<session, route, server>>
    /\ Mounts(list)

-----------------------------------------------------------------------------
MeSucceeds ==
    /\ me.fetch \in valid
    /\ me' = [user |-> Owner[me.fetch], pending |-> FALSE, fetch |-> NoFetch]
    /\ timedOut' = FALSE
    /\ UNCHANGED <<session, route, requests, server>>
    /\ Mounts(list)

\* A 5xx, a lost connection, or the abort after authRequestTimeoutMs; data is kept.
MeFails ==
    /\ me.fetch # NoFetch
    /\ me' = [me EXCEPT !.pending = FALSE, !.fetch = NoFetch]
    /\ timedOut' = FALSE
    /\ UNCHANGED <<session, route, requests, server>>
    /\ Mounts(list)

MeRefused ==
    /\ me.fetch # NoFetch /\ me.fetch \notin valid
    /\ SignOut(requests)
    /\ UNCHANGED <<list, server>>

\* The page's own timer, armed while a token is being verified.
VerificationTimesOut ==
    /\ AuthState = "checking"
    /\ timedOut' = TRUE
    /\ UNCHANGED <<session, me, route, requests, server>>
    /\ Mounts(list)

\* The browser is online again: a stale query is fetched, with the stored token.
Reconnect ==
    /\ token # NoToken /\ me.fetch = NoFetch
    /\ me' = [me EXCEPT !.fetch = stored, !.pending = me.user = NoUser]
    /\ UNCHANGED <<session, list, timedOut, route, requests, server>>

-----------------------------------------------------------------------------
ListArrives ==
    /\ list.fetch \in valid
    /\ list' = [owner |-> Owner[list.fetch], fetch |-> NoFetch]
    /\ UNCHANGED <<session, me, timedOut, route, requests, server>>

ListFails ==
    /\ list.fetch # NoFetch
    /\ list' = [list EXCEPT !.fetch = NoFetch]
    /\ UNCHANGED <<session, me, timedOut, route, requests, server>>

ListRefused ==
    /\ list.fetch # NoFetch /\ list.fetch \notin valid
    /\ SignOut(requests \cup Abandoned)
    /\ list' = [list EXCEPT !.fetch = NoFetch]
    /\ UNCHANGED server

\* gcTime after the page is left, the list is dropped.
ListCollected ==
    /\ Content # "conversation" /\ list.fetch = NoFetch /\ list.owner # NoUser
    /\ list' = [list EXCEPT !.owner = NoUser]
    /\ UNCHANGED <<session, me, timedOut, route, requests, server>>

\* The server ends a session: it expires or its account is disabled.
Expire(t) ==
    /\ t \in valid
    /\ valid' = valid \ {t}
    /\ UNCHANGED <<session, me, list, timedOut, route, requests, issued>>

\* Another tab signs in or out: the storage changes and no event reaches this tab.
OtherTab(t) ==
    /\ t # stored /\ t \notin issued
    /\ stored' = t
    /\ issued' = issued \cup ({t} \cap Tokens) /\ valid' = valid \cup ({t} \cap Tokens)
    /\ strayed' = TRUE
    /\ UNCHANGED <<token, me, list, timedOut, route, requests>>

Next ==
    \/ \E r \in Routes \ {route} : Navigate(r)
    \/ Logout \/ SubmitRegister \/ AdminFetch \/ AskCopilot \/ SaveProfile
    \/ \E u \in Users : SubmitLogin(u)
    \/ \E q \in requests :
          \/ \E t \in Tokens : LoginSucceeds(q, t)
          \/ LoginRefused(q) \/ RegisterAnswers(q)
          \/ Unauthorized(q) \/ Answer(q) \/ ProfileSaved(q)
    \/ MeSucceeds \/ MeFails \/ MeRefused \/ VerificationTimesOut \/ Reconnect
    \/ ListArrives \/ ListFails \/ ListRefused \/ ListCollected
    \/ \E t \in Tokens : Expire(t)
    \/ \E t \in OtherTokens : OtherTab(t)

Spec == Init /\ [][Next]_vars

-----------------------------------------------------------------------------
\* The account in the avatar menu and in the profile form.
Shown == IF Protected THEN me.user ELSE NoUser

\* conversation-shell.test.tsx: the menu "shows the authenticated account".  The
\* account shown on a protected page is the one whose token is stored, and a profile
\* filled from an account is sent with a token of that account.
AccountsAgree ==
    /\ Shown # NoUser => stored # NoToken /\ Shown = Owner[stored]
    /\ \A q \in requests : q.kind = "save" /\ q.user # NoUser =>
          q.token # NoToken /\ q.user = Owner[q.token]

\* The cached account outlives its session in three ways only: a sign-in over a
\* session, another tab's sign-in, a sign-out while a profile is being saved.  Expiry,
\* late answers, timeouts, refetches and the history never mix two accounts.
AccountsAgreeUnlessStrayed == ~strayed => AccountsAgree

\* AccountsAgreeUnlessStrayed, made inductive: unless the session strayed, the tab's token
\* is the stored one, and the cached account, the fetch of it and every profile being saved
\* are of that token.
OneSession ==
    /\ stored = token
    /\ me.fetch \in {NoFetch, token}
    /\ token = NoToken => me = NoQuery
    /\ me.user # NoUser => me.user = Owner[token]
    /\ \A q \in requests : q.kind = "save" =>
          token # NoToken /\ q.token = token /\ q.user \in {NoUser, Owner[token]}
IInv == TypeOK /\ (~strayed => OneSession)

\* docs/adr/0001: "Users own their own Agent Conversations".  A workspace shows the
\* conversations of the account signed in, where sessions do not overlap.
ConversationsShownAreOwn ==
    ~strayed /\ Content = "conversation" /\ list.owner # NoUser =>
        stored # NoToken /\ list.owner = Owner[stored]
=============================================================================
