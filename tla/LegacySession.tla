--------------------------- MODULE LegacySession ----------------------------
(***************************************************************************)
(* The session of one tab of the first-generation frontend: the token it    *)
(* holds and the one in the browser's storage, the cached answer of           *)
(* /auth/me, which lets a page open or ends the session, and the cached lists, *)
(* which are not kept by token.                                               *)
(*                                                                         *)
(* A token is a number; other tabs only touch the storage.  "other" is a page  *)
(* without a list: the release console or a job.                              *)
(***************************************************************************)
EXTENDS ClientBase

CONSTANTS
    People,         \* user names
    Admins,         \* those with the admin role
    LastToken,      \* bound on the logins answered
    LoginsInFlight  \* bound on the logins in flight

ASSUME LegacySessionConstants ==
    Admins \subseteq People /\ LastToken \in Nat \ {0} /\ LoginsInFlight \in Nat \ {0}

VARIABLES
    token,        \* the store's token; 0 when signed out
    storedToken,  \* the browser's storage
    userOf,       \* server: the user of each token so far
    expired,      \* server: the tokens that have expired
    me,           \* the cached answer of /auth/me for each token
    meReads,      \* the tokens whose /auth/me is being read
    rowsFor,      \* whose rows each list's cache holds
    rowReads,     \* the token each list is being read with; 0 for none
    location,     \* the page in the address
    logins,       \* logins in flight
    creating,     \* a request is under way whose success opens the job it created
    leftovers     \* ghost: a session ended without a sign-out while lists were cached

sessionVars == <<token, storedToken, userOf, expired, me, meReads, rowsFor, rowReads, location, logins,
                 creating, leftovers>>

CachedLists == {"jobs", "admin"}
Locations == CachedLists \union {"other", "login"}
AllTokens == 1..LastToken

LegacySessionTypeOK ==
    /\ token \in 0..LastToken /\ storedToken \in 0..LastToken
    /\ userOf \in Seq(People) /\ Len(userOf) <= LastToken /\ expired \subseteq AllTokens
    /\ me \in [AllTokens -> [as : Maybe(People), failed : BOOLEAN]] /\ meReads \subseteq AllTokens
    /\ rowsFor \in [CachedLists -> Maybe(People)] /\ rowReads \in [CachedLists -> 0..LastToken]
    /\ location \in Locations /\ logins \subseteq [user : People, live : BOOLEAN]
    /\ creating \in BOOLEAN /\ leftovers \in BOOLEAN

NoQueries ==
    /\ me' = [t \in AllTokens |-> [as |-> Nothing, failed |-> FALSE]] /\ meReads' = {}
    /\ rowsFor' = [l \in CachedLists |-> Nothing] /\ rowReads' = [l \in CachedLists |-> 0]

LegacySessionInit ==
    /\ token = 0 /\ storedToken = 0 /\ userOf = <<>> /\ expired = {}
    /\ me = [t \in AllTokens |-> [as |-> Nothing, failed |-> FALSE]] /\ meReads = {}
    /\ rowsFor = [l \in CachedLists |-> Nothing] /\ rowReads = [l \in CachedLists |-> 0]
    /\ location = "login" /\ logins = {} /\ creating = FALSE /\ leftovers = FALSE

server == <<userOf, expired>>
queries == <<me, meReads, rowsFor, rowReads>>

\* RequireAuth has let the tab in: its page and the shell are on screen.
Inside == location # "login" /\ token # 0 /\ me[token].as # Nothing

\* RequireAdmin, and the items of the menu.
isAdminHere == me[token].as \in Admins

PageShown(l) == Inside /\ location = l /\ (l = "admin" => isAdminHere)

-----------------------------------------------------------------------------
(* The store's setToken and clearToken write the storage too, whatever another *)
(* tab has put there.                                                           *)

clearToken == token' = 0 /\ storedToken' = 0

\* A session that ends without signing out leaves its lists behind.
StillCached == leftovers \/ \E l \in CachedLists : rowsFor[l] # Nothing \/ rowReads[l] # 0

\* The shell of the tab: on page p with token t, whose cached answer is a failure
\* or not.  A page without a token, or whose /auth/me failed, goes to the login.
Shows(p, t, failed) ==
    IF p # "login" /\ (t = 0 \/ failed)
    THEN clearToken /\ location' = "login" /\ leftovers' = StillCached
    ELSE token' = t /\ location' = p /\ UNCHANGED <<storedToken, leftovers>>

\* The abandoned form of a login goes on without a page.
FormsLeft(p) ==
    logins' = IF p = "login" THEN logins ELSE {[n EXCEPT !.live = FALSE] : n \in logins}

\* A link of the menu, or the history of the browser, where the login page may be.
OpenSessionPage(p) ==
    /\ p # location
    /\ Shows(p, token, token # 0 /\ me[token].failed)
    /\ FormsLeft(p)
    /\ UNCHANGED <<server, queries, creating>>

-----------------------------------------------------------------------------
(* Logging in and out. *)

\* submit; the page works for a tab that has a token too.
SubmitLogin(u) ==
    /\ location = "login" /\ ~\E n \in logins : n.live
    /\ Cardinality(logins) < LoginsInFlight
    /\ logins' = logins \union {[user |-> u, live |-> TRUE]}
    /\ UNCHANGED <<token, storedToken, server, queries, location, creating, leftovers>>

Issued(u) == Len(userOf) < LastToken /\ userOf' = Append(userOf, u) /\ UNCHANGED expired

\* The answer signs the tab in, wherever it is by then and whoever it belongs to.
LegacyLoginAnswered(n) ==
    /\ Issued(n.user)
    /\ token' = Len(userOf') /\ storedToken' = Len(userOf')
    /\ location' = "other"
    /\ logins' = {[m EXCEPT !.live = FALSE] : m \in logins \ {n}}
    /\ leftovers' = IF token = 0 THEN leftovers ELSE StillCached
    /\ UNCHANGED <<queries, creating>>

LoginRefused(n) ==
    /\ logins' = logins \ {n}
    /\ UNCHANGED <<token, storedToken, server, queries, location, creating, leftovers>>

\* Mutant: the lists of the session stay in the cache.
LogoutKeepsQueries ==
    /\ Inside
    /\ clearToken /\ location' = "login" /\ leftovers' = FALSE
    /\ UNCHANGED <<server, queries, logins, creating>>

\* signOut.
Logout ==
    /\ Inside
    /\ clearToken /\ NoQueries /\ location' = "login" /\ leftovers' = FALSE
    /\ UNCHANGED <<server, logins, creating>>

\* The document is loaded again; its token is the one in the storage.
ReloadTab ==
    /\ token' = storedToken /\ NoQueries
    /\ location' = IF storedToken = 0 THEN "login" ELSE location
    /\ logins' = {} /\ creating' = FALSE /\ leftovers' = FALSE
    /\ UNCHANGED <<storedToken, server>>

\* Another tab signs in or out.
OtherTab ==
    /\ \/ \E u \in People : Issued(u) /\ storedToken' = Len(userOf')
       \/ storedToken # 0 /\ storedToken' = 0 /\ UNCHANGED server
    /\ UNCHANGED <<token, queries, location, logins, creating, leftovers>>

TokenExpires(t) ==
    /\ t <= Len(userOf) /\ t \notin expired /\ expired' = expired \union {t}
    /\ UNCHANGED <<token, storedToken, userOf, queries, location, logins, creating, leftovers>>

-----------------------------------------------------------------------------
(* Reading.  Queries are stale at once: they are read when a component that   *)
(* uses them mounts, and again when the network comes back.                    *)

ReadMe ==
    /\ location # "login" /\ token # 0 /\ token \notin meReads
    /\ meReads' = meReads \union {token}
    /\ UNCHANGED <<token, storedToken, server, me, rowsFor, rowReads, location, logins, creating, leftovers>>

MeArrives(t) ==
    /\ t \in meReads /\ t \notin expired
    /\ meReads' = meReads \ {t} /\ me' = [me EXCEPT ![t] = [as |-> userOf[t], failed |-> FALSE]]
    /\ UNCHANGED <<token, storedToken, server, rowsFor, rowReads, location, logins, creating, leftovers>>

\* Both tries fail, for whatever reason: the session of the page on screen ends,
\* the lists stay cached.  A failure of a read that had no answer yet is forgotten
\* by the next page that needs it.
MeFails(t) ==
    /\ t \in meReads
    /\ meReads' = meReads \ {t} /\ me' = [me EXCEPT ![t].failed = me[t].as # Nothing]
    /\ IF t = token THEN Shows(location, token, TRUE) ELSE UNCHANGED <<token, storedToken, location, leftovers>>
    /\ UNCHANGED <<server, rowsFor, rowReads, logins, creating>>

\* A list whose read is under way, with whatever token, is not read twice.
ReadRows(l) ==
    /\ PageShown(l) /\ rowReads[l] = 0
    /\ rowReads' = [rowReads EXCEPT ![l] = token]
    /\ UNCHANGED <<token, storedToken, server, me, meReads, rowsFor, location, logins, creating, leftovers>>

RowsRead(l) ==
    /\ rowReads[l] \notin expired \union {0}
    /\ rowsFor' = [rowsFor EXCEPT ![l] = userOf[rowReads[l]]]
    /\ rowReads' = [rowReads EXCEPT ![l] = 0]
    /\ UNCHANGED <<token, storedToken, server, me, meReads, location, logins, creating, leftovers>>

\* Only /auth/me ends a session: a refused list is an error on its page.
RowsRefused(l) ==
    /\ rowReads[l] # 0 /\ rowReads' = [rowReads EXCEPT ![l] = 0]
    /\ UNCHANGED <<token, storedToken, server, me, meReads, rowsFor, location, logins, creating, leftovers>>

\* A confirmation or a retry, which outlives its page and its session.
CreateFrom ==
    /\ Inside /\ location = "other" /\ ~creating /\ creating' = TRUE
    /\ UNCHANGED <<token, storedToken, server, queries, location, logins, leftovers>>

CreateAnswered ==
    /\ creating /\ creating' = FALSE
    /\ \/ UNCHANGED <<token, storedToken, location, logins, leftovers>>
       \/ Shows("other", token, token # 0 /\ me[token].failed) /\ FormsLeft("other")
    /\ UNCHANGED <<server, queries>>

LegacySessionNext ==
    \/ \E p \in Locations : OpenSessionPage(p)
    \/ \E u \in People : SubmitLogin(u)
    \/ \E n \in logins : LegacyLoginAnswered(n) \/ LoginRefused(n)
    \/ Logout \/ ReloadTab \/ OtherTab
    \/ \E t \in AllTokens : TokenExpires(t) \/ MeArrives(t) \/ MeFails(t)
    \/ ReadMe
    \/ \E l \in CachedLists : ReadRows(l) \/ RowsRead(l) \/ RowsRefused(l)
    \/ CreateFrom \/ CreateAnswered

-----------------------------------------------------------------------------
\* Who signs in after a sign-out sees nothing of who signed out: the name in the
\* shell is the token's, and so are the rows of the list on screen, in whatever
\* order the logins, reads and sign-outs of both end.  The rows may be another's
\* only in a tab that changed its user without a sign-out: a session ended by a
\* failed /auth/me, or a login page reached through the history.
ShownBelongsToUser ==
    Inside =>
        /\ me[token].as = userOf[token]
        /\ \A l \in CachedLists :
              PageShown(l) /\ rowsFor[l] # Nothing /\ ~leftovers => rowsFor[l] = userOf[token]
=============================================================================
