----------------------------- MODULE QuarkAuth -----------------------------
(***************************************************************************)
(* The Quark credential: QuarkAuthService                                  *)
(* (lib/features/cloud/quark/quark_auth_service.dart) over the credential  *)
(* store, with those who use it: the transfer service, which asks for a    *)
(* valid token and renews the cookie before a download, the login web view *)
(* and the logout of the settings page.                                    *)
(*                                                                         *)
(* A credential is read, used in a request and written back; an action is  *)
(* what runs between two awaits, or a step of the server.  Each login has  *)
(* a number, 0 standing for none.  A token pair is the login it belongs to *)
(* and its generation: the login brings the first, each refresh the next   *)
(* one.  A cookie is the login it belongs to.                              *)
(***************************************************************************)
EXTENDS Integers

CONSTANTS
    Transfers,      \* operations of the transfer service; each is used once
    Syncs,          \* readings of the web view's cookies; each is used once
    MaxLogins       \* logins of the user (bound of the model)

ASSUME AuthAssumption == MaxLogins \in Nat \ {0} /\ Transfers \cap Syncs = {}

VARIABLES
    stored,         \* the credential under quarkAuthKey, or NoAuth
    jar,            \* the login in the web view's cookie jar
    logins,         \* number of logins so far
    leaving,        \* the logout has cleared the credential, not yet the jar
    auth,           \* operation -> the credential it works with
    pc,             \* operation -> where it is
    expired,        \* token pairs whose access token has expired
    rotates,        \* a refresh makes the server refuse the token it replaces
    issued,         \* login -> generation the server issued last
    gone,           \* logins the user has logged out of
    late,           \* operations that overlapped a logout
    behind          \* logins whose newest token the program lost: see below

server == <<expired, rotates, issued>>
history == <<gone, late, behind>>
vars == <<stored, jar, logins, leaving, auth, pc, server, history>>

-----------------------------------------------------------------------------
Operations == Transfers \cup Syncs
Logins == 0 .. MaxLogins
NoToken == [login |-> 0, gen |-> 0]
NoAuth == [token |-> NoToken, cookie |-> 0]

HasToken(c) == c.token # NoToken

\* Whose credential it is.
Owner(c) == IF HasToken(c) THEN c.token.login ELSE c.cookie

UnderWay == {o \in Operations : pc[o] \notin {"idle", "done"}}

Init ==
    /\ stored = NoAuth
    /\ jar = 0 /\ logins = 0 /\ leaving = FALSE
    /\ auth = [o \in Operations |-> NoAuth]
    /\ pc = [o \in Operations |-> "idle"]
    /\ expired = {} /\ rotates \in BOOLEAN /\ issued = [n \in Logins |-> 0]
    /\ gone = {} /\ late = {} /\ behind = {}

Goto(o, where) == pc' = [pc EXCEPT ![o] = where]

\* Operation o ends, well or with an exception.
End(o) == Goto(o, "done") /\ auth' = [auth EXCEPT ![o] = NoAuth]

-----------------------------------------------------------------------------
(* Transfers: ensureValidToken, then the renewal of the cookie.            *)

\* ensureValidToken reads the credential.  Nobody looks at the expiry of one
\* without tokens.
Begin(o) ==
    /\ pc[o] = "idle"
    /\ \/ stored = NoAuth /\ End(o)
       \/ /\ stored # NoAuth
          /\ Goto(o, IF stored.token \in expired THEN "refresh" ELSE "valid")
          /\ auth' = [auth EXCEPT ![o] = stored]
    /\ late' = IF leaving THEN late \cup {o} ELSE late
    /\ UNCHANGED <<stored, jar, logins, leaving, server, gone, behind>>

\* The server accepts the refresh token and issues the next pair.
ServeRefresh(o) ==
    /\ pc[o] = "refresh"
    /\ LET t == auth[o].token IN
         /\ rotates => t.gen = issued[t.login]
         /\ issued' = [issued EXCEPT ![t.login] = @ + 1]
         /\ auth' = [auth EXCEPT ![o].token.gen = issued[t.login] + 1]
    /\ Goto(o, "answered")
    /\ UNCHANGED <<stored, jar, logins, leaving, expired, rotates, history>>

\* It refuses, or cannot be reached.
RefreshFails(o) ==
    /\ pc[o] = "refresh" /\ End(o)
    /\ UNCHANGED <<stored, jar, logins, leaving, server, history>>

\* Its answer is lost.
AnswerLost(o) ==
    /\ pc[o] = "answered" /\ End(o)
    /\ behind' = behind \cup {auth[o].token.login}
    /\ UNCHANGED <<stored, jar, logins, leaving, server, gone, late>>

\* Mutant: the token that was sent is stored again.
StoreRefreshed_OldToken(o) ==
    /\ pc[o] = "answered"
    /\ stored' = [auth[o] EXCEPT !.token.gen = @ - 1]
    /\ auth' = [auth EXCEPT ![o] = stored'] /\ Goto(o, "valid")
    /\ UNCHANGED <<jar, logins, leaving, server, history>>

\* The new pair is stored, with a cookie of the answer or the one read before.
StoreRefreshed(o) ==
    /\ pc[o] = "answered"
    /\ stored' \in {auth[o], [auth[o] EXCEPT !.cookie = Owner(auth[o])]}
    /\ auth' = [auth EXCEPT ![o] = stored'] /\ Goto(o, "valid")
    /\ UNCHANGED <<jar, logins, leaving, server, history>>

\* Mutant: the tokens stored meanwhile are kept, whoever they belong to.
UpdateCookie_KeepsStored(o) ==
    /\ pc[o] = "valid"
    /\ stored' = [stored EXCEPT !.cookie = Owner(auth[o])]
    /\ End(o)
    /\ UNCHANGED <<jar, logins, leaving, server, history>>

\* ever_login answers with a new cookie: updateCookie stores it, with the
\* tokens as they were read.
UpdateCookie(o) ==
    /\ pc[o] = "valid"
    /\ stored' = [auth[o] EXCEPT !.cookie = Owner(auth[o])]
    /\ behind' = IF HasToken(auth[o]) /\ auth[o].token # stored.token
                 THEN behind \cup {auth[o].token.login} ELSE behind
    /\ End(o)
    /\ UNCHANGED <<jar, logins, leaving, server, gone, late>>

\* ever_login fails, brings nothing new or is not needed.
EndTransfer(o) ==
    /\ pc[o] = "valid" /\ End(o)
    /\ UNCHANGED <<stored, jar, logins, leaving, server, history>>

-----------------------------------------------------------------------------
(* Logins and logouts.                                                     *)

\* The user logs in in the web view.
WebLogin ==
    /\ logins < MaxLogins
    /\ logins' = logins + 1 /\ jar' = logins + 1
    /\ UNCHANGED <<stored, leaving, auth, pc, server, history>>

\* collectCookieHeader has read the jar, and the cookies are probed.  It asks the jar
\* three times, for all cookies and for those of two addresses; the three awaited reads
\* are one here.
Collect(o) ==
    /\ pc[o] = "idle" /\ jar # 0
    /\ auth' = [auth EXCEPT ![o] = [NoAuth EXCEPT !.cookie = jar]]
    /\ Goto(o, "probe")
    /\ late' = IF leaving THEN late \cup {o} ELSE late
    /\ UNCHANGED <<stored, jar, logins, leaving, server, gone, behind>>

\* The probe or the names of the cookies tell of a login:
\* syncAuthStateFromCookies stores the cookies, without tokens ...
StoreCookies(o) ==
    /\ pc[o] = "probe" /\ End(o)
    /\ stored' = auth[o]
    /\ UNCHANGED <<jar, logins, leaving, server, history>>

\* ... or neither does.
ProbeFails(o) ==
    /\ pc[o] = "probe" /\ End(o)
    /\ UNCHANGED <<stored, jar, logins, leaving, server, history>>

\* pollQrLogin: a confirmed login brings tokens, with a cookie or without.
QrLogin ==
    /\ logins < MaxLogins
    /\ logins' = logins + 1
    /\ \E c \in {0, logins + 1} :
         stored' = [token |-> [login |-> logins + 1, gen |-> 1], cookie |-> c]
    /\ issued' = [issued EXCEPT ![logins + 1] = 1]
    /\ UNCHANGED <<jar, leaving, auth, pc, expired, rotates, history>>

\* _logoutQuark: first the credential is deleted ...
Logout ==
    /\ ~leaving /\ leaving' = TRUE
    /\ stored' = NoAuth
    /\ gone' = 1 .. logins /\ late' = late \cup UnderWay
    /\ UNCHANGED <<jar, logins, auth, pc, server, behind>>

\* Mutant: the jar is left alone.
ClearJar_Kept ==
    /\ leaving /\ leaving' = FALSE
    /\ UNCHANGED <<stored, jar, logins, auth, pc, server, history>>

\* ... then the cookies of the web view.
ClearJar ==
    /\ leaving /\ leaving' = FALSE
    /\ jar' = 0
    /\ UNCHANGED <<stored, logins, auth, pc, server, history>>

\* Time passes.
Expire ==
    /\ HasToken(stored) /\ stored.token \notin expired
    /\ expired' = expired \cup {stored.token}
    /\ UNCHANGED <<stored, jar, logins, leaving, auth, pc, rotates, issued, history>>

Transfer(o) ==
    \/ Begin(o) \/ ServeRefresh(o) \/ RefreshFails(o) \/ AnswerLost(o)
    \/ StoreRefreshed(o) \/ UpdateCookie(o) \/ EndTransfer(o)

Sync(o) == Collect(o) \/ StoreCookies(o) \/ ProbeFails(o)

Next ==
    \/ \E o \in Transfers : Transfer(o)
    \/ \E o \in Syncs : Sync(o)
    \/ WebLogin \/ QrLogin \/ Logout \/ ClearJar \/ Expire

Spec == Init /\ [][Next]_vars

-----------------------------------------------------------------------------
(* Properties.                                                             *)

Tokens == {NoToken} \cup [login : 1 .. MaxLogins, gen : Nat \ {0}]
Credentials == [token : Tokens, cookie : Logins]
Steps == {"idle", "refresh", "answered", "valid", "probe", "done"}

\* Types; an operation under way has a credential to work with.
TypeOK ==
    /\ stored \in Credentials /\ jar \in 0 .. logins /\ logins \in Logins
    /\ leaving \in BOOLEAN
    /\ auth \in [Operations -> Credentials]
    /\ pc \in [Operations -> Steps]
    /\ expired \subseteq Tokens \ {NoToken} /\ rotates \in BOOLEAN
    /\ issued \in [Logins -> Nat]
    /\ gone \subseteq 1 .. logins /\ late \subseteq Operations /\ behind \subseteq 1 .. logins
    /\ \A o \in UnderWay : Owner(auth[o]) \in 1 .. logins
    /\ \A o \in Operations : /\ pc[o] \in {"refresh", "answered"} => HasToken(auth[o])
                             /\ pc[o] = "probe" => ~HasToken(auth[o])

\* The tokens and the cookie that are stored, or that a request carries, belong
\* to one login, however logins, refreshes and late cookies overlap
\* (ensureValidToken, updateCookie).
OneIdentity ==
    \A c \in {stored} \cup {auth[o] : o \in Operations} :
      HasToken(c) /\ c.cookie # 0 => c.cookie = c.token.login

\* A logout that nothing overlaps is final: no operation, begun before an
\* earlier one or after, stores a login the user has left (_logoutQuark).
LogoutHolds == late = {} => stored = NoAuth \/ Owner(stored) \notin gone

\* The refresh token that is stored is one the server accepts, however
\* refreshes overlap, unless the program has lost the newest one: the answer
\* never came, or updateCookie wrote tokens that were replaced since it read them.
RefreshTokenUsable ==
    LET t == stored.token IN
      /\ rotates /\ HasToken(stored) /\ t.login \notin behind
      /\ \A o \in Operations : pc[o] = "answered" => auth[o].token.login # t.login
      => t.gen = issued[t.login]

\* What a user expects of a refresh that was stored: no cookie that comes late
\* takes it back.
RefreshKept ==
    [][stored.token.login = stored'.token.login => stored.token.gen <= stored'.token.gen]_vars

\* What a user expects of a logout: it is final even if something is under way.
LogoutFinal == stored = NoAuth \/ Owner(stored) \notin gone

=============================================================================
