-------------------------- MODULE QuarkAuthProofs --------------------------
(***************************************************************************)
(* Proofs about QuarkAuth, for any number of logins, of operations and of  *)
(* cookie readings.                                                        *)
(***************************************************************************)
EXTENDS QuarkAuth, TLAPS

-----------------------------------------------------------------------------
(* Types.                                                                  *)

\* A credential names logins there have been, and one only.
Legal(c) ==
    /\ c.cookie \in 0 .. logins
    /\ HasToken(c) => c.token.login \in 1 .. logins /\ c.cookie \in {0, c.token.login}

AllLegal == Legal(stored) /\ \A o \in Operations : Legal(auth[o])

Typed == TypeOK /\ AllLegal

\* A credential that is not empty belongs to a login.
LEMMA OwnerKnown ==
  ASSUME logins \in Logins, NEW c \in Credentials, Legal(c), c # NoAuth
  PROVE  Owner(c) \in 1 .. logins
  BY DEF Legal, Credentials, Tokens, Owner, HasToken, NoAuth, Logins

LEMMA TypedInit == Init => Typed
<1> SUFFICES ASSUME Init PROVE Typed
  OBVIOUS
<1>1. NoAuth \in Credentials /\ Legal(NoAuth)
  BY AuthAssumption DEF Init, NoAuth, Credentials, Tokens, Legal, HasToken, Logins
<1>2. AllLegal
  BY <1>1 DEF Init, AllLegal
<1>3. logins \in Logins /\ jar \in 0 .. logins
  BY AuthAssumption DEF Init, Logins
<1>4. UnderWay = {}
  BY DEF Init, UnderWay
<1> QED
  BY <1>1, <1>2, <1>3, <1>4 DEF Init, Typed, TypeOK, Steps

\* The steps that only read a credential, send it, or end an operation.
LEMMA ReadTyped ==
  ASSUME Typed, NEW o \in Operations,
         \/ Begin(o) \/ RefreshFails(o) \/ AnswerLost(o) \/ EndTransfer(o)
         \/ Collect(o) \/ ProbeFails(o)
  PROVE  Typed'
<1> USE AuthAssumption DEF Typed, TypeOK, server, Steps
<1>1. NoAuth \in Credentials /\ Legal(NoAuth)
  BY AuthAssumption DEF NoAuth, Credentials, Tokens, Legal, HasToken, Logins
<1>2. CASE End(o) /\ UNCHANGED <<stored, jar, logins, leaving, server, gone>>
           /\ late' \subseteq late \cup {o}
           /\ behind' \subseteq behind \cup {auth[o].token.login}
           /\ (behind' # behind => HasToken(auth[o]))
  BY <1>1, <1>2 DEF End, Goto, AllLegal, Legal, HasToken, UnderWay, Owner
<1>3. CASE Begin(o) /\ stored # NoAuth
  <2>1. Owner(stored) \in 1 .. logins
    BY <1>3, OwnerKnown DEF AllLegal
  <2>2. stored.token \in expired => HasToken(stored)
    BY DEF HasToken
  <2> QED BY <1>3, <2>1, <2>2 DEF Begin, End, Goto, AllLegal, Legal, HasToken, UnderWay, Owner
<1>4. CASE Begin(o) /\ stored = NoAuth
  BY <1>2, <1>4 DEF Begin
<1>5. CASE RefreshFails(o) \/ EndTransfer(o) \/ ProbeFails(o)
  BY <1>2, <1>5 DEF RefreshFails, EndTransfer, ProbeFails, history
<1>6. CASE AnswerLost(o)
  BY <1>2, <1>6 DEF AnswerLost
<1>7. CASE Collect(o)
  <2> DEFINE c == [NoAuth EXCEPT !.cookie = jar]
  <2>1. c \in Credentials /\ Legal(c) /\ Owner(c) \in 1 .. logins /\ ~HasToken(c)
    <3>1. c = [token |-> NoToken, cookie |-> jar]
      BY DEF NoAuth
    <3>2. NoToken \in Tokens /\ jar \in Logins /\ jar \in 1 .. logins
      BY <1>7 DEF Collect, Tokens, Logins
    <3> HIDE DEF c
    <3>3. c.token = NoToken /\ c.cookie = jar
      BY <3>1
    <3>4. c \in Credentials
      BY <3>1, <3>2 DEF Credentials
    <3> QED BY <3>2, <3>3, <3>4 DEF Legal, HasToken, Owner
  <2>2. /\ auth' = [auth EXCEPT ![o] = c] /\ pc' = [pc EXCEPT ![o] = "probe"]
        /\ late' \in SUBSET Operations
        /\ UNCHANGED <<stored, jar, logins, leaving, server, gone, behind>>
    BY <1>7 DEF Collect, Goto
  <2> HIDE DEF c
  <2> QED BY <2>1, <2>2 DEF AllLegal, Legal, HasToken, UnderWay, Owner
<1> QED BY <1>3, <1>4, <1>5, <1>6, <1>7

\* The steps of an operation that renew what it holds or store it.
LEMMA WriteTyped ==
  ASSUME Typed, NEW o \in Operations,
         ServeRefresh(o) \/ StoreRefreshed(o) \/ UpdateCookie(o) \/ StoreCookies(o)
  PROVE  Typed'
<1> USE AuthAssumption DEF Typed, TypeOK, server, Steps
<1>1. NoAuth \in Credentials /\ Legal(NoAuth)
  BY AuthAssumption DEF NoAuth, Credentials, Tokens, Legal, HasToken, Logins
<1>2. auth[o] \in Credentials /\ Legal(auth[o]) /\ pc[o] \notin {"idle", "done"}
      /\ Owner(auth[o]) \in 1 .. logins
  BY DEF AllLegal, UnderWay, ServeRefresh, StoreRefreshed, UpdateCookie, StoreCookies
<1> DEFINE renewed == [auth[o] EXCEPT !.cookie = Owner(auth[o])]
<1>3. renewed \in Credentials /\ Legal(renewed) /\ Owner(renewed) = Owner(auth[o])
      /\ (HasToken(auth[o]) => HasToken(renewed))
  <2>1. renewed = [token |-> auth[o].token, cookie |-> Owner(auth[o])]
    BY <1>2 DEF Credentials
  <2>2. auth[o].token \in Tokens /\ Owner(auth[o]) \in Logins
    BY <1>2 DEF Credentials, Logins
  <2> HIDE DEF renewed
  <2>3. renewed \in Credentials /\ (HasToken(auth[o]) => HasToken(renewed))
    BY <2>1, <2>2 DEF Credentials, HasToken
  <2>4. renewed.token = auth[o].token /\ renewed.cookie = Owner(auth[o])
    BY <2>1
  <2>5. Owner(renewed) = Owner(auth[o])
    BY <2>4 DEF Owner, HasToken
  <2>6. Legal(renewed)
    BY <1>2, <2>4 DEF Owner, HasToken, Legal
  <2> QED BY <2>3, <2>5, <2>6
<1>4. CASE ServeRefresh(o)
  <2> DEFINE t == auth[o].token
             c == [auth[o] EXCEPT !.token.gen = issued[auth[o].token.login] + 1]
  <2>1. t \in Tokens /\ t # NoToken /\ t.login \in Logins
    BY <1>2, <1>4 DEF ServeRefresh, Credentials, HasToken, Tokens, NoToken, Logins
  <2>2. issued[t.login] \in Nat
    BY <2>1
  <2>3. c = [token |-> [login |-> t.login, gen |-> issued[t.login] + 1],
             cookie |-> auth[o].cookie]
    BY <1>2, <2>1, SMTT(30) DEF Credentials, Tokens, NoToken
  <2>4. t.login \in 1 .. MaxLogins
    BY <2>1 DEF Tokens
  <2>5. c \in Credentials /\ HasToken(c) /\ c.token.login = t.login
    <3> DEFINE n == [login |-> t.login, gen |-> issued[t.login] + 1]
    <3>1. n \in Tokens /\ n.login = t.login /\ NoToken.login = 0
      BY <2>2, <2>4 DEF Tokens, NoToken
    <3>2. c.token = n /\ c = [token |-> n, cookie |-> auth[o].cookie]
      BY <2>3
    <3>3. auth[o].cookie \in Logins
      BY <1>2 DEF Credentials
    <3> HIDE DEF n, c
    <3>4. c \in Credentials
      BY <3>1, <3>2, <3>3 DEF Credentials
    <3>5. n # NoToken
      BY <3>1, <2>4
    <3> QED BY <3>1, <3>2, <3>4, <3>5 DEF HasToken
  <2>6. Legal(c) /\ Owner(c) \in 1 .. logins
    BY <1>2, <2>1, <2>3, <2>5 DEF Legal, HasToken, Owner
  <2>7. /\ auth' = [auth EXCEPT ![o] = c] /\ pc' = [pc EXCEPT ![o] = "answered"]
        /\ issued' = [issued EXCEPT ![t.login] = @ + 1]
        /\ UNCHANGED <<stored, jar, logins, leaving, expired, rotates, history>>
    <3>1. auth' = [auth EXCEPT ![o].token.gen = issued[t.login] + 1]
      BY <1>4 DEF ServeRefresh
    <3>2. [auth EXCEPT ![o].token.gen = issued[t.login] + 1] = [auth EXCEPT ![o] = c]
      OBVIOUS
    <3> QED BY <1>4, <3>1, <3>2 DEF ServeRefresh, Goto
  <2> HIDE DEF c, t
  <2>8. issued' \in [Logins -> Nat]
    BY <2>1, <2>2, <2>7
  <2>9. AllLegal'
    BY <2>6, <2>7 DEF AllLegal, Legal, HasToken
  <2>10. (\A q \in UnderWay : Owner(auth[q]) \in 1 .. logins)'
    BY <2>6, <2>7 DEF UnderWay, Owner, HasToken
  <2> QED BY <2>5, <2>7, <2>8, <2>9, <2>10 DEF HasToken, history
<1> HIDE DEF renewed
<1>5. CASE StoreRefreshed(o)
  <2>1. stored' \in {auth[o], renewed} /\ auth' = [auth EXCEPT ![o] = stored']
        /\ pc' = [pc EXCEPT ![o] = "valid"]
        /\ UNCHANGED <<jar, logins, leaving, server, history>>
    BY <1>5 DEF StoreRefreshed, Goto, renewed
  <2>2. stored' \in Credentials /\ Legal(stored') /\ Owner(stored') \in 1 .. logins
    BY <1>2, <1>3, <2>1
  <2> QED BY <2>1, <2>2 DEF AllLegal, Legal, HasToken, UnderWay, Owner, history
<1>6. CASE UpdateCookie(o)
  <2>1. stored' = renewed /\ auth' = [auth EXCEPT ![o] = NoAuth]
        /\ pc' = [pc EXCEPT ![o] = "done"]
        /\ UNCHANGED <<jar, logins, leaving, server, gone, late>>
    BY <1>6 DEF UpdateCookie, End, Goto, renewed
  <2>2. behind' \subseteq 1 .. logins
    BY <1>2, <1>6 DEF UpdateCookie, Legal
  <2> QED BY <1>1, <1>3, <2>1, <2>2 DEF AllLegal, Legal, HasToken, UnderWay, Owner
<1>7. CASE StoreCookies(o)
  <2>1. stored' = auth[o] /\ auth' = [auth EXCEPT ![o] = NoAuth]
        /\ pc' = [pc EXCEPT ![o] = "done"]
        /\ UNCHANGED <<jar, logins, leaving, server, history>>
    BY <1>7 DEF StoreCookies, End, Goto
  <2> QED BY <1>1, <1>2, <2>1 DEF AllLegal, Legal, HasToken, UnderWay, Owner, history
<1> QED BY <1>4, <1>5, <1>6, <1>7

\* Logins and logouts.
LEMMA LoginTyped ==
  ASSUME Typed, WebLogin \/ QrLogin \/ Logout \/ ClearJar \/ Expire
  PROVE  Typed'
<1> USE AuthAssumption DEF Typed, TypeOK, server, Steps, history, Logins
<1>1. NoAuth \in Credentials /\ Legal(NoAuth)
  BY DEF NoAuth, Credentials, Tokens, Legal, HasToken
<1>2. CASE WebLogin
  <2>1. logins' = logins + 1 /\ logins + 1 \in 1 .. MaxLogins /\ jar' = logins + 1
        /\ UNCHANGED <<stored, leaving, auth, pc, server, history>>
    BY <1>2 DEF WebLogin
  <2>2. 1 .. logins \subseteq 1 .. logins' /\ 0 .. logins \subseteq 0 .. logins'
    BY <2>1
  <2>3. AllLegal'
    BY <2>1, <2>2 DEF AllLegal, Legal, HasToken
  <2>4. (\A o \in UnderWay : Owner(auth[o]) \in 1 .. logins)'
    BY <2>1, <2>2 DEF UnderWay, Owner, HasToken
  <2> QED BY <2>1, <2>2, <2>3, <2>4 DEF HasToken
<1>3. CASE QrLogin
  <2>1. PICK c \in {0, logins + 1} :
          stored' = [token |-> [login |-> logins + 1, gen |-> 1], cookie |-> c]
    BY <1>3 DEF QrLogin
  <2>2. logins' = logins + 1 /\ logins + 1 \in 1 .. MaxLogins
    BY <1>3 DEF QrLogin
  <2>3. stored' \in Credentials
    BY <2>1, <2>2 DEF Credentials, Tokens
  <2>4. Legal(stored)'
    BY <2>1, <2>2 DEF Legal, HasToken
  <2>5. issued' = [issued EXCEPT ![logins + 1] = 1]
        /\ UNCHANGED <<jar, leaving, auth, pc, expired, rotates, gone, late, behind>>
    BY <1>3 DEF QrLogin
  <2>6. (\A o \in Operations : Legal(auth[o]))'
    BY <2>2, <2>5, SMTT(30) DEF AllLegal, Legal, HasToken
  <2>7. 1 .. logins \subseteq 1 .. logins' /\ 0 .. logins \subseteq 0 .. logins'
    BY <2>2
  <2>8. (\A o \in UnderWay : Owner(auth[o]) \in 1 .. logins)'
    BY <2>5, <2>7 DEF UnderWay, Owner, HasToken
  <2> QED
    BY <2>2, <2>3, <2>4, <2>5, <2>6, <2>7, <2>8 DEF AllLegal, HasToken
<1>4. CASE Logout
  BY <1>1, <1>4 DEF Logout, AllLegal, Legal, HasToken, UnderWay, Owner
<1>5. CASE ClearJar
  <2>1. 0 \in 0 .. logins
    OBVIOUS
  <2> QED BY <1>5, <2>1 DEF ClearJar, AllLegal, Legal, HasToken, UnderWay, Owner
<1>6. CASE Expire
  <2>1. stored.token \in Tokens \ {NoToken}
    BY <1>6 DEF Expire, HasToken, Credentials
  <2> QED BY <1>6, <2>1 DEF Expire, AllLegal, Legal, HasToken, UnderWay, Owner
<1> QED BY <1>2, <1>3, <1>4, <1>5, <1>6

LEMMA TypedStep == Typed /\ [Next]_vars => Typed'
<1> SUFFICES ASSUME Typed, [Next]_vars PROVE Typed'
  OBVIOUS
<1>1. CASE \E o \in Transfers : Transfer(o)
  BY <1>1, ReadTyped, WriteTyped DEF Transfer, Operations
<1>2. CASE \E o \in Syncs : Sync(o)
  BY <1>2, ReadTyped, WriteTyped DEF Sync, Operations
<1>3. CASE WebLogin \/ QrLogin \/ Logout \/ ClearJar \/ Expire
  BY <1>3, LoginTyped
<1>4. CASE UNCHANGED vars
  BY <1>4 DEF vars, server, history, Typed, TypeOK, AllLegal, Legal, HasToken, UnderWay, Owner
<1> QED BY <1>1, <1>2, <1>3, <1>4 DEF Next

LEMMA AlwaysTyped == Spec => []Typed
  BY TypedInit, TypedStep, PTL DEF Spec

\* The state of quark_auth_service.dart and of the operations over it has its
\* types; in particular a refresh is only sent with a token to send.
THEOREM TypesHold == Spec => []TypeOK
  BY AlwaysTyped, PTL DEF Typed

\* Tokens and cookie of one credential, stored or on its way, belong to one
\* login.
THEOREM CredentialsAreWhole == Spec => []OneIdentity
<1>1. Typed => OneIdentity
  BY DEF Typed, AllLegal, Legal, OneIdentity
<1> QED BY <1>1, AlwaysTyped, PTL

-----------------------------------------------------------------------------
(* Logouts.                                                                *)

\* While no operation has overlapped a logout, nothing stored, under way or in
\* the jar is of a login the user has left; the jar until its turn comes.
Clean ==
    late = {} =>
      /\ stored = NoAuth \/ Owner(stored) \notin gone
      /\ ~leaving => jar \notin gone
      /\ \A o \in UnderWay : Owner(auth[o]) \notin gone

LEMMA CleanStep ==
  ASSUME Typed, Clean, [Next]_vars
  PROVE  Clean'
<1> SUFFICES ASSUME late' = {} PROVE Clean'
  BY DEF Clean
<1> USE DEF Clean, UnderWay
<1>1. ASSUME NEW o \in Transfers, Begin(o) PROVE Clean'
  <2>1. o \in Operations /\ ~leaving /\ late = {}
    BY <1>1 DEF Begin, Operations
  <2>2. CASE End(o)
    BY <1>1, <2>1, <2>2 DEF Begin, End, Goto, Owner, HasToken, Typed, TypeOK
  <2>3. CASE stored # NoAuth /\ auth' = [auth EXCEPT ![o] = stored]
    BY <1>1, <2>1, <2>3 DEF Begin, Goto, Owner, HasToken, Typed, TypeOK
  <2> QED BY <1>1, <2>2, <2>3 DEF Begin
<1>2. ASSUME NEW o \in Operations,
             RefreshFails(o) \/ AnswerLost(o) \/ EndTransfer(o) \/ ProbeFails(o)
      PROVE  Clean'
  BY <1>2 DEF RefreshFails, AnswerLost, EndTransfer, ProbeFails, End, Goto, history,
              Owner, HasToken, Typed, TypeOK
<1>3. ASSUME NEW o \in Operations, ServeRefresh(o) PROVE Clean'
  <2>1. HasToken(auth[o]) /\ auth[o] \in Credentials
    BY <1>3 DEF ServeRefresh, Typed, TypeOK
  <2>2. auth'[o].token.login = auth[o].token.login /\ auth'[o].token \in Tokens
        /\ auth'[o].token # NoToken
    <3>1. auth'[o] \in Credentials /\ HasToken(auth'[o])
      BY <1>3, WriteTyped DEF Typed, TypeOK, ServeRefresh, Goto
    <3>2. auth'[o].token.login = auth[o].token.login
      BY <1>3, <2>1 DEF ServeRefresh, Typed, TypeOK
    <3> QED BY <3>1, <3>2 DEF Credentials, HasToken
  <2>3. Owner(auth[o])' = Owner(auth[o])
    BY <2>1, <2>2 DEF Owner, HasToken
  <2>4. \A q \in Operations \ {o} : auth'[q] = auth[q] /\ pc'[q] = pc[q]
    BY <1>3 DEF ServeRefresh, Goto, Typed, TypeOK
  <2> QED BY <1>3, <2>3, <2>4 DEF ServeRefresh, history, Owner, HasToken
<1> DEFINE renewed(o) == [auth[o] EXCEPT !.cookie = Owner(auth[o])]
<1>4. ASSUME NEW o \in Operations PROVE Owner(renewed(o)) = Owner(auth[o])
  <2>1. auth[o] \in Credentials
    BY DEF Typed, TypeOK
  <2>2. renewed(o).token = auth[o].token /\ renewed(o).cookie = Owner(auth[o])
    BY <2>1 DEF Credentials
  <2> QED BY <2>2 DEF Owner, HasToken
<1>5. ASSUME NEW o \in Operations,
             StoreRefreshed(o) \/ UpdateCookie(o) \/ StoreCookies(o)
      PROVE  Clean'
  <2>1. stored' \in {auth[o], renewed(o)} /\ pc[o] \notin {"idle", "done"}
        /\ \/ auth' = [auth EXCEPT ![o] = stored']
           \/ auth' = [auth EXCEPT ![o] = NoAuth] /\ pc' = [pc EXCEPT ![o] = "done"]
        /\ \E where : pc' = [pc EXCEPT ![o] = where]
        /\ UNCHANGED <<jar, leaving, gone, late>>
    BY <1>5 DEF StoreRefreshed, UpdateCookie, StoreCookies, End, Goto, history
  <2>2. Owner(stored') = Owner(auth[o]) /\ Owner(auth[o]) \notin gone
    BY <1>4, <2>1
  <2> HIDE DEF renewed
  <2> QED BY <2>1, <2>2 DEF Owner, HasToken, Typed, TypeOK
<1>6. ASSUME NEW o \in Syncs, Collect(o) PROVE Clean'
  <2>1. o \in Operations /\ ~leaving /\ late = {} /\ auth \in [Operations -> Credentials]
    BY <1>6 DEF Collect, Operations, Typed, TypeOK
  <2>2. auth'[o].token = NoToken /\ auth'[o].cookie = jar
    BY <1>6, <2>1 DEF Collect, NoAuth
  <2>3. Owner(auth[o])' = jar
    BY <2>2 DEF Owner, HasToken
  <2> QED BY <1>6, <2>1, <2>3 DEF Collect, Goto, Typed, TypeOK, Owner, HasToken
<1>7. CASE WebLogin \/ QrLogin
  <2>1. logins + 1 \notin gone /\ logins \in Nat
    BY AuthAssumption DEF Typed, TypeOK, Logins
  <2>2. CASE WebLogin
    BY <2>1, <2>2 DEF WebLogin, history, Owner, HasToken
  <2>3. CASE QrLogin
    <3>1. Owner(stored)' = logins + 1
      BY <2>1, <2>3 DEF QrLogin, Owner, HasToken, NoToken
    <3> QED BY <2>1, <2>3, <3>1 DEF QrLogin, history, Owner, HasToken
  <2> QED BY <1>7, <2>2, <2>3
<1>8. CASE Logout
  BY <1>8 DEF Logout
<1>9. CASE ClearJar
  <2>1. 0 \notin gone
    BY DEF Typed, TypeOK
  <2> QED BY <1>9, <2>1 DEF ClearJar, history, Owner, HasToken
<1>10. CASE Expire \/ UNCHANGED vars
  BY <1>10 DEF Expire, vars, history, Owner, HasToken
<1> QED
  BY <1>1, <1>2, <1>3, <1>5, <1>6, <1>7, <1>8, <1>9, <1>10
     DEF Next, Transfer, Sync, Operations

\* A logout that nothing overlaps is final.
THEOREM LogoutIsFinal == Spec => []LogoutHolds
<1>1. Init => Clean
  BY DEF Init, Clean, UnderWay
<1>2. Clean => LogoutHolds
  BY DEF Clean, LogoutHolds
<1> QED BY <1>1, <1>2, AlwaysTyped, CleanStep, PTL DEF Spec

-----------------------------------------------------------------------------
(* Refresh tokens.                                                         *)

\* The token is the one the server issued last for its login.
Newest(t) == t.gen = issued[t.login]

\* No token is newer than the server's.
NoneNewer ==
    /\ stored.token.gen <= issued[stored.token.login]
    /\ \A o \in Operations : auth[o].token.gen <= issued[auth[o].token.login]

\* A server that rotates has given the newest token to the operation it has
\* answered, and nobody else has it.
OnlyAnswered ==
    \A o \in Operations : pc[o] = "answered" =>
      LET n == auth[o].token.login IN
        /\ Newest(auth[o].token)
        /\ Newest(stored.token) => stored.token.login # n
        /\ \A q \in Operations \ {o} : Newest(auth[q].token) => auth[q].token.login # n

Tracked == NoneNewer /\ (rotates => OnlyAnswered) /\ RefreshTokenUsable

\* What the types say of the tokens themselves.
LEMMA TokenFacts ==
  ASSUME Typed
  PROVE  /\ stored.token.login \in Logins /\ stored.token.gen \in Nat
         /\ HasToken(stored) => stored.token.login # 0
         /\ \A o \in Operations : /\ auth[o].token.login \in Logins
                                  /\ auth[o].token.gen \in Nat
                                  /\ HasToken(auth[o]) => auth[o].token.login # 0
         /\ \A n \in Logins : issued[n] \in Nat
         /\ NoAuth.token = NoToken /\ NoToken.login = 0 /\ NoToken.gen = 0 /\ 0 \in Logins
<1>1. \A t \in Tokens : t.login \in Logins /\ t.gen \in Nat /\ (t # NoToken => t.login # 0)
  BY AuthAssumption DEF Tokens, NoToken, Logins
<1>2. stored.token \in Tokens /\ \A o \in Operations : auth[o].token \in Tokens
  BY DEF Typed, TypeOK, Credentials
<1> QED BY <1>1, <1>2, AuthAssumption DEF Typed, TypeOK, HasToken, NoAuth, NoToken, Logins

\* An operation that drops its credential, or takes the stored one.
LEMMA ReadTracked ==
  ASSUME Typed, Tracked, NEW o \in Operations,
         \/ Begin(o) \/ RefreshFails(o) \/ AnswerLost(o) \/ EndTransfer(o)
         \/ Collect(o) \/ ProbeFails(o)
  PROVE  Tracked'
<1> USE DEF Tracked
<1>1. auth \in [Operations -> Credentials] /\ pc \in [Operations -> Steps]
  BY DEF Typed, TypeOK
<1>2. /\ auth'[o].token \in {NoToken, stored.token} /\ pc'[o] # "answered"
      /\ \A q \in Operations \ {o} : auth'[q] = auth[q] /\ pc'[q] = pc[q]
      /\ UNCHANGED <<stored, issued, rotates>>
      /\ behind \subseteq behind'
      /\ pc[o] = "answered" => auth[o].token.login \in behind' \/ UNCHANGED auth
      /\ pc[o] = "answered" => auth[o].token.login \in behind'
  BY <1>1 DEF Begin, RefreshFails, AnswerLost, EndTransfer, Collect, ProbeFails, End, Goto,
              server, history, NoAuth
<1>3. NoneNewer'
  BY <1>2, TokenFacts DEF NoneNewer
<1>4. rotates' => OnlyAnswered'
  <2> SUFFICES ASSUME rotates, NEW q \in Operations, pc'[q] = "answered"
               PROVE  /\ Newest(auth[q].token)'
                      /\ (Newest(stored.token) => stored.token.login # auth[q].token.login)'
                      /\ \A r \in Operations \ {q} :
                           (Newest(auth[r].token) => auth[r].token.login # auth[q].token.login)'
    BY <1>2 DEF OnlyAnswered
  <2>1. q # o /\ auth'[q] = auth[q] /\ pc[q] = "answered"
    BY <1>2
  <2>2. auth[q].token.login # 0
    BY <2>1, TokenFacts DEF Typed, TypeOK
  <2> QED BY <1>2, <2>1, <2>2, TokenFacts DEF OnlyAnswered, Newest
<1>5. RefreshTokenUsable'
  BY <1>2 DEF RefreshTokenUsable, HasToken
<1> QED BY <1>3, <1>4, <1>5

\* A refresh is served only for the newest token, if the server rotates; then
\* nobody has been answered for that login.
LEMMA ServeTracked ==
  ASSUME Typed, Tracked, NEW o \in Operations, ServeRefresh(o)
  PROVE  Tracked'
<1> USE DEF Tracked
<1> DEFINE n == auth[o].token.login
<1>1. /\ auth \in [Operations -> Credentials] /\ pc \in [Operations -> Steps]
      /\ issued \in [Logins -> Nat] /\ n \in Logins /\ n # 0
  BY TokenFacts DEF Typed, TypeOK, ServeRefresh
<1>2. /\ auth'[o].token.login = n /\ auth'[o].token.gen = issued[n] + 1
      /\ pc'[o] = "answered" /\ pc[o] = "refresh"
      /\ issued' = [issued EXCEPT ![n] = @ + 1]
      /\ \A q \in Operations \ {o} : auth'[q] = auth[q] /\ pc'[q] = pc[q]
      /\ UNCHANGED <<stored, rotates, behind>>
      /\ rotates => Newest(auth[o].token)
  <2>1. auth[o] \in Credentials /\ auth[o].token \in Tokens
    BY <1>1 DEF Credentials
  <2>2. auth'[o].token = [auth[o].token EXCEPT !.gen = issued[n] + 1]
    BY <1>1, <2>1 DEF ServeRefresh, Credentials
  <2>3. auth'[o].token.login = n /\ auth'[o].token.gen = issued[n] + 1
    BY <2>1, <2>2 DEF Tokens, NoToken
  <2> QED BY <1>1, <2>3 DEF ServeRefresh, Goto, history, Newest
<1> HIDE DEF n
<1>3. NoneNewer'
  BY <1>1, <1>2, TokenFacts DEF NoneNewer
<1>4. rotates => \A q \in Operations : pc[q] = "answered" => auth[q].token.login # n
  BY <1>2 DEF OnlyAnswered, n
<1>5. rotates' => OnlyAnswered'
  <2> SUFFICES ASSUME rotates PROVE OnlyAnswered'
    BY <1>2
  <2>1. /\ ~(Newest(stored.token)' /\ stored.token.login = n)
        /\ \A q \in Operations \ {o} : ~(Newest(auth[q].token)' /\ auth[q].token.login = n)
    BY <1>1, <1>2, TokenFacts DEF NoneNewer, Newest
  <2>2. Newest(auth[o].token)'
    BY <1>1, <1>2 DEF Newest
  <2>3. ASSUME NEW q \in Operations \ {o}, pc[q] = "answered"
        PROVE  /\ auth[q].token.login # n /\ Newest(auth[q].token)'
               /\ Newest(stored.token)' => stored.token.login # auth[q].token.login
               /\ \A r \in Operations \ {o, q} :
                    Newest(auth[r].token)' => auth[r].token.login # auth[q].token.login
    BY <1>1, <1>2, <1>4, <2>3, TokenFacts DEF OnlyAnswered, Newest
  <2> QED BY <1>2, <2>1, <2>2, <2>3 DEF OnlyAnswered
<1>6. RefreshTokenUsable'
  BY <1>1, <1>2, <1>4, TokenFacts DEF RefreshTokenUsable, HasToken
<1> QED BY <1>3, <1>5, <1>6

\* What an answer brought is stored, and no other answer for the login is
\* under way; what updateCookie stores is newest or the login is behind.
LEMMA WriteTracked ==
  ASSUME Typed, Tracked, NEW o \in Operations,
         StoreRefreshed(o) \/ UpdateCookie(o) \/ StoreCookies(o)
  PROVE  Tracked'
<1> USE DEF Tracked
<1>1. auth \in [Operations -> Credentials] /\ pc \in [Operations -> Steps]
  BY DEF Typed, TypeOK
<1>2. /\ stored'.token = auth[o].token
      /\ auth'[o].token \in {NoToken, auth[o].token} /\ pc'[o] # "answered"
      /\ \A q \in Operations \ {o} : auth'[q] = auth[q] /\ pc'[q] = pc[q]
      /\ UNCHANGED <<issued, rotates>> /\ behind \subseteq behind'
  BY <1>1 DEF StoreRefreshed, UpdateCookie, StoreCookies, End, Goto, server, history, NoAuth,
              Credentials
<1>3. NoneNewer'
  BY <1>2, TokenFacts DEF NoneNewer
<1>4. rotates' => OnlyAnswered'
  <2> SUFFICES ASSUME rotates, NEW q \in Operations, pc'[q] = "answered"
               PROVE  /\ Newest(auth[q].token)'
                      /\ (Newest(stored.token) => stored.token.login # auth[q].token.login)'
                      /\ \A r \in Operations \ {q} :
                           (Newest(auth[r].token) => auth[r].token.login # auth[q].token.login)'
    BY <1>2 DEF OnlyAnswered
  <2>1. q # o /\ auth'[q] = auth[q] /\ pc[q] = "answered"
    BY <1>2
  <2>2. auth[q].token.login # 0
    BY <2>1, TokenFacts DEF Typed, TypeOK
  <2> QED BY <1>2, <2>1, <2>2, TokenFacts DEF OnlyAnswered, Newest
<1>5. RefreshTokenUsable'
  <2>1. CASE StoreRefreshed(o)
    BY <1>2, <2>1 DEF StoreRefreshed, RefreshTokenUsable, OnlyAnswered, Newest
  <2>2. CASE UpdateCookie(o)
    <3>1. pc[o] # "answered"
      BY <2>2 DEF UpdateCookie
    <3>2. CASE HasToken(auth[o]) /\ auth[o].token # stored.token
      BY <1>2, <2>2, <3>2 DEF UpdateCookie, RefreshTokenUsable
    <3>3. CASE auth[o].token = stored.token
      BY <1>2, <3>1, <3>3 DEF RefreshTokenUsable, HasToken
    <3>4. CASE ~HasToken(auth[o])
      BY <1>2, <3>4 DEF RefreshTokenUsable, HasToken
    <3> QED BY <3>2, <3>3, <3>4
  <2>3. CASE StoreCookies(o)
    <3>1. auth[o].token = NoToken
      BY <2>3 DEF StoreCookies, Typed, TypeOK, HasToken
    <3> QED BY <1>2, <3>1 DEF RefreshTokenUsable, HasToken
  <2> QED BY <2>1, <2>2, <2>3
<1> QED BY <1>3, <1>4, <1>5

LEMMA LoginTracked ==
  ASSUME Typed, Tracked, WebLogin \/ QrLogin \/ Logout \/ ClearJar \/ Expire
  PROVE  Tracked'
<1> USE DEF Tracked
<1>1. CASE WebLogin \/ ClearJar \/ Expire
  BY <1>1 DEF WebLogin, ClearJar, Expire, server, history, NoneNewer, OnlyAnswered, Newest,
              RefreshTokenUsable, HasToken
<1>2. CASE Logout
  <2>1. stored'.token = NoToken /\ UNCHANGED <<auth, pc, issued, rotates, behind>>
    BY <1>2 DEF Logout, NoAuth, server
  <2>2. NoneNewer' /\ RefreshTokenUsable'
    BY <2>1, TokenFacts DEF NoneNewer, RefreshTokenUsable, HasToken
  <2>3. rotates' => OnlyAnswered'
    <3>1. \A o \in Operations : pc[o] = "answered" => auth[o].token.login # 0
      BY TokenFacts DEF Typed, TypeOK
    <3> QED BY <2>1, <3>1, TokenFacts DEF OnlyAnswered, Newest
  <2> QED BY <2>2, <2>3
<1>3. CASE QrLogin
  <2> DEFINE n == logins + 1
  <2>1. /\ n \in Logins /\ issued \in [Logins -> Nat]
        /\ stored'.token.login = n /\ stored'.token.gen = 1
        /\ issued' = [issued EXCEPT ![n] = 1]
        /\ UNCHANGED <<auth, pc, rotates, behind>>
    BY <1>3, AuthAssumption DEF QrLogin, Typed, TypeOK, history, Logins
  <2>2. \A o \in Operations : auth[o].token.login # n
    <3>1. \A o \in Operations : HasToken(auth[o]) => auth[o].token.login # n
      BY AuthAssumption DEF Typed, TypeOK, AllLegal, Legal, Logins
    <3>2. n # 0
      BY AuthAssumption DEF Typed, TypeOK, Logins
    <3> QED BY <3>1, <3>2, TokenFacts DEF HasToken
  <2> HIDE DEF n
  <2>3. NoneNewer' /\ RefreshTokenUsable'
    BY <2>1, <2>2, TokenFacts DEF NoneNewer, RefreshTokenUsable
  <2>4. rotates' => OnlyAnswered'
    BY <2>1, <2>2, TokenFacts DEF OnlyAnswered, Newest
  <2> QED BY <2>3, <2>4
<1> QED BY <1>1, <1>2, <1>3

\* The refresh token that is stored is one the server accepts.
THEOREM StoredTokenIsUsable == Spec => []RefreshTokenUsable
<1>1. Init => Tracked
  BY AuthAssumption DEF Init, Tracked, NoneNewer, OnlyAnswered, RefreshTokenUsable,
                        NoAuth, NoToken, HasToken, Logins
<1>2. Typed /\ Tracked /\ [Next]_vars => Tracked'
  <2> SUFFICES ASSUME Typed, Tracked, [Next]_vars PROVE Tracked'
    OBVIOUS
  <2>1. CASE \E o \in Transfers : Transfer(o)
    BY <2>1, ReadTracked, ServeTracked, WriteTracked DEF Transfer, Operations
  <2>2. CASE \E o \in Syncs : Sync(o)
    BY <2>2, ReadTracked, WriteTracked DEF Sync, Operations
  <2>3. CASE WebLogin \/ QrLogin \/ Logout \/ ClearJar \/ Expire
    BY <2>3, LoginTracked
  <2>4. CASE UNCHANGED vars
    BY <2>4 DEF vars, server, history, Tracked, NoneNewer, OnlyAnswered, Newest,
                RefreshTokenUsable, HasToken
  <2> QED BY <2>1, <2>2, <2>3, <2>4 DEF Next
<1> QED BY <1>1, <1>2, AlwaysTyped, PTL DEF Spec, Tracked

=============================================================================
