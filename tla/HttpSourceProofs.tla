-------------------------- MODULE HttpSourceProofs --------------------------
(***************************************************************************)
(* Proofs about HttpSource, for any threads, any number of updates and any *)
(* size of the pool.                                                       *)
(***************************************************************************)
EXTENDS HttpSource, TLAPS

\* Any thread's step of fetch_range that leaves the pool and the lock alone.
Read(f) == PickClient(f) \/ ReadUrl(f) \/ ReadHeaders(f) \/ Send(f)

-----------------------------------------------------------------------------
(* Types.                                                                  *)

LEMMA TypeInit == Init => TypeOK
  BY UpdatesAssumption, RoutesAssumption DEF Init, TypeOK, Versions, Steps, NoRoutes

LEMMA UpdateTyped ==
  ASSUME TypeOK, UpdateAuth
  PROVE  TypeOK'
<1> USE UpdatesAssumption, RoutesAssumption DEF TypeOK, Versions, fetchVars, Fresh
<1>1. CASE \E with_headers \in BOOLEAN : UpdateUrl(with_headers)
  BY <1>1 DEF UpdateUrl, Pair
<1>2. CASE UpdateRoutes \/ UpdateCounter \/ UpdateHeaders
  BY <1>2 DEF UpdateRoutes, UpdateCounter, UpdateHeaders, NoRoutes
<1>3. CASE UpdateHeadersOnly
  BY <1>3 DEF UpdateHeadersOnly, Pair
<1> QED BY <1>1, <1>2, <1>3 DEF UpdateAuth

LEMMA FetchTyped ==
  ASSUME TypeOK, NEW f \in Fetchers, FetchRange(f)
  PROVE  TypeOK'
<1> USE UpdatesAssumption, RoutesAssumption, FetchersAssumption
    DEF TypeOK, Versions, Steps, authVars, Goto
<1> DEFINE Seen == [Fetchers -> [url : Versions, headers : Versions]]
<1>u. [seen EXCEPT ![f].url = url] \in Seen
  OBVIOUS
<1>h. [seen EXCEPT ![f].headers = headers] \in Seen
  OBVIOUS
<1>1. CASE Begin(f)
  BY <1>1 DEF Begin, Pair
<1>2. CASE Lock(f) \/ CheckAgain(f) \/ Unlock(f)
  <2>1. seen' \in Seen
    BY <1>2, <1>u DEF Lock, CheckAgain, Unlock
  <2> HIDE DEF Seen
  <2>2. CASE Lock(f) \/ Unlock(f)
    BY <2>2 DEF Lock, Unlock
  <2>3. CASE CheckAgain(f)
    <3>1. UNCHANGED <<authVars, route_init_lock, began, route, sent>>
          /\ pc' \in [Fetchers -> Steps]
      BY <2>3 DEF CheckAgain
    <3> QED BY <2>1, <3>1 DEF Seen
  <2> QED BY <1>2, <2>2, <2>3
<1>3. CASE PickClient(f)
  <2>1. CASE route_clients.size = 0
    BY <1>3, <2>1 DEF PickClient
  <2>2. CASE route_clients.size # 0
    <3>1. next_route % route_clients.size \in 0 .. route_clients.size - 1
      BY <2>2
    <3>2. next_route % route_clients.size \in -1 .. MaxRoutes - 1 /\ next_route + 1 \in Nat
      BY <3>1
    <3> QED BY <1>3, <2>2, <3>2 DEF PickClient
  <2> QED BY <2>1, <2>2
<1>4. CASE \E n \in 0 .. MaxRoutes : Resolve(f, n)
  BY <1>4 DEF Resolve
<1>5. CASE ReadUrl(f) \/ ReadHeaders(f) \/ Send(f)
  <2>1. seen' \in Seen
    BY <1>5, <1>u, <1>h DEF ReadUrl, ReadHeaders, Send
  <2>2. UNCHANGED <<authVars, route_init_lock, began, route>> /\ sent' \in {sent, sent + 1}
    BY <1>5 DEF ReadUrl, ReadHeaders, Send
  <2>3. pc' \in [Fetchers -> Steps]
    BY <1>5, SMTT(30) DEF ReadUrl, ReadHeaders, Send
  <2> QED BY <2>1, <2>2, <2>3
<1> QED BY <1>1, <1>2, <1>3, <1>4, <1>5 DEF FetchRange

LEMMA TypeStep == TypeOK /\ [Next]_vars => TypeOK'
<1> SUFFICES ASSUME TypeOK, [Next]_vars PROVE TypeOK'
  OBVIOUS
<1>1. CASE Done \/ UNCHANGED vars
  BY <1>1 DEF Done, TypeOK, vars, authVars, fetchVars
<1> QED BY <1>1, UpdateTyped, FetchTyped DEF Next

\* Types; in particular the index a request has picked is below the size a pool
\* may have (pick_client, next_route).
THEOREM TypesHold == Spec => []TypeOK
  BY TypeInit, TypeStep, PTL DEF Spec

-----------------------------------------------------------------------------
(* Nothing stale.                                                          *)

\* Updates only bring newer URLs and headers, and what a thread has read is
\* not older than what was there when it began.
Forward ==
    /\ url <= update.number /\ headers <= update.number
    /\ \A f \in Fetchers :
         /\ began[f].url <= url /\ began[f].headers <= headers
         /\ pc[f] \in {"headers", "send"} => seen[f].url >= began[f].url
         /\ pc[f] = "send" => seen[f].headers >= began[f].headers

LEMMA ForwardStep == TypeOK /\ Forward /\ [Next]_vars => Forward'
<1> SUFFICES ASSUME TypeOK, Forward, [Next]_vars PROVE Forward'
  OBVIOUS
<1> USE DEF TypeOK, Forward, Versions
<1>1. CASE UpdateAuth
  <2>1. /\ url <= url' /\ headers <= headers'
        /\ url' <= update'.number /\ headers' <= update'.number
        /\ url' \in Nat /\ headers' \in Nat
    BY <1>1, UpdatesAssumption
       DEF UpdateAuth, UpdateUrl, UpdateRoutes, UpdateCounter, UpdateHeaders,
           UpdateHeadersOnly, Fresh
  <2>2. UNCHANGED fetchVars
    BY <1>1 DEF UpdateAuth, UpdateUrl, UpdateRoutes, UpdateCounter, UpdateHeaders,
                UpdateHeadersOnly
  <2> QED BY <2>1, <2>2, UpdatesAssumption DEF fetchVars
<1>2. ASSUME NEW f \in Fetchers, Begin(f) PROVE Forward'
  <2>1. began'[f] = Pair(url, headers) /\ pc'[f] \notin {"headers", "send"}
    BY <1>2 DEF Begin, Goto
  <2> QED BY <1>2, <2>1 DEF Begin, Goto, authVars, Pair
<1>3. ASSUME NEW f \in Fetchers,
             \/ Lock(f) \/ CheckAgain(f) \/ Unlock(f)
             \/ \E n \in 0 .. MaxRoutes : Resolve(f, n)
      PROVE  Forward'
  BY <1>3 DEF Lock, CheckAgain, Unlock, Resolve, Goto, authVars
<1>4. ASSUME NEW f \in Fetchers, Read(f) PROVE Forward'
  BY <1>4 DEF Read, PickClient, ReadUrl, ReadHeaders, Send, Goto, authVars
<1>5. CASE Done \/ UNCHANGED vars
  BY <1>5 DEF Done, vars, authVars, fetchVars
<1> QED BY <1>1, <1>2, <1>3, <1>4, <1>5 DEF Next, FetchRange, Read

\* A request carries no URL and no headers older than those in force when it
\* began, however long it waits in between.
THEOREM RequestsAreFresh == Spec => []NothingStale
<1>1. Init => Forward
  BY DEF Init, Forward
<1>2. Forward => NothingStale
  BY DEF Forward, NothingStale
<1> QED BY <1>1, <1>2, TypeInit, TypeStep, ForwardStep, PTL DEF Spec

-----------------------------------------------------------------------------
(* The pool is built once.                                                 *)

\* Who is in ensure_route_clients past the lock holds it, and resolves only
\* for an empty pool.
LockHeld ==
    \A f \in Fetchers :
      /\ pc[f] \in {"check", "resolve", "unlock"} => route_init_lock = f
      /\ pc[f] = "resolve" => route_clients.size = 0

LEMMA LockStep == TypeOK /\ LockHeld /\ [Next]_vars => LockHeld'
<1> SUFFICES ASSUME TypeOK, LockHeld, [Next]_vars PROVE LockHeld'
  OBVIOUS
<1> USE FetchersAssumption DEF TypeOK, LockHeld
<1>1. CASE UpdateAuth
  BY <1>1 DEF UpdateAuth, UpdateUrl, UpdateRoutes, UpdateCounter, UpdateHeaders,
              UpdateHeadersOnly, NoRoutes, fetchVars
<1>2. ASSUME NEW f \in Fetchers,
             Begin(f) \/ Lock(f) \/ CheckAgain(f) \/ Unlock(f) \/ Read(f)
      PROVE  LockHeld'
  BY <1>2 DEF Begin, Lock, CheckAgain, Unlock, Read, PickClient, ReadUrl, ReadHeaders, Send,
              Goto, authVars
<1>3. ASSUME NEW f \in Fetchers, NEW n \in 0 .. MaxRoutes, Resolve(f, n)
      PROVE  LockHeld'
  BY <1>3 DEF Resolve, Goto
<1>4. CASE Done \/ UNCHANGED vars
  BY <1>4 DEF Done, vars, authVars, fetchVars
<1> QED BY <1>1, <1>2, <1>3, <1>4 DEF Next, FetchRange, Read

\* A pool in use is replaced only after update_auth has emptied it, however
\* many threads find it empty together.
THEOREM PoolIsBuiltOnce == Spec => BuiltOnce
<1>1. Init => LockHeld
  BY DEF Init, LockHeld
<1>2. LockHeld /\ [Next]_vars =>
        (route_clients.size # 0 /\ route_clients' # route_clients => route_clients' = NoRoutes)
  BY DEF LockHeld, Next, UpdateAuth, UpdateUrl, UpdateRoutes, UpdateCounter, UpdateHeaders,
         UpdateHeadersOnly, FetchRange, Begin, Lock, CheckAgain, Unlock, PickClient, Resolve,
         ReadUrl, ReadHeaders, Send, Done, vars, authVars
<1> QED BY <1>1, <1>2, TypeInit, TypeStep, LockStep, PTL DEF Spec, BuiltOnce

=============================================================================
