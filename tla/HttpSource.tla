---------------------------- MODULE HttpSource ----------------------------
(***************************************************************************)
(* The remote media source (rust/src/source/http_source.rs): the URL and   *)
(* headers that update_auth replaces while range requests are being built, *)
(* and the pool of clients pinned to the addresses of the URL's host.      *)
(*                                                                         *)
(* update_auth(u) brings URL u and headers u; 0 is what the session began  *)
(* with.  Each RwLock is taken and released on its own, so each access is  *)
(* an action.  The pool is represented by the URL whose host it was        *)
(* resolved for, with its size.                                            *)
(***************************************************************************)
EXTENDS Integers

CONSTANTS
    Fetchers,       \* threads in fetch_range or probe
    Updates,        \* number of update_auth calls (bound of the model)
    MaxFetches,     \* range requests sent (bound of the model)
    MaxRoutes       \* addresses kept per host (8 in the code)

ASSUME UpdatesAssumption == Updates \in Nat /\ MaxFetches \in Nat
ASSUME FetchersAssumption == "free" \notin Fetchers
ASSUME RoutesAssumption == MaxRoutes \in Nat \ {0}

VARIABLES
    url, headers,       \* which update they come from
    route_clients,      \* the pool: of which URL, how many clients (0: empty)
    next_route,         \* the round-robin counter
    route_init_lock,    \* fetcher that holds it, or "free"
    update,             \* the last update_auth: its number, what it does
                        \* next, and whether it brings headers
    pairs,              \* history: the URL and headers updates made a pair
    pc,                 \* fetcher -> where it is
    seen,               \* fetcher -> the URL and headers it has read
    began,              \* fetcher -> URL and headers when its request began
    route,              \* fetcher -> index of the client it picked; -1: the default one
    sent                \* number of requests sent

authVars == <<url, headers, route_clients, next_route, update, pairs>>
fetchVars == <<pc, seen, began, route, sent>>
vars == <<authVars, route_init_lock, fetchVars>>

-----------------------------------------------------------------------------
Versions == 0 .. Updates
NoRoutes == [of |-> 0, size |-> 0]

Init ==
    /\ url = 0 /\ headers = 0
    /\ route_clients = NoRoutes /\ next_route = 0
    /\ route_init_lock = "free"
    /\ pairs = {[url |-> 0, headers |-> 0]}
    /\ update = [number |-> 0, step |-> "none", headers |-> FALSE]
    /\ pc = [f \in Fetchers |-> "idle"]
    /\ seen = [f \in Fetchers |-> [url |-> 0, headers |-> 0]]
    /\ began = [f \in Fetchers |-> [url |-> 0, headers |-> 0]]
    /\ route = [f \in Fetchers |-> -1]
    /\ sent = 0

-----------------------------------------------------------------------------
(* update_auth: the URL, the pool, its counter, the headers.               *)

Fresh == update.number + 1
Pair(u, h) == [url |-> u, headers |-> h]

\* A URL comes, with headers or without.
UpdateUrl(with_headers) ==
    /\ update.step = "none" /\ update.number < Updates
    /\ url' = Fresh
    /\ pairs' = pairs \cup {Pair(Fresh, IF with_headers THEN Fresh ELSE headers)}
    /\ update' = [number |-> Fresh, step |-> "routes", headers |-> with_headers]
    /\ UNCHANGED <<headers, route_clients, next_route, route_init_lock, fetchVars>>

UpdateRoutes ==
    /\ update.step = "routes"
    /\ route_clients' = NoRoutes
    /\ update' = [update EXCEPT !.step = "counter"]
    /\ UNCHANGED <<url, headers, pairs, next_route, route_init_lock, fetchVars>>

UpdateCounter ==
    /\ update.step = "counter"
    /\ next_route' = 0
    /\ update' = [update EXCEPT !.step = IF update.headers THEN "headers"
                                         ELSE "none"]
    /\ UNCHANGED <<url, headers, pairs, route_clients, route_init_lock, fetchVars>>

UpdateHeaders ==
    /\ update.step = "headers"
    /\ headers' = update.number
    /\ update' = [update EXCEPT !.step = "none"]
    /\ UNCHANGED <<url, pairs, route_clients, next_route, route_init_lock, fetchVars>>

\* A blank URL leaves URL and pool alone.
UpdateHeadersOnly ==
    /\ update.step = "none" /\ update.number < Updates
    /\ headers' = Fresh
    /\ pairs' = pairs \cup {Pair(url, Fresh)}
    /\ update' = [number |-> Fresh, step |-> "none", headers |-> TRUE]
    /\ UNCHANGED <<url, route_clients, next_route, route_init_lock, fetchVars>>

-----------------------------------------------------------------------------
(* fetch_range.                                                            *)

Goto(f, step) == pc' = [pc EXCEPT ![f] = step]

\* The pool is empty: on to ensure_route_clients, else to pick_client.
Begin(f) ==
    /\ pc[f] = "idle" /\ sent < MaxFetches
    /\ began' = [began EXCEPT ![f] = Pair(url, headers)]
    /\ route' = [route EXCEPT ![f] = -1]
    /\ Goto(f, IF route_clients.size = 0 THEN "lock" ELSE "pick")
    /\ UNCHANGED <<authVars, route_init_lock, seen, sent>>

Lock(f) ==
    /\ pc[f] = "lock" /\ route_init_lock = "free"
    /\ route_init_lock' = f
    /\ Goto(f, "check")
    /\ UNCHANGED <<authVars, seen, began, route, sent>>

\* Mutant: no second look at the pool once the lock is held.
CheckAgain_Dropped(f) ==
    /\ pc[f] = "check"
    /\ seen' = [seen EXCEPT ![f].url = url]
    /\ Goto(f, "resolve")
    /\ UNCHANGED <<authVars, route_init_lock, began, route, sent>>

\* Another thread filled the pool meanwhile, or the URL to resolve is read.
CheckAgain(f) ==
    /\ pc[f] = "check"
    /\ IF route_clients.size = 0
       THEN /\ seen' = [seen EXCEPT ![f].url = url]
            /\ Goto(f, "resolve")
       ELSE /\ Goto(f, "unlock")
            /\ UNCHANGED seen
    /\ UNCHANGED <<authVars, route_init_lock, began, route, sent>>

\* The lookup answers with n addresses; none leaves the pool empty.
Resolve(f, n) ==
    /\ pc[f] = "resolve"
    /\ route_clients' = IF n = 0 THEN route_clients
                        ELSE [of |-> seen[f].url, size |-> n]
    /\ Goto(f, "unlock")
    /\ UNCHANGED <<url, headers, next_route, update, pairs, route_init_lock, seen,
                   began, route, sent>>

\* The guard is dropped, after a failed lookup too.
Unlock(f) ==
    /\ pc[f] = "unlock"
    /\ route_init_lock' = "free"
    /\ Goto(f, "pick")
    /\ UNCHANGED <<authVars, seen, began, route, sent>>

\* Round robin over the pool as it is now.  The counter wraps with usize, far
\* beyond the bound of the model.
PickClient(f) ==
    /\ pc[f] = "pick"
    /\ IF route_clients.size = 0
       THEN UNCHANGED <<route, next_route>>
       ELSE /\ route' = [route EXCEPT ![f] = next_route % route_clients.size]
            /\ next_route' = next_route + 1
    /\ Goto(f, "url")
    /\ UNCHANGED <<url, headers, route_clients, update, pairs, route_init_lock, seen,
                   began, sent>>

\* Mutant: the URL read for the lookup serves the request as well.
ReadUrl_FromLookup(f) ==
    /\ pc[f] = "url"
    /\ Goto(f, "headers")
    /\ UNCHANGED <<authVars, route_init_lock, seen, began, route, sent>>

ReadUrl(f) ==
    /\ pc[f] = "url"
    /\ seen' = [seen EXCEPT ![f].url = url]
    /\ Goto(f, "headers")
    /\ UNCHANGED <<authVars, route_init_lock, began, route, sent>>

ReadHeaders(f) ==
    /\ pc[f] = "headers"
    /\ seen' = [seen EXCEPT ![f].headers = headers]
    /\ Goto(f, "send")
    /\ UNCHANGED <<authVars, route_init_lock, began, route, sent>>

Send(f) ==
    /\ pc[f] = "send"
    /\ sent' = sent + 1
    /\ Goto(f, "idle")
    /\ UNCHANGED <<authVars, route_init_lock, seen, began, route>>

-----------------------------------------------------------------------------
UpdateAuth ==
    \/ \E with_headers \in BOOLEAN : UpdateUrl(with_headers)
    \/ UpdateRoutes \/ UpdateCounter \/ UpdateHeaders \/ UpdateHeadersOnly

FetchRange(f) ==
    \/ Begin(f) \/ Lock(f) \/ CheckAgain(f) \/ Unlock(f) \/ PickClient(f)
    \/ \E n \in 0 .. MaxRoutes : Resolve(f, n)
    \/ ReadUrl(f) \/ ReadHeaders(f) \/ Send(f)

\* The session is over.
Done ==
    /\ sent >= MaxFetches /\ \A f \in Fetchers : pc[f] = "idle"
    /\ update.number = Updates /\ update.step = "none"
    /\ UNCHANGED vars

Next == UpdateAuth \/ (\E f \in Fetchers : FetchRange(f)) \/ Done

Spec == Init /\ [][Next]_vars

-----------------------------------------------------------------------------
(* Properties.                                                             *)

Steps == {"idle", "lock", "check", "resolve", "unlock", "pick", "url", "headers", "send"}

\* Types; a thread past the pick holds an index into a pool of legal size.
TypeOK ==
    /\ url \in Versions /\ headers \in Versions
    /\ route_clients \in [of : Versions, size : 0 .. MaxRoutes]
    /\ next_route \in Nat
    /\ route_init_lock \in Fetchers \cup {"free"}
    /\ update \in [number : Versions, headers : BOOLEAN,
                   step : {"none", "routes", "counter", "headers"}]
    /\ pairs \subseteq [url : Versions, headers : Versions]
    /\ pc \in [Fetchers -> Steps]
    /\ seen \in [Fetchers -> [url : Versions, headers : Versions]]
    /\ began \in [Fetchers -> [url : Versions, headers : Versions]]
    /\ route \in [Fetchers -> -1 .. MaxRoutes - 1]
    /\ sent \in Nat

\* A request carries nothing older than what was there when it began, although
\* it may wait for the lock and the lookup in between (fetch_range).
NothingStale ==
    \A f \in Fetchers :
      pc[f] = "send" => /\ seen[f].url >= began[f].url
                        /\ seen[f].headers >= began[f].headers

\* Threads that find the pool empty together build it once: a pool in use is
\* replaced only after update_auth emptied it (ensure_route_clients).
BuiltOnce ==
    [][route_clients.size # 0 /\ route_clients' # route_clients
         => route_clients' = NoRoutes]_vars

\* What http_source.rs:43 and :55 say ("Update the URL and headers", "with the
\* current URL, custom headers"): a request carries URL and headers that were
\* current together.
RequestUntorn == \A f \in Fetchers : pc[f] = "send" => seen[f] \in pairs

=============================================================================
