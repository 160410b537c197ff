---------------------------- MODULE ProxyEngine ----------------------------
(***************************************************************************)
(* The engine behind the proxy API: the session map                        *)
(* (rust/src/api/proxy_api.rs), the sessions and what keeps them alive     *)
(* (rust/src/engine/session.rs), and the cache files they map              *)
(* (rust/src/engine/cache.rs).                                             *)
(*                                                                         *)
(* Dart calls the API synchronously from one isolate, so at most one call  *)
(* runs; create_session is cut where it reads or writes something the      *)
(* runtime's threads share.  HTTP streams, download tasks and the warmup   *)
(* task run beside it and outlive the map entry of their session.          *)
(*                                                                         *)
(* A file is named after the session id, so two successive sessions of one *)
(* id meet in the directory.  An inode is named after the session that     *)
(* created it.  Retries and the two lanes of the downloader are in module  *)
(* Downloader; here a download is one chunk being fetched, then written.   *)
(***************************************************************************)
EXTENDS Integers, FiniteSets

CONSTANTS
    Ids,        \* session ids (one per media file)
    Sessions,   \* the ProxySession objects ever built; finite in a TLC run
    Streams,    \* response bodies being served
    Chunks,     \* chunks of a file
    None        \* no session, no file

ASSUME SessionsAssumption == None \notin Sessions

VARIABLES
    engine,     \* the ENGINE singleton is initialised
    sessions,   \* the session map: id -> session or None
    api,        \* the running create_session: step, id and session
    stage,      \* session -> life stage
    ident,      \* session -> its session_id
    file,       \* session -> the inode it maps
    shut,       \* sessions whose downloader was shut down
    bitmap,     \* session -> chunks marked complete
    work,       \* session -> chunk -> what its download does
    warmup,     \* sessions whose warmup task still runs
    holder,     \* stream -> the session it holds an Arc of
    got,        \* stream -> what its last read returned
    dir,        \* id -> inode under the name <id>.cache
    disk,       \* inode -> chunks whose bytes are in the file
    short       \* inodes truncated and not yet extended by set_len

apiVars == <<engine, sessions, api>>
objVars == <<stage, ident, file, shut, warmup>>
dlVars  == <<bitmap, work>>
strVars == <<holder, got>>
fsVars  == <<dir, disk, short>>
vars == <<apiVars, objVars, dlVars, strVars, fsVars>>

-----------------------------------------------------------------------------
Idle == [step |-> "idle", id |-> None, new |-> None]

\* "opened": DiskCache::new has opened the file; "alive": the session exists;
\* "dropped": ProxySession::drop ran, tasks may still hold the cache;
\* "freed": DiskCache::drop ran; "failed": the file could not be mapped;
\* "killed": the process died with it.
Stages == {"unborn", "opened", "alive", "dropped", "freed", "failed", "killed"}
Working == {"fetching", "writing", "marking"}

Mapped(s) == stage[s] \in {"alive", "dropped"}
InMap(s) == \E id \in Ids : sessions[id] = s
Busy(s) == \E c \in Chunks : work[s][c] # "idle"

Init ==
    /\ engine = FALSE
    /\ sessions = [id \in Ids |-> None]
    /\ api = Idle
    /\ stage = [s \in Sessions |-> "unborn"]
    /\ ident = [s \in Sessions |-> None]
    /\ file = [s \in Sessions |-> None]
    /\ shut = {} /\ warmup = {}
    /\ bitmap = [s \in Sessions |-> {}]
    /\ work = [s \in Sessions |-> [c \in Chunks |-> "idle"]]
    /\ holder = [p \in Streams |-> None]
    /\ got = [p \in Streams |-> "nothing"]
    /\ dir = [id \in Ids |-> None]
    /\ disk = [s \in Sessions |-> {}]
    /\ short = {}

-----------------------------------------------------------------------------
(* The API.                                                                *)

InitEngine ==
    /\ ~engine /\ api = Idle
    /\ engine' = TRUE
    /\ UNCHANGED <<sessions, api, objVars, dlVars, strVars, fsVars>>

\* Mutant: an existing session is replaced in place, without a clear.
CreateLookup_Replaces(id) ==
    /\ engine /\ api = Idle
    /\ api' = [Idle EXCEPT !.step = "probe", !.id = id]
    /\ UNCHANGED <<engine, sessions, objVars, dlVars, strVars, fsVars>>

\* create_session up to the map lookup: an existing session is returned as
\* it is, otherwise the call goes on to clear the map.
CreateLookup(id) ==
    /\ engine /\ api = Idle
    /\ sessions[id] = None
    /\ api' = [Idle EXCEPT !.step = "clear", !.id = id]
    /\ UNCHANGED <<engine, sessions, objVars, dlVars, strVars, fsVars>>

\* Mutant: the map is cleared and dropping the sessions is trusted to stop
\* their downloads.
CreateClear_NoShutdown ==
    /\ api.step = "clear"
    /\ sessions' = [id \in Ids |-> None]
    /\ api' = [api EXCEPT !.step = "probe"]
    /\ UNCHANGED <<engine, objVars, dlVars, strVars, fsVars>>

\* Mutant: only the session that is replaced is cleared.
CreateClear_SameId ==
    /\ api.step = "clear"
    /\ shut' = shut \cup ({sessions[api.id]} \ {None})
    /\ sessions' = [sessions EXCEPT ![api.id] = None]
    /\ api' = [api EXCEPT !.step = "probe"]
    /\ UNCHANGED <<engine, stage, ident, file, warmup, dlVars, strVars, fsVars>>

\* Shutdown every downloader, then clear the map, under one write lock.
CreateClear ==
    /\ api.step = "clear"
    /\ shut' = shut \cup {s \in Sessions : InMap(s)}
    /\ sessions' = [id \in Ids |-> None]
    /\ api' = [api EXCEPT !.step = "probe"]
    /\ UNCHANGED <<engine, stage, ident, file, warmup, dlVars, strVars, fsVars>>

\* The probe fails, or finds an empty file or no range support.
CreateProbeFails ==
    /\ api.step = "probe"
    /\ api' = Idle
    /\ UNCHANGED <<engine, sessions, objVars, dlVars, strVars, fsVars>>

\* DiskCache::new opens the file, creating it or truncating what is there.
CreateOpen(s) ==
    /\ api.step = "probe"
    /\ stage[s] = "unborn"
    /\ LET f == IF dir[api.id] = None THEN s ELSE dir[api.id] IN
         /\ file' = [file EXCEPT ![s] = f]
         /\ dir' = [dir EXCEPT ![api.id] = f]
         /\ disk' = [disk EXCEPT ![f] = {}]
         /\ short' = short \cup {f}
    /\ stage' = [stage EXCEPT ![s] = "opened"]
    /\ ident' = [ident EXCEPT ![s] = api.id]
    /\ api' = [api EXCEPT !.step = "map", !.new = s]
    /\ UNCHANGED <<engine, sessions, shut, warmup, dlVars, strVars>>

\* set_len, mmap, then the rest of ProxySession::new, which cannot fail: the
\* downloader exists and the warmup task is spawned.
CreateMap ==
    /\ api.step = "map"
    /\ short' = short \ {file[api.new]}
    /\ stage' = [stage EXCEPT ![api.new] = "alive"]
    /\ warmup' = warmup \cup {api.new}
    /\ api' = [api EXCEPT !.step = "insert"]
    /\ UNCHANGED <<engine, sessions, ident, file, shut, dlVars, strVars, dir,
                   disk>>

\* mmap fails, or set_len before it, which leaves the file as the truncation has: no
\* DiskCache exists to delete it.
CreateMapFails ==
    /\ api.step = "map"
    /\ short' \in {short, short \ {file[api.new]}}
    /\ stage' = [stage EXCEPT ![api.new] = "failed"]
    /\ api' = Idle
    /\ UNCHANGED <<engine, sessions, ident, file, shut, warmup, dlVars, strVars,
                   dir, disk>>

CreateInsert ==
    /\ api.step = "insert"
    /\ sessions' = [sessions EXCEPT ![api.id] = api.new]
    /\ api' = Idle
    /\ UNCHANGED <<engine, objVars, dlVars, strVars, fsVars>>

CloseSession(id) ==
    /\ engine /\ api = Idle
    /\ sessions[id] # None
    /\ shut' = shut \cup {sessions[id]}
    /\ sessions' = [sessions EXCEPT ![id] = None]
    /\ UNCHANGED <<engine, api, stage, ident, file, warmup, dlVars, strVars,
                   fsVars>>

\* dispose drops the runtime and with it every task: when it returns, every
\* session and every cache is dropped and their files are deleted.
Dispose ==
    /\ engine /\ api = Idle
    /\ engine' = FALSE
    /\ sessions' = [id \in Ids |-> None]
    /\ shut' = shut \cup {s \in Sessions : Mapped(s)}
    /\ stage' = [s \in Sessions |-> IF Mapped(s) THEN "freed" ELSE stage[s]]
    /\ dir' = [id \in Ids |-> IF \E s \in Sessions : Mapped(s) /\ ident[s] = id
                              THEN None ELSE dir[id]]
    /\ work' = [s \in Sessions |-> [c \in Chunks |-> "idle"]]
    /\ holder' = [p \in Streams |-> None]
    /\ got' = [p \in Streams |-> "nothing"]
    /\ warmup' = {}
    /\ UNCHANGED <<api, ident, file, bitmap, disk, short>>

-----------------------------------------------------------------------------
(* The runtime's threads.                                                  *)

\* The process dies, by a fault or because the system stops the application:
\* only the cache directory is left.  The next one starts with InitEngine.
Die ==
    /\ engine' = FALSE
    /\ sessions' = [id \in Ids |-> None]
    /\ api' = Idle
    /\ stage' = [s \in Sessions |-> IF stage[s] \in {"opened", "alive", "dropped"}
                                    THEN "killed" ELSE stage[s]]
    /\ work' = [s \in Sessions |-> [c \in Chunks |-> "idle"]]
    /\ holder' = [p \in Streams |-> None]
    /\ got' = [p \in Streams |-> "nothing"]
    /\ warmup' = {} /\ short' = {}
    /\ UNCHANGED <<ident, file, shut, bitmap, dir, disk>>

\* A request finds the session and its stream task clones the Arc.
OpenStream(p, id) ==
    /\ engine
    /\ holder[p] = None /\ sessions[id] # None
    /\ holder' = [holder EXCEPT ![p] = sessions[id]]
    /\ got' = [got EXCEPT ![p] = "nothing"]
    /\ UNCHANGED <<apiVars, objVars, dlVars, fsVars>>

\* What a read of chunk c through the mapping of f sees.
Bytes(f, c) == IF c \in disk[f] THEN "data" ELSE "zeros"

\* The stream copies a complete chunk out of the mapping.  A mapped page past
\* the end of its file faults, which is Die.
ReadChunk(p, c) ==
    /\ holder[p] # None
    /\ c \in bitmap[holder[p]] /\ file[holder[p]] \notin short
    /\ got' = [got EXCEPT ![p] = Bytes(file[holder[p]], c)]
    /\ UNCHANGED <<apiVars, objVars, dlVars, holder, fsVars>>

\* All sent, a chunk failed, or the player hung up.
CloseStream(p) ==
    /\ holder[p] # None
    /\ holder' = [holder EXCEPT ![p] = None]
    /\ got' = [got EXCEPT ![p] = "nothing"]
    /\ UNCHANGED <<apiVars, objVars, dlVars, fsVars>>

\* A download is claimed: from here to its last answer its task holds an Arc
\* of the cache.
StartFetch(s, c) ==
    /\ stage[s] = "alive" /\ s \notin shut
    /\ c \notin bitmap[s] /\ work[s][c] = "idle"
    /\ work' = [work EXCEPT ![s][c] = "fetching"]
    /\ UNCHANGED <<apiVars, objVars, bitmap, strVars, fsVars>>

\* The answer arrives and the token is not cancelled.
FetchOk(s, c) ==
    /\ work[s][c] = "fetching" /\ s \notin shut
    /\ work' = [work EXCEPT ![s][c] = "writing"]
    /\ UNCHANGED <<apiVars, objVars, bitmap, strVars, fsVars>>

\* The fetch fails, or answers after shutdown cancelled the token.
FetchDropped(s, c) ==
    /\ work[s][c] = "fetching"
    /\ work' = [work EXCEPT ![s][c] = "idle"]
    /\ UNCHANGED <<apiVars, objVars, bitmap, strVars, fsVars>>

\* put_chunk copies the data into the mapping, with the same fault.
WriteChunk(s, c) ==
    /\ work[s][c] = "writing" /\ file[s] \notin short
    /\ disk' = [disk EXCEPT ![file[s]] = @ \cup {c}]
    /\ work' = [work EXCEPT ![s][c] = "marking"]
    /\ UNCHANGED <<apiVars, objVars, bitmap, strVars, dir, short>>

\* put_chunk sets the bit.
MarkChunk(s, c) ==
    /\ work[s][c] = "marking"
    /\ bitmap' = [bitmap EXCEPT ![s] = @ \cup {c}]
    /\ work' = [work EXCEPT ![s][c] = "idle"]
    /\ UNCHANGED <<apiVars, objVars, strVars, fsVars>>

EndWarmup(s) ==
    /\ s \in warmup
    /\ warmup' = warmup \ {s}
    /\ UNCHANGED <<apiVars, stage, ident, file, shut, dlVars, strVars, fsVars>>

\* The last Arc of the session goes: neither the map, nor create_session, nor
\* a stream holds one.
DropSession(s) ==
    /\ stage[s] = "alive"
    /\ ~InMap(s) /\ api.new # s
    /\ \A p \in Streams : holder[p] # s
    /\ stage' = [stage EXCEPT ![s] = "dropped"]
    /\ shut' = shut \cup {s}
    /\ UNCHANGED <<apiVars, ident, file, warmup, dlVars, strVars, fsVars>>

\* Mutant: no Drop for DiskCache.
DropCache_KeepsFile(s) ==
    /\ stage[s] = "dropped"
    /\ ~Busy(s) /\ s \notin warmup
    /\ stage' = [stage EXCEPT ![s] = "freed"]
    /\ UNCHANGED <<apiVars, ident, file, shut, warmup, dlVars, strVars, fsVars>>

\* The last Arc of the cache goes.  DiskCache::drop removes whatever file now
\* has its name.
DropCache(s) ==
    /\ stage[s] = "dropped"
    /\ ~Busy(s) /\ s \notin warmup
    /\ stage' = [stage EXCEPT ![s] = "freed"]
    /\ dir' = [dir EXCEPT ![ident[s]] = None]
    /\ UNCHANGED <<apiVars, ident, file, shut, warmup, dlVars, strVars, disk,
                   short>>

-----------------------------------------------------------------------------
Api ==
    \/ InitEngine \/ Dispose
    \/ \E id \in Ids : CreateLookup(id) \/ CloseSession(id)
    \/ CreateClear \/ CreateProbeFails \/ CreateMap \/ CreateMapFails
    \/ CreateInsert
    \/ \E s \in Sessions : CreateOpen(s)

Runtime ==
    \/ \E p \in Streams :
         \/ \E id \in Ids : OpenStream(p, id)
         \/ \E c \in Chunks : ReadChunk(p, c)
         \/ CloseStream(p)
    \/ \E s \in Sessions :
         \/ \E c \in Chunks : \/ StartFetch(s, c) \/ FetchOk(s, c)
                              \/ FetchDropped(s, c) \/ WriteChunk(s, c)
                              \/ MarkChunk(s, c)
         \/ EndWarmup(s) \/ DropSession(s) \/ DropCache(s)

Next == Api \/ Runtime \/ Die

Spec == Init /\ [][Next]_vars

-----------------------------------------------------------------------------
(* Properties.                                                             *)

\* Types: every program counter is one of its steps, a session that maps a
\* file has an id and an inode, and only a running create_session names an id.
TypeOK ==
    /\ engine \in BOOLEAN
    /\ sessions \in [Ids -> Sessions \cup {None}]
    /\ api \in [step : {"idle", "clear", "probe", "map", "insert"},
                id : Ids \cup {None}, new : Sessions \cup {None}]
    /\ IF api.step = "idle" THEN api = Idle ELSE api.id \in Ids
    /\ (api.step \in {"map", "insert"}) <=> (api.new # None)
    /\ stage \in [Sessions -> Stages]
    /\ ident \in [Sessions -> Ids \cup {None}]
    /\ file \in [Sessions -> Sessions \cup {None}]
    /\ shut \in SUBSET Sessions /\ warmup \in SUBSET Sessions
    /\ bitmap \in [Sessions -> SUBSET Chunks]
    /\ work \in [Sessions -> [Chunks -> Working \cup {"idle"}]]
    /\ holder \in [Streams -> Sessions \cup {None}]
    /\ got \in [Streams -> {"nothing", "data", "zeros"}]
    /\ dir \in [Ids -> Sessions \cup {None}]
    /\ disk \in [Sessions -> SUBSET Chunks]
    /\ short \in SUBSET Sessions

\* "Otherwise clears previous sessions and creates a new one": whatever create,
\* close and dispose do in turn, failures included, the map never holds two
\* sessions (create_session).
OneSession == Cardinality({id \in Ids : sessions[id] # None}) <= 1

\* A session that left the map downloads nothing new, however long streams of
\* the old player keep it alive (create_session, close_session, Drop).
OrphansAreShut ==
    \A s \in Sessions :
      stage[s] \in {"alive", "dropped"} /\ ~InMap(s) /\ api.new # s
        => s \in shut

\* No leftover of an earlier session takes data from under a session the map
\* still offers: its marked chunks are in the file it maps (DiskCache, create_session).
\* The directory is another matter: DropCache removes that file's entry by its name.
LiveSessionIntact ==
    \A s \in Sessions :
      InMap(s) => bitmap[s] \subseteq disk[file[s]] /\ file[s] \notin short

\* A cache file on disk is some living session's file, or what a failed
\* DiskCache::new or a dead process left behind; drops in any order leave no
\* other file.
FilesOwned ==
    \A id \in Ids :
      dir[id] # None =>
        \E s \in Sessions : /\ ident[s] = id /\ file[s] = dir[id]
                            /\ stage[s] \notin {"unborn", "freed"}

\* What the comment at proxy_api.rs:173-176 promises of the explicit shutdown ("so that
\* all in-flight workers release their Arc<DiskCache> (and mmap) before DiskCache::new
\* truncates the file"): no worker of an earlier session maps it then.
WorkersReleased ==
    api.step = "map" =>
      \A s \in Sessions : Busy(s) => file[s] # file[api.new]

\* What read_range promises ("Returns `None` if any chunk overlapping the range
\* is missing"): the bytes a stream copies out were downloaded.
ReadsAreDownloads == \A p \in Streams : got[p] # "zeros"

=============================================================================
