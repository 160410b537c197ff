------------------------- MODULE ProxyEngineProofs -------------------------
(***************************************************************************)
(* Proofs about ProxyEngine, for any media, sessions, streams and chunks.  *)
(***************************************************************************)
EXTENDS ProxyEngine, FiniteSetTheorems, TLAPS

-----------------------------------------------------------------------------
(* Types.                                                                  *)

LEMMA TypeInit == Init => TypeOK
<1> SUFFICES ASSUME Init PROVE TypeOK
  OBVIOUS
<1>1. work \in [Sessions -> [Chunks -> Working \cup {"idle"}]]
  BY DEF Init
<1>2. api = Idle /\ Idle.step = "idle" /\ Idle.id = None /\ Idle.new = None
      /\ api \in [step : {"idle", "clear", "probe", "map", "insert"},
                  id : Ids \cup {None}, new : Sessions \cup {None}]
  BY DEF Init, Idle
<1> QED BY <1>1, <1>2 DEF Init, TypeOK, Stages

\* The calls of create_session.
LEMMA CreateTyped ==
  ASSUME TypeOK,
         \/ \E id \in Ids : CreateLookup(id)
         \/ CreateClear \/ CreateProbeFails \/ CreateMap \/ CreateMapFails \/ CreateInsert
         \/ \E s \in Sessions : CreateOpen(s)
  PROVE  TypeOK'
<1> DEFINE Apis == [step : {"idle", "clear", "probe", "map", "insert"},
                    id : Ids \cup {None}, new : Sessions \cup {None}]
<1> USE SessionsAssumption
    DEF TypeOK, Idle, Stages, apiVars, objVars, dlVars, strVars, fsVars
<1>1. CASE \E id \in Ids : CreateLookup(id)
  <2> PICK id \in Ids : CreateLookup(id)
    BY <1>1
  <2>1. api' = [step |-> "clear", id |-> id, new |-> None]
    BY DEF CreateLookup
  <2>2. UNCHANGED <<engine, sessions, objVars, dlVars, strVars, fsVars>>
    BY DEF CreateLookup
  <2> QED BY <2>1, <2>2
<1>2. CASE CreateClear \/ CreateProbeFails
  BY <1>2 DEF CreateClear, CreateProbeFails
<1>3. CASE \E s \in Sessions : CreateOpen(s)
  <2> PICK s \in Sessions : CreateOpen(s)
    BY <1>3
  <2>1. api.id \in Ids
    BY DEF CreateOpen
  <2> DEFINE f == IF dir[api.id] = None THEN s ELSE dir[api.id]
  <2>2. /\ file' = [file EXCEPT ![s] = f] /\ dir' = [dir EXCEPT ![api.id] = f]
        /\ disk' = [disk EXCEPT ![f] = {}] /\ short' = short \cup {f}
        /\ stage' = [stage EXCEPT ![s] = "opened"] /\ ident' = [ident EXCEPT ![s] = api.id]
        /\ api' = [api EXCEPT !.step = "map", !.new = s]
        /\ UNCHANGED <<engine, sessions, shut, warmup, dlVars, strVars>>
    BY DEF CreateOpen
  <2>3. f \in Sessions
    BY <2>1
  <2> HIDE DEF f
  <2>4. /\ file' \in [Sessions -> Sessions \cup {None}] /\ dir' \in [Ids -> Sessions \cup {None}]
        /\ disk' \in [Sessions -> SUBSET Chunks] /\ short' \in SUBSET Sessions
    BY <2>2, <2>3
  <2>5. /\ stage' \in [Sessions -> Stages] /\ ident' \in [Sessions -> Ids \cup {None}]
    BY <2>1, <2>2
  <2> QED BY <2>1, <2>2, <2>4, <2>5
<1>4. CASE CreateMap \/ CreateMapFails
  <2>1. api.new \in Sessions
    BY <1>4 DEF CreateMap, CreateMapFails
  <2>2. stage' \in [Sessions -> Stages]
    BY <1>4 DEF CreateMap, CreateMapFails
  <2>3. CASE CreateMap
    <3>1. api' \in Apis /\ api'.step = "insert" /\ api'.id = api.id /\ api'.new = api.new
          /\ api.id \in Ids
      BY <2>3 DEF CreateMap
    <3>2. /\ short' \in SUBSET Sessions /\ warmup' \in SUBSET Sessions
          /\ UNCHANGED <<engine, sessions, ident, file, shut, dlVars, strVars, dir, disk>>
      BY <2>1, <2>3 DEF CreateMap
    <3> QED BY <2>1, <2>2, <3>1, <3>2
  <2>4. CASE CreateMapFails
    BY <2>1, <2>2, <2>4 DEF CreateMapFails
  <2> QED BY <1>4, <2>3, <2>4
<1>5. CASE CreateInsert
  BY <1>5 DEF CreateInsert
<1> QED BY <1>1, <1>2, <1>3, <1>4, <1>5

\* The other calls of the API, and the death of the process.
LEMMA EndTyped ==
  ASSUME TypeOK,
         InitEngine \/ Dispose \/ Die \/ \E id \in Ids : CloseSession(id)
  PROVE  TypeOK'
<1> USE SessionsAssumption
    DEF TypeOK, Idle, apiVars, objVars, dlVars, strVars, fsVars
<1>1. CASE InitEngine
  BY <1>1 DEF InitEngine
<1>2. CASE \E id \in Ids : CloseSession(id)
  BY <1>2 DEF CloseSession
<1>3. [s \in Sessions |-> [c \in Chunks |-> "idle"]]
        \in [Sessions -> [Chunks -> Working \cup {"idle"}]]
  OBVIOUS
<1>4. CASE Dispose
  <2>1. stage' \in [Sessions -> Stages]
    BY <1>4 DEF Dispose, Stages
  <2> QED BY <1>3, <1>4, <2>1 DEF Dispose
<1>5. CASE Die
  <2>1. stage' \in [Sessions -> Stages]
    BY <1>5 DEF Die, Stages
  <2> QED BY <1>3, <1>5, <2>1 DEF Die
<1> QED BY <1>1, <1>2, <1>4, <1>5

LEMMA RuntimeTyped ==
  ASSUME TypeOK, Runtime
  PROVE  TypeOK'
<1> USE SessionsAssumption
    DEF TypeOK, apiVars, objVars, dlVars, strVars, fsVars
<1>1. ASSUME NEW p \in Streams, \E id \in Ids : OpenStream(p, id) PROVE TypeOK'
  BY <1>1 DEF OpenStream
<1>2. ASSUME NEW p \in Streams,
             (\E c \in Chunks : ReadChunk(p, c)) \/ CloseStream(p)
      PROVE  TypeOK'
  BY <1>2 DEF ReadChunk, CloseStream, Bytes
<1>3. ASSUME NEW s \in Sessions, NEW c \in Chunks,
             \/ StartFetch(s, c) \/ FetchOk(s, c) \/ FetchDropped(s, c)
             \/ WriteChunk(s, c) \/ MarkChunk(s, c)
      PROVE  TypeOK'
  <2>1. work' \in [Sessions -> [Chunks -> Working \cup {"idle"}]]
    <3>1. ASSUME NEW v \in Working \cup {"idle"}
          PROVE  [work EXCEPT ![s][c] = v] \in [Sessions -> [Chunks -> Working \cup {"idle"}]]
      OBVIOUS
    <3>2. \E v \in Working \cup {"idle"} : work' = [work EXCEPT ![s][c] = v]
      BY <1>3 DEF StartFetch, FetchOk, FetchDropped, WriteChunk, MarkChunk, Working
    <3> QED BY <3>1, <3>2
  <2>2. CASE StartFetch(s, c) \/ FetchOk(s, c) \/ FetchDropped(s, c)
    BY <2>1, <2>2 DEF StartFetch, FetchOk, FetchDropped
  <2>3. CASE WriteChunk(s, c)
    <3>1. disk' \in [Sessions -> SUBSET Chunks]
      BY <2>3 DEF WriteChunk
    <3>2. UNCHANGED <<apiVars, objVars, bitmap, strVars, dir, short>>
      BY <2>3 DEF WriteChunk
    <3> QED BY <2>1, <3>1, <3>2
  <2>4. CASE MarkChunk(s, c)
    BY <2>1, <2>4 DEF MarkChunk
  <2> QED BY <1>3, <2>2, <2>3, <2>4
<1>4. ASSUME NEW s \in Sessions, EndWarmup(s) \/ DropSession(s) \/ DropCache(s)
      PROVE  TypeOK'
  <2>1. CASE EndWarmup(s)
    BY <2>1 DEF EndWarmup
  <2>2. CASE DropSession(s)
    <3>1. stage' \in [Sessions -> Stages]
      BY <2>2 DEF DropSession, Stages
    <3> QED BY <2>2, <3>1 DEF DropSession
  <2>3. CASE DropCache(s)
    <3>1. stage' \in [Sessions -> Stages]
      BY <2>3 DEF DropCache, Stages
    <3> QED BY <2>3, <3>1 DEF DropCache
  <2> QED BY <1>4, <2>1, <2>2, <2>3
<1> QED BY <1>1, <1>2, <1>3, <1>4 DEF Runtime

LEMMA TypeStep == TypeOK /\ [Next]_vars => TypeOK'
<1> SUFFICES ASSUME TypeOK, [Next]_vars PROVE TypeOK'
  OBVIOUS
<1>1. CASE UNCHANGED vars
  BY <1>1 DEF vars, apiVars, objVars, dlVars, strVars, fsVars, TypeOK
<1> QED BY <1>1, CreateTyped, EndTyped, RuntimeTyped DEF Next, Api

\* Types; only a create_session that runs has an id, and a session once it has
\* opened its file.
THEOREM TypesHold == Spec => []TypeOK
  BY TypeInit, TypeStep, PTL DEF Spec

-----------------------------------------------------------------------------
(* The session map.                                                        *)

\* What a step of create_session that ends or begins it leaves in api.
LEMMA IdleFacts ==
  /\ Idle.step = "idle" /\ Idle.new = None
  /\ \A id : [Idle EXCEPT !.step = "clear", !.id = id].step = "clear"
  /\ \A id : [Idle EXCEPT !.step = "clear", !.id = id].new = None
  BY DEF Idle

\* One download moves to step v.
LEMMA WorkMoves ==
  ASSUME TypeOK, NEW s \in Sessions, NEW c \in Chunks, NEW v,
         work' = [work EXCEPT ![s][c] = v]
  PROVE  \A r \in Sessions, d \in Chunks :
           work'[r][d] = IF r = s /\ d = c THEN v ELSE work[r][d]
<1>1. work \in [Sessions -> [Chunks -> Working \cup {"idle"}]]
  BY DEF TypeOK
<1>2. work' = [work EXCEPT ![s] = [work[s] EXCEPT ![c] = v]]
  OBVIOUS
<1>3. work'[s] = [work[s] EXCEPT ![c] = v] /\ \A r \in Sessions \ {s} : work'[r] = work[r]
  BY <1>1, <1>2
<1> QED BY <1>1, <1>3

\* From the clear of create_session to its insert the map is empty.
EmptyMeanwhile == api.step \in {"probe", "map", "insert"} => \A id \in Ids : sessions[id] = None

AtMostOne == \A i, j \in Ids : sessions[i] # None /\ sessions[j] # None => i = j

MapInv == EmptyMeanwhile /\ AtMostOne /\ OrphansAreShut

LEMMA MapStep == TypeOK /\ MapInv /\ [Next]_vars => MapInv'
<1> SUFFICES ASSUME TypeOK, MapInv, [Next]_vars PROVE MapInv'
  OBVIOUS
<1> USE SessionsAssumption DEF MapInv, EmptyMeanwhile, AtMostOne, OrphansAreShut, InMap
<1>1. CASE InitEngine \/ (\E id \in Ids : CreateLookup(id)) \/ CreateProbeFails
  <2>1. /\ api'.step \in {"idle", "clear"} /\ api.new = None /\ api'.new = None
        /\ UNCHANGED <<sessions, objVars>>
    BY <1>1, IdleFacts DEF InitEngine, CreateLookup, CreateProbeFails, TypeOK
  <2> QED BY <2>1 DEF objVars
<1>2. CASE CreateClear
  BY <1>2 DEF CreateClear, TypeOK
<1>3. CASE \E s \in Sessions : CreateOpen(s)
  BY <1>3 DEF CreateOpen, TypeOK, Stages
<1>4. CASE CreateMap \/ CreateMapFails
  <2>1. /\ \A id \in Ids : sessions[id] = None
        /\ UNCHANGED <<sessions, shut>>
    BY <1>4 DEF CreateMap, CreateMapFails
  <2>2. api.new \in Sessions /\ \A s \in Sessions \ {api.new} : stage'[s] = stage[s]
    BY <1>4 DEF CreateMap, CreateMapFails, TypeOK
  <2>3. \/ api' = [api EXCEPT !.step = "insert"]
        \/ api' = Idle /\ stage'[api.new] = "failed"
    BY <1>4, <2>2 DEF CreateMap, CreateMapFails, TypeOK
  <2> QED BY <2>1, <2>2, <2>3 DEF TypeOK, Idle
<1>5. CASE CreateInsert
  <2>1. api.id \in Ids /\ api.new \in Sessions
    BY <1>5 DEF CreateInsert, TypeOK
  <2>2. sessions' = [id \in Ids |-> IF id = api.id THEN api.new ELSE None]
    BY <1>5, <2>1 DEF CreateInsert, TypeOK
  <2> QED BY <1>5, <2>1, <2>2 DEF CreateInsert, TypeOK, Idle, objVars
<1>6. CASE \E id \in Ids : CloseSession(id)
  <2> PICK id \in Ids : CloseSession(id)
    BY <1>6
  <2>1. sessions' = [sessions EXCEPT ![id] = None] /\ sessions \in [Ids -> Sessions \cup {None}]
        /\ shut' = shut \cup {sessions[id]} /\ api = Idle
        /\ UNCHANGED <<api, stage>>
    BY DEF CloseSession, TypeOK
  <2>2. Idle.step = "idle" /\ Idle.new = None
    BY DEF Idle
  <2>3. OrphansAreShut'
    <3> SUFFICES ASSUME NEW s \in Sessions, stage[s] \in {"alive", "dropped"}, ~InMap(s)'
                 PROVE  s \in shut \cup {sessions[id]}
      BY <2>1
    <3>1. CASE InMap(s)
      BY <2>1, <3>1
    <3>2. CASE ~InMap(s)
      BY <2>1, <2>2, <3>2
    <3> QED BY <3>1, <3>2
  <2> QED BY <2>1, <2>2, <2>3
<1>7. CASE Dispose
  BY <1>7 DEF Dispose, TypeOK, Idle, Mapped
<1>8. CASE Die
  BY <1>8 DEF Die, TypeOK, Idle
<1>9. ASSUME NEW s \in Sessions, DropSession(s) PROVE MapInv'
  BY <1>9 DEF DropSession, apiVars, TypeOK
<1>10. ASSUME NEW s \in Sessions, DropCache(s) PROVE MapInv'
  BY <1>10 DEF DropCache, apiVars, TypeOK
<1>11. CASE UNCHANGED <<apiVars, stage, shut>>
  BY <1>11 DEF apiVars
<1>12. CASE Runtime
  BY <1>9, <1>10, <1>11, <1>12
     DEF Runtime, OpenStream, ReadChunk, CloseStream, StartFetch, FetchOk, FetchDropped,
         WriteChunk, MarkChunk, EndWarmup, objVars
<1> QED
  BY <1>1, <1>2, <1>3, <1>4, <1>5, <1>6, <1>7, <1>8, <1>11, <1>12
     DEF Next, Api, vars, objVars

LEMMA MapAlways == Spec => [](TypeOK /\ MapInv)
<1>1. Init => MapInv
  BY DEF Init, MapInv, EmptyMeanwhile, AtMostOne, OrphansAreShut, Idle
<1> QED BY <1>1, TypeInit, TypeStep, MapStep, PTL DEF Spec

\* The map never holds two sessions, whatever create, close and dispose do in
\* turn and wherever they fail.
THEOREM OneSessionAtATime == Spec => []OneSession
<1>1. TypeOK /\ MapInv => OneSession
  <2> SUFFICES ASSUME TypeOK, MapInv PROVE OneSession
    OBVIOUS
  <2> DEFINE S == {id \in Ids : sessions[id] # None}
  <2>1. CASE S = {}
    BY <2>1, FS_EmptySet DEF OneSession
  <2>2. CASE S # {}
    <3>1. PICK id \in S : S = {id}
      BY <2>2 DEF MapInv, AtMostOne
    <3> QED BY <3>1, FS_Singleton DEF OneSession
  <2> QED BY <2>1, <2>2
<1> QED BY <1>1, MapAlways, PTL

\* A session that has left the map starts no download, however long the
\* streams of the old player keep it.
THEOREM OrphansStop == Spec => []OrphansAreShut
  BY MapAlways, PTL DEF MapInv

-----------------------------------------------------------------------------
(* The files.                                                              *)

\* A session in the map, or about to be, is alive; one that create_session has
\* not mapped yet has downloaded nothing; each that was ever begun has a file.
Lives ==
    /\ \A id \in Ids : sessions[id] # None => stage[sessions[id]] = "alive"
    /\ api.step = "map" => stage[api.new] = "opened"
    /\ api.step = "insert" => stage[api.new] = "alive"
    /\ \A s \in Sessions : stage[s] \in {"unborn", "opened"} =>
         bitmap[s] = {} /\ \A c \in Chunks : work[s][c] = "idle"
    /\ \A s \in Sessions : stage[s] # "unborn" => file[s] \in Sessions

LEMMA LivesStep == TypeOK /\ MapInv /\ Lives /\ [Next]_vars => Lives'
<1> SUFFICES ASSUME TypeOK, MapInv, Lives, [Next]_vars PROVE Lives'
  OBVIOUS
<1> USE SessionsAssumption DEF Lives, InMap
<1>1. CASE InitEngine \/ (\E id \in Ids : CreateLookup(id) \/ CloseSession(id))
           \/ CreateClear \/ CreateProbeFails
  <2>1. /\ api'.step \notin {"map", "insert"}
        /\ \A id \in Ids : sessions'[id] \in {None, sessions[id]}
        /\ UNCHANGED <<stage, file, bitmap, work>>
    <3>1. CASE InitEngine \/ CreateProbeFails
      BY <3>1, IdleFacts DEF InitEngine, CreateProbeFails, objVars, dlVars
    <3>2. CASE \E id \in Ids : CreateLookup(id)
      BY <3>2, IdleFacts DEF CreateLookup, objVars, dlVars
    <3>3. CASE \E id \in Ids : CloseSession(id)
      BY <3>3, IdleFacts DEF CloseSession, objVars, dlVars, TypeOK
    <3>4. CASE CreateClear
      BY <3>4 DEF CreateClear, dlVars, TypeOK
    <3> QED BY <1>1, <3>1, <3>2, <3>3, <3>4
  <2> QED BY <2>1
<1>2. CASE \E s \in Sessions : CreateOpen(s)
  BY <1>2 DEF CreateOpen, TypeOK, MapInv, EmptyMeanwhile, dlVars
<1>3. CASE CreateMap \/ CreateMapFails
  <2>1. /\ api.new \in Sessions /\ api'.step \in {"insert", "idle"}
        /\ api'.step = "insert" => api'.new = api.new /\ stage'[api.new] = "alive"
        /\ stage[api.new] = "opened" /\ stage'[api.new] \notin {"unborn", "opened"}
        /\ \A r \in Sessions \ {api.new} : stage'[r] = stage[r]
        /\ \A id \in Ids : sessions[id] = None
        /\ UNCHANGED <<sessions, file, bitmap, work>>
    BY <1>3, IdleFacts DEF CreateMap, CreateMapFails, TypeOK, MapInv, EmptyMeanwhile, dlVars
  <2> QED BY <2>1
<1>4. CASE CreateInsert
  BY IdleFacts, <1>4 DEF CreateInsert, TypeOK, objVars, dlVars
<1>5. CASE Dispose \/ Die
  <2>1. /\ api'.step = "idle" /\ \A id \in Ids : sessions'[id] = None
        /\ \A s \in Sessions : /\ stage'[s] \in {"unborn", "opened"} => stage'[s] = stage[s]
                               /\ stage'[s] # "unborn" => stage[s] # "unborn"
                               /\ \A c \in Chunks : work'[s][c] = "idle"
        /\ UNCHANGED <<file, bitmap>>
    <3>1. CASE Dispose
      BY <3>1, IdleFacts DEF Dispose, TypeOK, Mapped
    <3>2. CASE Die
      <4>1. \A s \in Sessions : stage'[s] = IF stage[s] \in {"opened", "alive", "dropped"}
                                            THEN "killed" ELSE stage[s]
        BY <3>2 DEF Die
      <4> QED BY <3>2, <4>1, IdleFacts DEF Die
    <3> QED BY <1>5, <3>1, <3>2
  <2> QED BY <2>1
<1>6. ASSUME NEW s \in Sessions, NEW c \in Chunks,
             StartFetch(s, c) \/ FetchOk(s, c) \/ FetchDropped(s, c) \/ MarkChunk(s, c)
             \/ WriteChunk(s, c)
      PROVE  Lives'
  <2>1. stage[s] \notin {"unborn", "opened"}
    BY <1>6 DEF StartFetch, FetchOk, FetchDropped, MarkChunk, WriteChunk
  <2>2. \A r \in Sessions \ {s} : work'[r] = work[r] /\ bitmap'[r] = bitmap[r]
    BY <1>6 DEF StartFetch, FetchOk, FetchDropped, MarkChunk, WriteChunk, TypeOK
  <2>3. UNCHANGED <<apiVars, stage, file>>
    BY <1>6 DEF StartFetch, FetchOk, FetchDropped, MarkChunk, WriteChunk, objVars
  <2> QED BY <2>1, <2>2, <2>3 DEF apiVars
<1>7. ASSUME NEW s \in Sessions, DropSession(s) \/ DropCache(s) PROVE Lives'
  <2>1. /\ stage[s] \in {"alive", "dropped"} /\ stage'[s] \in {"dropped", "freed"}
        /\ \A r \in Sessions \ {s} : stage'[r] = stage[r]
        /\ UNCHANGED <<apiVars, file, dlVars>>
    BY <1>7 DEF DropSession, DropCache, TypeOK
  <2>2. api.new # s \/ api.step \notin {"map", "insert"}
    BY <1>7 DEF DropSession, DropCache
  <2>3. \A id \in Ids : sessions[id] # s
    BY <1>7 DEF DropSession, DropCache, InMap
  <2> QED BY <2>1, <2>2, <2>3, SessionsAssumption DEF apiVars, dlVars, TypeOK
<1>8. CASE UNCHANGED <<apiVars, stage, file, dlVars>>
  BY <1>8 DEF apiVars, dlVars
<1>9. CASE Runtime
  BY <1>6, <1>7, <1>8, <1>9
     DEF Runtime, OpenStream, ReadChunk, CloseStream, EndWarmup, objVars
<1> QED
  BY <1>1, <1>2, <1>3, <1>4, <1>5, <1>8, <1>9 DEF Next, Api, vars, objVars

\* A session the map offers, or is about to, has its file to itself: what it
\* marks, or is about to mark, is in the file.
Intact ==
    \A s \in Sessions :
      InMap(s) \/ (api.step = "insert" /\ api.new = s) =>
        /\ file[s] \notin short /\ bitmap[s] \subseteq disk[file[s]]
        /\ \A c \in Chunks : work[s][c] = "marking" => c \in disk[file[s]]

LEMMA IntactStep == TypeOK /\ MapInv /\ Lives /\ Intact /\ [Next]_vars => Intact'
<1> SUFFICES ASSUME TypeOK, MapInv, Lives, Intact, [Next]_vars PROVE Intact'
  OBVIOUS
<1> USE SessionsAssumption DEF Intact, InMap
<1>1. CASE InitEngine \/ (\E id \in Ids : CreateLookup(id) \/ CloseSession(id))
           \/ CreateClear \/ CreateProbeFails
  <2>1. /\ api'.step # "insert"
        /\ \A id \in Ids : sessions'[id] \in {None, sessions[id]}
        /\ UNCHANGED <<file, short, bitmap, disk, work>>
    BY <1>1, IdleFacts DEF InitEngine, CreateLookup, CloseSession, CreateClear, CreateProbeFails,
                           objVars, dlVars, fsVars, TypeOK
  <2> QED BY <2>1
<1>2. CASE (\E s \in Sessions : CreateOpen(s)) \/ CreateMapFails
  <2>1. api'.step # "insert" /\ \A id \in Ids : sessions'[id] = None
    BY <1>2, IdleFacts DEF CreateOpen, CreateMapFails, TypeOK, MapInv, EmptyMeanwhile
  <2> QED BY <2>1
<1>3. CASE CreateMap
  BY <1>3 DEF CreateMap, TypeOK, MapInv, EmptyMeanwhile, Lives, dlVars
<1>4. CASE CreateInsert
  <2>1. \A s \in Sessions : (\E id \in Ids : sessions'[id] = s) => s = api.new
    BY <1>4 DEF CreateInsert, TypeOK, MapInv, EmptyMeanwhile
  <2>2. api'.step # "insert" /\ UNCHANGED <<file, short, bitmap, disk, work>>
    BY IdleFacts, <1>4 DEF CreateInsert, objVars, dlVars, fsVars
  <2> QED BY <1>4, <2>1, <2>2 DEF CreateInsert
<1>5. CASE Dispose \/ Die
  BY IdleFacts, <1>5 DEF Dispose, Die
<1>6. ASSUME NEW s \in Sessions, NEW c \in Chunks,
             StartFetch(s, c) \/ FetchOk(s, c) \/ FetchDropped(s, c)
      PROVE  Intact'
  <2>1. \A r \in Sessions, d \in Chunks : work'[r][d] = "marking" => work[r][d] = "marking"
    BY <1>6, WorkMoves, SMTT(30) DEF StartFetch, FetchOk, FetchDropped
  <2>2. UNCHANGED <<apiVars, file, short, bitmap, disk>>
    BY <1>6 DEF StartFetch, FetchOk, FetchDropped, objVars, fsVars
  <2> QED BY <2>1, <2>2 DEF apiVars
<1>7. ASSUME NEW s \in Sessions, NEW c \in Chunks, WriteChunk(s, c) PROVE Intact'
  <2>1. \A r \in Sessions, d \in Chunks :
          work'[r][d] = "marking" => work[r][d] = "marking" \/ (r = s /\ d = c)
    BY <1>7, WorkMoves DEF WriteChunk
  <2>2. (\A i \in Sessions : disk[i] \subseteq disk'[i])
        /\ UNCHANGED <<apiVars, file, short, bitmap>>
    BY <1>7 DEF WriteChunk, objVars, TypeOK
  <2>3. file[s] \in Sessions /\ c \in disk'[file[s]]
    <3>1. file[s] \in Sessions
      BY <1>7 DEF WriteChunk, Lives
    <3> QED BY <1>7, <3>1 DEF WriteChunk, TypeOK
  <2> QED
    <3> SUFFICES ASSUME NEW r \in Sessions,
                        InMap(r)' \/ (api'.step = "insert" /\ api'.new = r)
                 PROVE  /\ file'[r] \notin short' /\ bitmap'[r] \subseteq disk'[file'[r]]
                        /\ \A d \in Chunks : work'[r][d] = "marking" => d \in disk'[file'[r]]
      OBVIOUS
    <3>1. file[r] \in Sessions
      BY <2>2 DEF apiVars, Lives
    <3> QED BY <2>1, <2>2, <2>3, <3>1 DEF apiVars
<1>8. ASSUME NEW s \in Sessions, NEW c \in Chunks, MarkChunk(s, c) PROVE Intact'
  <2>1. \A r \in Sessions, d \in Chunks : work'[r][d] = "marking" => work[r][d] = "marking"
    BY <1>8, WorkMoves DEF MarkChunk
  <2>2. \A r \in Sessions : bitmap'[r] \subseteq bitmap[r] \cup (IF r = s THEN {c} ELSE {})
    BY <1>8 DEF MarkChunk, TypeOK
  <2>3. work[s][c] = "marking" /\ UNCHANGED <<apiVars, file, short, disk>>
    BY <1>8 DEF MarkChunk, objVars, fsVars
  <2> QED BY <2>1, <2>2, <2>3 DEF apiVars
<1>9. CASE UNCHANGED <<apiVars, file, dlVars, short, disk>>
  BY <1>9 DEF apiVars, dlVars
<1>10. CASE Runtime
  BY <1>6, <1>7, <1>8, <1>9, <1>10
     DEF Runtime, OpenStream, ReadChunk, CloseStream, EndWarmup, DropSession, DropCache,
         objVars, fsVars
<1> QED
  BY <1>1, <1>2, <1>3, <1>4, <1>5, <1>9, <1>10 DEF Next, Api, vars, objVars, fsVars

\* No leftover of an earlier session takes data from under a session the map
\* still offers.
THEOREM LiveSessionsAreIntact == Spec => []LiveSessionIntact
<1>1. Init => Lives /\ Intact
  BY DEF Init, Lives, Intact, InMap, Idle
<1>2. Intact => LiveSessionIntact
  BY DEF Intact, LiveSessionIntact
<1> QED BY <1>1, <1>2, MapAlways, LivesStep, IntactStep, PTL DEF Spec

\* A cache file on disk belongs to a session that still lives, or to one that
\* had no chance to remove it.
THEOREM FilesHaveOwners == Spec => []FilesOwned
<1> USE DEF FilesOwned
<1>1. Init => FilesOwned
  BY DEF Init
<1>2. TypeOK /\ FilesOwned /\ [Next]_vars => FilesOwned'
  <2> SUFFICES ASSUME TypeOK, FilesOwned, [Next]_vars PROVE FilesOwned'
    OBVIOUS
  <2> USE SessionsAssumption
  <2>1. CASE \E s \in Sessions : CreateOpen(s)
    <3> PICK s \in Sessions : CreateOpen(s)
      BY <2>1
    <3>1. api.id \in Ids /\ stage[s] = "unborn"
      BY DEF CreateOpen, TypeOK
    <3>2. file'[s] = dir'[api.id] /\ ident'[s] = api.id /\ stage'[s] = "opened"
      BY <3>1 DEF CreateOpen, TypeOK
    <3>3. \A r \in Sessions \ {s} : file'[r] = file[r] /\ ident'[r] = ident[r]
                                    /\ stage'[r] = stage[r]
      BY DEF CreateOpen, TypeOK
    <3>4. \A id \in Ids \ {api.id} : dir'[id] = dir[id]
      BY DEF CreateOpen, TypeOK
    <3> QED BY <3>1, <3>2, <3>3, <3>4
  <2>2. CASE CreateMap \/ CreateMapFails
    BY <2>2 DEF CreateMap, CreateMapFails, TypeOK
  <2>3. CASE Dispose
    BY <2>3 DEF Dispose, TypeOK
  <2>4. CASE Die
    BY <2>4 DEF Die, TypeOK
  <2>5. ASSUME NEW s \in Sessions, DropSession(s) PROVE FilesOwned'
    BY <2>5 DEF DropSession, fsVars, TypeOK
  <2>6. ASSUME NEW s \in Sessions, DropCache(s) PROVE FilesOwned'
    <3>1. \A id \in Ids : dir'[id] # None => dir'[id] = dir[id] /\ id # ident[s]
      BY <2>6 DEF DropCache, TypeOK
    <3>2. UNCHANGED <<ident, file>> /\ \A r \in Sessions \ {s} : stage'[r] = stage[r]
      BY <2>6 DEF DropCache, TypeOK
    <3> QED BY <3>1, <3>2
  <2>7. CASE UNCHANGED <<stage, ident, file, dir>>
    BY <2>7
  <2>8. CASE Runtime
    BY <2>5, <2>6, <2>7, <2>8
       DEF Runtime, OpenStream, ReadChunk, CloseStream, StartFetch, FetchOk, FetchDropped,
           WriteChunk, MarkChunk, EndWarmup, objVars, fsVars
  <2> QED
    BY <2>1, <2>2, <2>3, <2>4, <2>7, <2>8
       DEF Next, Api, InitEngine, CreateLookup, CloseSession, CreateClear, CreateProbeFails,
           CreateInsert, vars, objVars, fsVars
<1> QED BY <1>1, <1>2, TypeInit, TypeStep, PTL DEF Spec

=============================================================================
