-------------------------- MODULE PlayerPageProofs --------------------------
(***************************************************************************)
(* Proofs about PlayerPage, for any episodes, variants and calls.          *)
(***************************************************************************)
EXTENDS PlayerPage, TLAPS

-----------------------------------------------------------------------------
(* Types.                                                                  *)

Locals == [ep : Episodes \cup {None}, variant : Variants \cup {None},
           of : Episodes \cup {None}, read : Entry, seek : Episodes \cup {None}, prev : Episodes \cup {None},
           current : Episodes \cup {None}]

\* What a call that is on its way to a media has with it; nothing is opened,
\* offered or waited for before the page has a media.
Asked ==
    /\ opened # None \/ sheet # None => media # None
    /\ \A c \in Calls :
         /\ pc[c] \in {"resolve", "find", "upsert", "resolved"} => call[c].ep \in Episodes
         /\ pc[c] \in {"ensure", "login", "cookie"} =>
              call[c].ep \in Episodes /\ call[c].variant \in Variants /\ call[c].of \in Episodes
         /\ pc[c] = "ensure" => media # None

Typed == TypeOK /\ Asked

LEMMA NoCallTyped == NoEntry \in Entry /\ NoCall \in Locals
BY DEF NoCall, NoEntry, Entry, Locals

LEMMA SessionTyped ==
  ASSUME NEW m \in Media
  PROVE  SessionFor(m) \in Episodes \cup {None} /\ (SessionFor(m) # None => SessionFor(m) \in Episodes)
BY DEF SessionFor, Media

LEMMA StreamedTyped ==
  ASSUME TypeOK, NEW m \in Media
  PROVE  Streamed(m) \in Episodes /\ [m EXCEPT !.of = Streamed(m)] \in Media
BY DEF TypeOK, Streamed, Media

LEMMA SwitchedTyped ==
  ASSUME Typed, NEW v \in Variants, sheet # None
  PROVE  media # None /\ [ep |-> media.ep, variant |-> v, of |-> sheet.ep] \in Media
BY DEF Typed, TypeOK, Asked, Media, Sheet

LEMMA KeptTyped ==
  ASSUME NEW m \in Media
  PROVE  Kept(m) \in Locals /\ Kept(m).ep = m.ep /\ Kept(m).variant = m.variant /\ Kept(m).of = m.of
BY DEF Kept, NoCall, Locals, NoEntry, Entry, Media

\* The media a call has kept.
LEMMA KeptByTyped ==
  ASSUME Typed, NEW c \in Calls, pc[c] \in {"ensure", "login", "cookie"}
  PROVE  KeptBy(c) \in Media
BY DEF Typed, Asked, KeptBy, Media

LEMMA ReopenTyped ==
  ASSUME Typed, Reopen
  PROVE  Recovery \in Calls /\ pc[Recovery] = "cookie" /\ media \in Media
<1>1. Recovery \in Calls /\ pc[Recovery] = "cookie" /\ media = KeptBy(Recovery)
  BY DEF Reopen, Calls
<1> QED BY <1>1, KeptByTyped

\* What _openMedia changes, of the variables it is the only one to change.
LEMMA OpenTyped ==
  ASSUME TypeOK, NEW c \in Calls, NEW m \in Media, mounted' \in BOOLEAN,
         engine' \in BOOLEAN, engine => engine', SessionFor(m) = None \/ engine',
         CreateAndOpen(c, m) \/ (loading' \in BOOLEAN /\ CreateFails(c, m))
  PROVE  /\ session' \in Episodes \cup {None} /\ live' \in Episodes \cup {None}
         /\ source' \in Episodes \cup {None} /\ (live' # None => engine' /\ source' # None)
         /\ opened' \in Media \cup {None} /\ failed' \in BOOLEAN
         /\ pc' \in [Calls -> PC] /\ call' \in [Calls -> Locals]
<1> USE NoCallTyped, SessionTyped DEF TypeOK, Goto, Return, PC, Opening
<1>1. [NoCall EXCEPT !.prev = session, !.current = SessionFor(m)] \in Locals
  BY DEF NoCall, Locals, NoEntry, Entry
<1>2. call \in [Calls -> Locals]
  BY DEF Locals
<1>3. CASE CreateAndOpen(c, m)
  <2>1. Streamed(m) \in Episodes /\ Streamed(m) # None /\ [m EXCEPT !.of = Streamed(m)] \in Media
    BY StreamedTyped, NoneAssumption
  <2> QED BY <1>1, <1>2, <1>3, <2>1 DEF CreateAndOpen
<1>4. CASE CreateFails(c, m)
  BY <1>2, <1>4 DEF CreateFails
<1> QED BY <1>3, <1>4

\* Those that start a call, or are its start of _openMedia.
LEMMA OpenMediaTyped ==
  ASSUME TypeOK, NEW c \in Calls, NEW m \in Media, OpenMedia(c, m),
         episode' \in Episodes \cup {None}, variant' \in Variants \cup {None},
         recovered' \in Media \cup {None}, sheet' \in Sheet \cup {None},
         starts' \in 0 .. MaxStarts, overlapped' \in BOOLEAN, stale' \in BOOLEAN
  PROVE  TypeOK'
<1> USE NoCallTyped, SessionTyped DEF OpenMedia, entryVars
<1>1. /\ media' \in Media \cup {None} /\ mounted' \in BOOLEAN /\ engine' \in BOOLEAN
      /\ history' \in Entry /\ awaited' \in BOOLEAN /\ UNCHANGED <<saving, engine>>
      /\ loading' \in BOOLEAN
  BY DEF TypeOK, CreateFails, StopSpinner
<1>2. CASE CreateAndOpen(c, m) /\ (SessionFor(m) = None \/ engine)
  BY <1>1, <1>2, OpenTyped DEF TypeOK, Locals
<1>3. CASE engine /\ CreateFails(c, m)
  BY <1>1, <1>3, OpenTyped DEF TypeOK, Locals
<1>4. CASE /\ call' = [call EXCEPT ![c] = Kept(m)]
           /\ Goto(c, "ensure")
           /\ UNCHANGED <<live, source, session, opened, failed>>
  <2>1. Kept(m) \in Locals
    BY KeptTyped
  <2> QED BY <1>1, <1>4, <2>1 DEF TypeOK, Locals, Goto, PC
<1> QED BY <1>2, <1>3, <1>4

LEMMA StartTyped ==
  ASSUME Typed,
         \/ \E c \in Plays, e \in Episodes : Select(c, e)
         \/ \E c \in Switches, v \in Variants : Switch(c, v)
         \/ Reject
  PROVE  TypeOK'
<1> USE NoCallTyped, StartsAssumption DEF Begin, Typed
<1>1. starts < MaxStarts => starts + 1 \in 0 .. MaxStarts
  BY DEF TypeOK
<1>2. Plays \subseteq Calls /\ Switches \subseteq Calls /\ Recovery \in Calls
  BY DEF Calls
<1>3. CASE \E c \in Plays, e \in Episodes : Select(c, e)
  <2> PICK c \in Plays, e \in Episodes : Select(c, e)
    BY <1>3
  <2>1. [NoCall EXCEPT !.ep = e, !.variant = variant] \in Locals
    BY DEF NoCall, Locals, NoEntry, Entry, TypeOK
  <2>2. pc' \in [Calls -> PC]
    BY <1>2 DEF Select, TypeOK, Goto, PC
  <2>3. call' \in [Calls -> Locals]
    <3>1. call' = [call EXCEPT ![c] = [NoCall EXCEPT !.ep = e, !.variant = variant]]
      BY DEF Select
    <3> QED BY <1>2, <2>1, <3>1 DEF TypeOK, Locals
  <2>4. loading' = TRUE /\ episode' = e /\ starts' \in 0 .. MaxStarts /\ overlapped' \in BOOLEAN
    BY <1>1 DEF Select, TypeOK, Busy
  <2>5. UNCHANGED <<mounted, media, variant, session, recovered, proxyVars, entryVars,
                    historyVars>>
        /\ sheet' \in {None, sheet}
    BY DEF Select
  <2> QED BY <2>2, <2>3, <2>4, <2>5 DEF TypeOK, Locals, proxyVars, entryVars, historyVars
<1>4. CASE \E c \in Switches, v \in Variants : Switch(c, v)
  <2> PICK c \in Switches, v \in Variants : Switch(c, v)
    BY <1>4
  <2>1. [ep |-> media.ep, variant |-> v, of |-> sheet.ep] \in Media
    BY SwitchedTyped DEF Switch
  <2>2. /\ episode' \in Episodes \cup {None} /\ variant' \in Variants \cup {None}
        /\ recovered' \in Media \cup {None} /\ starts' \in 0 .. MaxStarts
        /\ sheet' \in Sheet \cup {None} /\ overlapped' \in BOOLEAN /\ stale' \in BOOLEAN
    BY <1>1 DEF Switch, TypeOK, Busy
  <2> QED BY <1>2, <2>1, <2>2, OpenMediaTyped DEF Switch
<1>5. CASE Reject
  <2>1. media \in Media
    BY <1>5 DEF Reject, Asked, TypeOK
  <2>2. Kept(media) \in Locals
    BY <2>1, KeptTyped
  <2> QED BY <1>1, <1>2, <1>5, <2>1, <2>2 DEF Reject, TypeOK, Locals, Goto, PC, Busy, proxyVars,
                                              entryVars, historyVars
<1> QED BY <1>3, <1>4, <1>5

\* The steps of _openMedia.
LEMMA OpenStepTyped ==
  ASSUME Typed, NEW c \in Calls, OpenStep(c)
  PROVE  TypeOK'
<1> USE NoCallTyped DEF Typed, pageVars, proxyVars, entryVars, callVars, historyVars
<1> DEFINE m == KeptBy(c)
<1>1. CASE Ensure(c)
  <2>1. m \in Media
    BY <1>1 DEF Ensure, Asked, KeptBy, Media
  <2>2. CASE CreateAndOpen(c, m) /\ UNCHANGED loading
    BY <1>1, <2>1, <2>2, OpenTyped DEF Ensure, TypeOK, Locals
  <2>3. CASE CreateFails(c, m)
    <3>1. loading' \in BOOLEAN
      BY <2>3 DEF CreateFails, StopSpinner, TypeOK
    <3> QED BY <1>1, <2>1, <2>3, <3>1, OpenTyped DEF Ensure, TypeOK, Locals
  <2> QED BY <1>1, <2>2, <2>3 DEF Ensure
<1>2. ASSUME CloseAndReturn(c) PROVE TypeOK'
  <2>1. loading' \in BOOLEAN
    BY <1>2 DEF CloseAndReturn, StopSpinner, TypeOK
  <2> QED BY <1>2, <2>1 DEF CloseAndReturn, TypeOK, Locals, Return, Goto, PC
<1>3. CASE Opened(c)
  <2>1. [call[c] EXCEPT !.seek = episode] \in Locals
    BY DEF TypeOK, Locals
  <2>2. call' = [call EXCEPT ![c] = [call[c] EXCEPT !.seek = episode]]
    BY <1>3 DEF Opened
  <2>3. call' \in [Calls -> Locals]
    BY <2>1, <2>2 DEF TypeOK, Locals
  <2>4. pc' \in [Calls -> PC]
    BY <1>3 DEF Opened, TypeOK, Goto, PC, Opening
  <2> QED BY <1>3, <2>3, <2>4 DEF Opened, TypeOK, Locals
<1>4. CASE OpenFails(c)
  <2>1. loading' \in BOOLEAN
    BY <1>4 DEF OpenFails, StopSpinner, TypeOK
  <2> QED BY <1>4, <2>1 DEF OpenFails, TypeOK, Locals, Return, Goto, PC
<1>5. CASE HistoryRead(c) \/ NoDuration(c) \/ Sought(c)
  BY <1>2, <1>5 DEF HistoryRead, NoDuration, Sought, TypeOK, Goto, PC, Opening
<1>6. CASE Duration(c)
  BY <1>6 DEF Duration, TypeOK, Locals, Return, Goto, PC, Opening
<1> QED BY <1>1, <1>3, <1>4, <1>5, <1>6 DEF OpenStep

\* The other steps of a call.
LEMMA CallTyped ==
  ASSUME Typed, \/ \E c \in Calls : Resolve(c) \/ PlayFails(c) \/ Find(c) \/ Upsert(c)
                                      \/ Resolved(c) \/ Restore(c)
                \/ Login \/ Reopen \/ RecoveryEnds
  PROVE  TypeOK'
<1> USE NoCallTyped DEF Typed, pageVars, proxyVars, entryVars, callVars, historyVars
<1>1. Recovery \in Calls
  BY DEF Calls
<1>2. ASSUME NEW c \in Calls, Resolve(c) \/ PlayFails(c) \/ Find(c) \/ Upsert(c) \/ Restore(c)
      PROVE  TypeOK'
  <2>1. CASE Resolve(c) \/ PlayFails(c) \/ Restore(c)
    <3>1. loading' \in BOOLEAN
      BY <2>1 DEF Resolve, PlayFails, Restore, StopSpinner, TypeOK
    <3> QED BY <1>2, <2>1, <3>1 DEF Resolve, PlayFails, Restore, TypeOK, Locals, Goto, PC
  <2>2. CASE Find(c)
    <3>1. pc' \in [Calls -> PC]
      BY <2>2 DEF Find, TypeOK, Goto, PC
    <3>2. call' \in [Calls -> Locals]
      BY <2>2 DEF Find, TypeOK, Locals
    <3>3. UNCHANGED <<pageVars, proxyVars, entryVars, starts, overlapped, historyVars>>
      BY <2>2 DEF Find
    <3> QED BY <3>1, <3>2, <3>3 DEF TypeOK, Locals
  <2>3. CASE Upsert(c)
    <3>1. history' \in Entry
      BY <2>3 DEF Upsert, Asked, TypeOK, Entry
    <3>2. pc' \in [Calls -> PC]
      BY <2>3 DEF Upsert, TypeOK, Goto, PC
    <3>3. saving' \in [step : {"no", "read", "write"}, position : Episodes \cup {None},
                       read : Entry, newer : BOOLEAN]
      BY <2>3 DEF Upsert, TypeOK
    <3>4. UNCHANGED <<pageVars, proxyVars, starts, call, overlapped, historyVars>>
      BY <2>3 DEF Upsert
    <3> QED BY <3>1, <3>2, <3>3, <3>4 DEF TypeOK
  <2> QED BY <1>2, <2>1, <2>2, <2>3
<1>3. ASSUME NEW c \in Calls, Resolved(c) PROVE TypeOK'
  <2> DEFINE v == IF call[c].variant = None THEN "raw" ELSE call[c].variant
  <2>1. v \in Variants /\ [ep |-> call[c].ep, variant |-> v, of |-> call[c].ep] \in Media
    BY <1>3, VariantsAssumption DEF Resolved, Asked, TypeOK, Locals, Media
  <2> HIDE DEF v
  <2>2. CASE mounted
    BY <1>3, <2>1, <2>2, OpenMediaTyped DEF Resolved, TypeOK, v
  <2>3. CASE ~mounted
    BY <1>3, <2>3 DEF Resolved, TypeOK, Locals, Goto, PC
  <2> QED BY <2>2, <2>3
<1>4. CASE Reopen
  <2>1. media \in Media
    BY <1>4, ReopenTyped
  <2> QED BY <1>1, <1>4, <2>1, OpenMediaTyped DEF Reopen, TypeOK
<1>5. CASE Login
  BY <1>1, <1>5 DEF Login, TypeOK, Locals, Goto, PC
<1>6. CASE RecoveryEnds
  BY <1>1, <1>6 DEF RecoveryEnds, TypeOK, Locals, Goto, PC
<1> QED BY <1>2, <1>3, <1>4, <1>5, <1>6

LEMMA OtherTyped ==
  ASSUME Typed, OpenSheet \/ Expire \/ Dispose \/ SaveRead \/ SaveWrite
  PROVE  TypeOK'
<1> USE DEF Typed, TypeOK, pageVars, proxyVars, entryVars, callVars, historyVars
<1>1. CASE Expire
  BY <1>1 DEF Expire
<1>2. CASE Dispose
  <2>1. overlapped' \in BOOLEAN /\ awaited' \in BOOLEAN
    BY <1>2 DEF Dispose, Busy
  <2>2. saving' \in [step : {"no", "read", "write"}, position : Episodes \cup {None},
                     read : Entry, newer : BOOLEAN]
    <3>1. opened # None => opened.of \in Episodes
      BY DEF Media
    <3>2. CASE saving' = [saving EXCEPT !.step = "read", !.position = opened.of] /\ opened # None
      BY <3>1, <3>2
    <3>3. CASE UNCHANGED saving
      BY <3>3
    <3> QED BY <1>2, <3>2, <3>3 DEF Dispose
  <2>3. {mounted, loading, engine, overlapped, failed, awaited, stale}' \subseteq BOOLEAN
    BY <1>2, <2>1 DEF Dispose
  <2>4. live' = None /\ UNCHANGED <<episode, media, variant, session, recovered, sheet,
                                    source, opened, history, starts, pc, call>>
    BY <1>2 DEF Dispose
  <2> HIDE <1>2
  <2> QED BY <2>2, <2>3, <2>4
<1>3. CASE SaveRead
  <2>1. PICK step \in {"no", "write"} : saving' = [saving EXCEPT !.step = step, !.read = history]
    BY <1>3 DEF SaveRead
  <2>2. saving' \in [step : {"no", "read", "write"}, position : Episodes \cup {None},
                     read : Entry, newer : BOOLEAN]
    BY <2>1
  <2> QED BY <1>3, <2>2 DEF SaveRead
<1>4. CASE SaveWrite
  <2>1. history' \in Entry
    BY <1>4 DEF SaveWrite, Entry
  <2> QED BY <1>4, <2>1 DEF SaveWrite
<1>5. CASE OpenSheet
  <2>1. [ep |-> media.ep, current |-> IF media.of = media.ep THEN variant ELSE None] \in Sheet
    BY <1>5 DEF OpenSheet, Media, Sheet
  <2> QED BY <1>5, <2>1 DEF OpenSheet
<1> QED BY <1>1, <1>2, <1>3, <1>4, <1>5

LEMMA TypeStep == Typed /\ [Next]_vars => TypeOK'
<1> SUFFICES ASSUME Typed, [Next]_vars PROVE TypeOK'
  OBVIOUS
<1>1. CASE UNCHANGED vars
  BY <1>1 DEF Typed, TypeOK, vars, pageVars, proxyVars, entryVars, callVars, historyVars
<1> QED BY <1>1, StartTyped, OpenStepTyped, CallTyped, OtherTyped DEF Next, CallStep, Finished

\* What the start of an _openMedia does to the calls.
LEMMA OpenEffects ==
  ASSUME TypeOK, NEW c \in Calls, NEW m \in Media, OpenMedia(c, m)
  PROVE  /\ media' = m
         /\ \A d \in Calls \ {c} : pc'[d] = pc[d] /\ call'[d] = call[d]
         /\ \/ pc'[c] \in {"open", "idle", "restore"}
            \/ /\ pc'[c] = "ensure"
               /\ call'[c].ep = m.ep /\ call'[c].variant = m.variant /\ call'[c].of = m.of
<1> USE DEF TypeOK
<1>1. CASE CreateAndOpen(c, m)
  BY <1>1 DEF OpenMedia, CreateAndOpen, Goto
<1>2. CASE CreateFails(c, m)
  BY <1>2 DEF OpenMedia, CreateFails, Return, Goto
<1>3. CASE /\ call' = [call EXCEPT ![c] = Kept(m)]
           /\ Goto(c, "ensure")
  BY <1>3, KeptTyped DEF OpenMedia, Goto
<1> QED BY <1>1, <1>2, <1>3 DEF OpenMedia

LEMMA AskedStep == Typed /\ [Next]_vars => Asked'
<1> SUFFICES ASSUME Typed, [Next]_vars PROVE Asked'
  OBVIOUS
<1> USE NoneAssumption DEF Typed, Asked, TypeOK, pageVars, proxyVars, callVars
<1>1. ASSUME NEW c \in Calls, NEW m \in Media, OpenMedia(c, m) PROVE Asked'
  <2>1. m # None /\ m.ep \in Episodes /\ m.variant \in Variants /\ m.of \in Episodes
    BY DEF Media
  <2> QED BY <1>1, <2>1, OpenEffects
<1>2. ASSUME NEW c \in Plays, NEW e \in Episodes, Select(c, e) PROVE Asked'
  BY <1>2 DEF Select, Goto, NoCall, Calls
<1>3. ASSUME NEW c \in Switches, NEW v \in Variants, Switch(c, v) PROVE Asked'
  <2>1. [ep |-> media.ep, variant |-> v, of |-> sheet.ep] \in Media /\ c \in Calls
    BY <1>3, SwitchedTyped DEF Switch, Calls
  <2> QED BY <1>1, <1>3, <2>1 DEF Switch
<1>4. ASSUME NEW c \in Calls, Resolve(c) \/ PlayFails(c) \/ Find(c) \/ Upsert(c) \/ Restore(c)
      PROVE  Asked'
  BY <1>4 DEF Resolve, PlayFails, Find, Upsert, Restore, Goto
<1>5. ASSUME NEW c \in Calls, Resolved(c) PROVE Asked'
  <2> DEFINE v == IF call[c].variant = None THEN "raw" ELSE call[c].variant
  <2>1. v \in Variants /\ [ep |-> call[c].ep, variant |-> v, of |-> call[c].ep] \in Media
    BY <1>5, VariantsAssumption DEF Resolved, Locals, Media
  <2> HIDE DEF v
  <2>2. CASE mounted
    BY <1>1, <1>5, <2>1, <2>2 DEF Resolved, v
  <2>3. CASE ~mounted
    BY <1>5, <2>3 DEF Resolved, Goto
  <2> QED BY <2>2, <2>3
<1>6. ASSUME NEW c \in Calls, Ensure(c) PROVE Asked'
  BY <1>6 DEF Ensure, CreateAndOpen, CreateFails, Return, Goto
<1>7. ASSUME NEW c \in Calls, CloseAndReturn(c) PROVE Asked'
  BY <1>7 DEF CloseAndReturn, Return, Goto
<1>8. ASSUME NEW c \in Calls, Opened(c) \/ OpenFails(c) \/ HistoryRead(c) \/ Duration(c)
                                \/ NoDuration(c) \/ Sought(c)
      PROVE  Asked'
  BY <1>7, <1>8 DEF Opened, OpenFails, HistoryRead, Duration, NoDuration, Sought, Return, Goto
<1>9. CASE Reject
  <2>1. media \in Media /\ Recovery \in Calls
    BY <1>9 DEF Reject, Calls
  <2>2. Kept(media).ep \in Episodes /\ Kept(media).variant \in Variants /\ Kept(media).of \in Episodes
    BY <2>1, KeptTyped DEF Media
  <2> QED BY <1>9, <2>1, <2>2 DEF Reject, Goto
<1>10. CASE Reopen
  <2>1. media \in Media /\ Recovery \in Calls
    BY <1>10, ReopenTyped
  <2> QED BY <1>1, <1>10, <2>1 DEF Reopen
<1>11. CASE Login \/ RecoveryEnds
  BY <1>11 DEF Login, RecoveryEnds, Goto, Calls
<1>12. CASE OpenSheet \/ Expire \/ Dispose \/ SaveRead \/ SaveWrite
  BY <1>12 DEF OpenSheet, Expire, Dispose, SaveRead, SaveWrite
<1>13. CASE UNCHANGED vars
  BY <1>13 DEF vars
<1> QED BY <1>2, <1>3, <1>4, <1>5, <1>6, <1>8, <1>9, <1>10, <1>11, <1>12, <1>13
        DEF Next, CallStep, OpenStep, Finished

LEMMA AlwaysTyped == Spec => []Typed
<1>1. Init => Typed
  <2> SUFFICES ASSUME Init PROVE Typed
    OBVIOUS
  <2>1. call \in [Calls -> Locals]
    BY NoCallTyped DEF Init
  <2>2. saving \in [step : {"no", "read", "write"}, position : Episodes \cup {None},
                    read : Entry, newer : BOOLEAN]
    BY NoCallTyped DEF Init
  <2>3. {mounted, loading, engine, overlapped, failed, awaited} \subseteq BOOLEAN
    BY DEF Init
  <2>4. history \in Entry /\ starts \in 0 .. MaxStarts /\ pc \in [Calls -> PC]
    BY StartsAssumption DEF Init, PC
  <2>5. TypeOK
    BY <2>1, <2>2, <2>3, <2>4 DEF Init, TypeOK, Locals
  <2> QED BY <2>5 DEF Init, Typed, Asked
<1> QED BY <1>1, TypeStep, AskedStep, PTL DEF Spec, Typed

\* Types, with a session only in an engine that is there.
THEOREM TypesHold == Spec => []TypeOK
BY AlwaysTyped, PTL DEF Typed

-----------------------------------------------------------------------------
(* Sessions.                                                               *)

\* How _openMedia of call c, from its start or after the wait for the engine,
\* moves the sessions.
LEMMA SessionMoves ==
  ASSUME Typed, NEW c \in Calls, NEW m \in Media, pc[c] \notin Opening,
         OpenMedia(c, m) \/ CreateAndOpen(c, m) \/ CreateFails(c, m),
         OldSessionClosed, mounted' = mounted
  PROVE  OldSessionClosed'
<1> USE DEF Typed, TypeOK, OldSessionClosed
<1>1. CASE CreateAndOpen(c, m)
  <2>1. SessionFor(m) \in Episodes \cup {None} /\ session' = SessionFor(m)
        /\ live' = IF SessionFor(m) = None THEN live ELSE SessionFor(m)
    BY <1>1, SessionTyped DEF CreateAndOpen
  <2>2. \A d \in Calls \ {c} : pc'[d] = pc[d] /\ call'[d] = call[d]
    BY <1>1 DEF CreateAndOpen, Goto
  <2>3. pc'[c] \in Opening /\ call'[c].prev = session /\ call'[c].current = session'
    BY <1>1 DEF CreateAndOpen, Goto, Opening, NoCall
  <2>4. failed' = failed
    BY <1>1, Zenon DEF CreateAndOpen
  <2>5. SUFFICES ASSUME live \notin {None, session}, live' = live, session' = None, mounted, ~failed
                 PROVE  \E d \in Calls : /\ pc'[d] \in Opening
                                         /\ call'[d].prev = live' /\ call'[d].current # live'
    BY <2>1, <2>3, <2>4
  <2> QED BY <2>2, <2>5
<1>2. CASE CreateFails(c, m)
  <2>1. failed'
    BY <1>2 DEF CreateFails
  <2> QED BY <2>1, Zenon
<1>3. CASE /\ Goto(c, "ensure")
           /\ call' = [call EXCEPT ![c] = Kept(m)]
           /\ UNCHANGED <<live, session, failed>>
  <2>1. \A d \in Calls \ {c} : pc'[d] = pc[d] /\ call'[d] = call[d]
    BY <1>3 DEF Goto
  <2>2. UNCHANGED <<live, session, failed>>
    BY <1>3
  <2> QED BY <2>1, <2>2
<1> QED BY <1>1, <1>2, <1>3 DEF OpenMedia

LEMMA ClosedStep == Typed /\ OldSessionClosed /\ [Next]_vars => OldSessionClosed'
<1> SUFFICES ASSUME Typed, OldSessionClosed, [Next]_vars PROVE OldSessionClosed'
  OBVIOUS
<1> USE DEF Typed, TypeOK, pageVars, proxyVars, callVars, historyVars
<1>1. ASSUME NEW c \in Plays, NEW e \in Episodes, Select(c, e) PROVE OldSessionClosed'
  BY <1>1 DEF Select, Begin, Goto, Calls, OldSessionClosed, Opening
<1>2. ASSUME NEW c \in Switches, NEW v \in Variants, Switch(c, v) PROVE OldSessionClosed'
  <2>1. [ep |-> media.ep, variant |-> v, of |-> sheet.ep] \in Media /\ c \in Calls
    BY <1>2, SwitchedTyped DEF Switch, Calls
  <2> QED BY <1>2, <2>1, SessionMoves DEF Switch, Begin, OpenMedia, Opening
<1>3. ASSUME NEW c \in Calls, Resolve(c) \/ PlayFails(c) \/ Find(c) \/ Upsert(c) \/ Restore(c)
      PROVE  OldSessionClosed'
  <2>1. pc[c] \notin Opening
    BY <1>3 DEF Resolve, PlayFails, Find, Upsert, Restore, Opening
  <2>2. UNCHANGED <<mounted, live, session, failed>>
        /\ \A d \in Calls \ {c} : pc'[d] = pc[d] /\ call'[d] = call[d]
    BY <1>3 DEF Resolve, PlayFails, Find, Upsert, Restore, Goto
  <2> QED BY <2>1, <2>2 DEF OldSessionClosed
<1>4. ASSUME NEW c \in Calls, Resolved(c) PROVE OldSessionClosed'
  <2> DEFINE v == IF call[c].variant = None THEN "raw" ELSE call[c].variant
  <2>1. v \in Variants /\ [ep |-> call[c].ep, variant |-> v, of |-> call[c].ep] \in Media /\ pc[c] \notin Opening
    BY <1>4, VariantsAssumption DEF Resolved, Asked, Locals, Media, Opening
  <2> HIDE DEF v
  <2>2. CASE mounted
    BY <1>4, <2>1, <2>2, SessionMoves DEF Resolved, OpenMedia, v
  <2>3. CASE ~mounted
    BY <1>4, <2>3 DEF Resolved, OldSessionClosed
  <2> QED BY <2>2, <2>3
<1>5. ASSUME NEW c \in Calls, Ensure(c) PROVE OldSessionClosed'
  <2>1. KeptBy(c) \in Media /\ pc[c] \notin Opening
    BY <1>5, KeptByTyped DEF Ensure, Opening
  <2> QED BY <1>5, <2>1, SessionMoves DEF Ensure
<1>6. ASSUME NEW c \in Calls, CloseAndReturn(c) PROVE OldSessionClosed'
  <2>1. \A d \in Calls \ {c} : pc'[d] = pc[d] /\ call'[d] = call[d]
    BY <1>6 DEF CloseAndReturn, Return, Goto
  <2> QED BY <1>6, <2>1 DEF CloseAndReturn, OldSessionClosed
<1>7. ASSUME NEW c \in Calls, Opened(c) PROVE OldSessionClosed'
  <2>1. \A d \in Calls : /\ call'[d].prev = call[d].prev /\ call'[d].current = call[d].current
                         /\ pc[d] \in Opening => pc'[d] \in Opening
    BY <1>7 DEF Opened, Goto, Opening
  <2> QED BY <1>7, <2>1 DEF Opened, OldSessionClosed
<1>8. ASSUME NEW c \in Calls, OpenFails(c) PROVE OldSessionClosed'
  BY <1>8 DEF OpenFails, OldSessionClosed
<1>9. ASSUME NEW c \in Calls, HistoryRead(c) \/ Duration(c) \/ NoDuration(c) \/ Sought(c)
      PROVE  OldSessionClosed'
  <2>1. CASE /\ Goto(c, "duration") \/ Goto(c, "seek")
             /\ UNCHANGED <<pageVars, proxyVars, call, historyVars>>
    BY <2>1 DEF Goto, OldSessionClosed, Opening
  <2>2. CASE ~mounted /\ mounted' = mounted
    BY <2>2 DEF OldSessionClosed
  <2> QED BY <1>6, <1>9, <2>1, <2>2 DEF HistoryRead, Duration, NoDuration, Sought
<1>10. CASE Reject \/ Login \/ RecoveryEnds
  <2>1. pc[Recovery] \notin Opening /\ Recovery \in Calls
    BY <1>10 DEF Reject, Begin, Login, RecoveryEnds, Opening, Calls
  <2>2. UNCHANGED <<mounted, live, session, failed>>
        /\ \A d \in Calls \ {Recovery} : pc'[d] = pc[d] /\ call'[d] = call[d]
    BY <1>10, <2>1 DEF Reject, Login, RecoveryEnds, Goto
  <2> QED BY <2>1, <2>2 DEF OldSessionClosed
<1>11. CASE Reopen
  <2>1. media \in Media /\ Recovery \in Calls /\ pc[Recovery] \notin Opening
    BY <1>11, ReopenTyped DEF Opening
  <2> QED BY <1>11, <2>1, SessionMoves DEF Reopen, OpenMedia
<1>12. CASE OpenSheet \/ Expire \/ SaveRead \/ SaveWrite \/ UNCHANGED vars
  BY <1>12 DEF OpenSheet, Expire, SaveRead, SaveWrite, OldSessionClosed, vars
<1>13. CASE Dispose
  BY <1>13 DEF Dispose, OldSessionClosed
<1> QED BY <1>1, <1>2, <1>3, <1>4, <1>5, <1>7, <1>8, <1>9, <1>10, <1>11, <1>12, <1>13
        DEF Next, CallStep, OpenStep, Finished

\* Whatever overlaps, a session that is not the page's any more has a call
\* under way that will close it (_openMedia).
THEOREM OldSessionsAreClosed == Spec => []OldSessionClosed
<1>1. Init => OldSessionClosed
  BY DEF Init, OldSessionClosed
<1> QED BY <1>1, AlwaysTyped, ClosedStep, PTL DEF Spec

\* Only a call that waits for the engine creates a session on a page that is
\* gone.
NoneWaits == ~mounted /\ ~awaited => \A c \in Calls : pc[c] # "ensure"

LEMMA LeftStep == Typed /\ NoneWaits /\ NothingLeft /\ [Next]_vars => NoneWaits' /\ NothingLeft'
<1> SUFFICES ASSUME Typed, NoneWaits, NothingLeft, [Next]_vars PROVE NoneWaits' /\ NothingLeft'
  OBVIOUS
<1> USE DEF Typed, TypeOK, NoneWaits, NothingLeft, pageVars, proxyVars, callVars, historyVars
<1>1. ASSUME mounted, mounted' = mounted PROVE NoneWaits' /\ NothingLeft'
  BY <1>1
<1>2. CASE \/ \E c \in Plays, e \in Episodes : Select(c, e)
           \/ \E c \in Switches, v \in Variants : Switch(c, v)
           \/ Reject \/ Reopen
  BY <1>1, <1>2 DEF Select, Switch, Reject, Reopen, Begin, OpenMedia
<1>3. ASSUME NEW c \in Calls, Resolve(c) \/ PlayFails(c) \/ Find(c) \/ Upsert(c) \/ Restore(c)
      PROVE  NoneWaits' /\ NothingLeft'
  BY <1>3 DEF Resolve, PlayFails, Find, Upsert, Restore, Goto
<1>4. ASSUME NEW c \in Calls, Resolved(c) PROVE NoneWaits' /\ NothingLeft'
  <2>1. CASE mounted
    BY <1>1, <1>4, <2>1 DEF Resolved, OpenMedia
  <2>2. CASE ~mounted
    BY <1>4, <2>2 DEF Resolved, Goto
  <2> QED BY <2>1, <2>2
<1>5. ASSUME NEW c \in Calls, Ensure(c) PROVE NoneWaits' /\ NothingLeft'
  <2>1. UNCHANGED <<mounted, awaited>> /\ pc[c] = "ensure"
    BY <1>5 DEF Ensure
  <2> QED BY <1>5, <2>1
<1>6. ASSUME NEW c \in Calls, CloseAndReturn(c) PROVE NoneWaits' /\ NothingLeft'
  BY <1>6 DEF CloseAndReturn, Return, Goto
<1>7. ASSUME NEW c \in Calls, Opened(c) \/ OpenFails(c) \/ HistoryRead(c) \/ Duration(c)
                                \/ NoDuration(c) \/ Sought(c)
      PROVE  NoneWaits' /\ NothingLeft'
  BY <1>6, <1>7 DEF Opened, OpenFails, HistoryRead, Duration, NoDuration, Sought, Return, Goto
<1>8. CASE Login \/ RecoveryEnds
  BY <1>8 DEF Login, RecoveryEnds, Goto
<1>9. CASE Dispose
  BY <1>9, Zenon DEF Dispose
<1>10. CASE OpenSheet \/ Expire \/ SaveRead \/ SaveWrite \/ UNCHANGED vars
  BY <1>10 DEF OpenSheet, Expire, SaveRead, SaveWrite, vars
<1> QED BY <1>2, <1>3, <1>4, <1>5, <1>7, <1>8, <1>9, <1>10
        DEF Next, CallStep, OpenStep, Finished

\* A disposed page leaves no session behind, unless a call was waiting for the
\* engine at that moment (dispose, createSession).
THEOREM DisposeLeavesNothing == Spec => []NothingLeft
<1>1. Init => NoneWaits /\ NothingLeft
  BY DEF Init, NoneWaits, NothingLeft
<1> QED BY <1>1, AlwaysTyped, LeftStep, PTL DEF Spec

-----------------------------------------------------------------------------
(* The spinner.                                                            *)

\* A call that may have the spinner on.
Works(c) == pc[c] \notin {"idle", "login", "cookie"}

LEMMA SpinnerStep == Typed /\ SpinnerHasCause /\ [Next]_vars => SpinnerHasCause'
<1> SUFFICES ASSUME Typed, SpinnerHasCause, [Next]_vars PROVE SpinnerHasCause'
  OBVIOUS
<1> USE DEF Typed, TypeOK, SpinnerHasCause, pageVars, proxyVars, callVars
<1>1. ASSUME NEW c \in Calls, Works(c)',  \A d \in Calls \ {c} : pc'[d] = pc[d]
      PROVE  SpinnerHasCause'
  BY <1>1 DEF Works
<1>2. ASSUME StopSpinner, mounted' = mounted PROVE SpinnerHasCause'
  BY <1>2, Zenon DEF StopSpinner
<1>3. ASSUME NEW c \in Calls, NEW m \in Media, OpenMedia(c, m) PROVE SpinnerHasCause'
  <2>1. CASE CreateAndOpen(c, m) \/ Goto(c, "ensure")
    BY <1>1, <2>1 DEF CreateAndOpen, Goto, Works
  <2>2. CASE CreateFails(c, m)
    BY <1>2, <1>3, <2>2 DEF CreateFails, OpenMedia
  <2> QED BY <1>3, <2>1, <2>2 DEF OpenMedia
<1>4. ASSUME NEW c \in Plays, NEW e \in Episodes, Select(c, e) PROVE SpinnerHasCause'
  BY <1>1, <1>4 DEF Select, Goto, Works, Calls
<1>5. ASSUME NEW c \in Switches, NEW v \in Variants, Switch(c, v) PROVE SpinnerHasCause'
  <2>1. [ep |-> media.ep, variant |-> v, of |-> sheet.ep] \in Media /\ c \in Calls
    BY <1>5, SwitchedTyped DEF Switch, Calls
  <2> QED BY <1>3, <1>5, <2>1 DEF Switch
<1>6. ASSUME NEW c \in Calls, Resolve(c) \/ Find(c) \/ Upsert(c) \/ Opened(c) PROVE SpinnerHasCause'
  BY <1>1, <1>6 DEF Resolve, Find, Upsert, Opened, Goto, Works
<1>7. ASSUME NEW c \in Calls, PlayFails(c) \/ Restore(c) \/ OpenFails(c) \/ CloseAndReturn(c)
      PROVE  SpinnerHasCause'
  BY <1>2, <1>7, Zenon DEF PlayFails, Restore, OpenFails, CloseAndReturn
<1>8. ASSUME NEW c \in Calls, Resolved(c) PROVE SpinnerHasCause'
  <2> DEFINE v == IF call[c].variant = None THEN "raw" ELSE call[c].variant
  <2>1. v \in Variants /\ [ep |-> call[c].ep, variant |-> v, of |-> call[c].ep] \in Media
    BY <1>8, VariantsAssumption DEF Resolved, Asked, Locals, Media
  <2> HIDE DEF v
  <2>2. CASE mounted
    BY <1>3, <1>8, <2>1, <2>2 DEF Resolved, v
  <2>3. CASE ~mounted
    BY <1>8, <2>3 DEF Resolved
  <2> QED BY <2>2, <2>3
<1>9. ASSUME NEW c \in Calls, Ensure(c) PROVE SpinnerHasCause'
  <2> DEFINE m == KeptBy(c)
  <2>1. CASE CreateAndOpen(c, m)
    BY <1>1, <2>1 DEF CreateAndOpen, Goto, Works
  <2>2. CASE CreateFails(c, m)
    BY <1>2, <1>9, <2>2 DEF CreateFails, Ensure
  <2> QED BY <1>9, <2>1, <2>2 DEF Ensure
<1>10. ASSUME NEW c \in Calls, HistoryRead(c) \/ Duration(c) \/ NoDuration(c) \/ Sought(c)
       PROVE  SpinnerHasCause'
  <2>1. CASE Goto(c, "duration") \/ Goto(c, "seek")
    BY <1>1, <2>1 DEF Goto, Works
  <2>2. CASE ~mounted /\ mounted' = mounted
    BY <2>2
  <2> QED BY <1>7, <1>10, <2>1, <2>2 DEF HistoryRead, Duration, NoDuration, Sought
<1>11. CASE Reject \/ Login \/ RecoveryEnds
  <2>1. pc[Recovery] \in {"idle", "login", "cookie"} /\ UNCHANGED <<mounted, loading>>
        /\ \A d \in Calls \ {Recovery} : pc'[d] = pc[d]
    BY <1>11 DEF Reject, Begin, Login, RecoveryEnds, Goto
  <2> QED BY <2>1
<1>12. CASE Reopen
  <2>1. media \in Media /\ Recovery \in Calls
    BY <1>12, ReopenTyped
  <2> QED BY <1>3, <1>12, <2>1 DEF Reopen
<1>13. CASE Dispose
  BY <1>13 DEF Dispose
<1>14. CASE OpenSheet \/ Expire \/ SaveRead \/ SaveWrite \/ UNCHANGED vars
  BY <1>14 DEF OpenSheet, Expire, SaveRead, SaveWrite, vars
<1> QED BY <1>4, <1>5, <1>6, <1>7, <1>8, <1>9, <1>10, <1>11, <1>12, <1>13, <1>14
        DEF Next, CallStep, OpenStep, Finished

\* The spinner of a page that is there turns only while a call goes on that
\* will stop it (_openMedia, _playParsedEpisode, _switchCloudResolution).
THEOREM SpinnerStops == Spec => []SpinnerHasCause
<1>1. Init => SpinnerHasCause
  BY DEF Init, SpinnerHasCause
<1> QED BY <1>1, AlwaysTyped, SpinnerStep, PTL DEF Spec

-----------------------------------------------------------------------------
(* A page where one thing happens after the other.                         *)

Calm == ~overlapped /\ ~failed

PlaysCurrent == /\ OpenedIsCurrent /\ session = live
                /\ media # None => live = SessionFor(media)

\* The course of the one call there may be: what plays is the current media until
\* a call waits for the engine, which then serves nothing, or opens another one;
\* the session before that is kept until the call returns only if no new one has
\* replaced it.
Course ==
    /\ \A c, d \in Calls : pc[c] # "idle" /\ pc[d] # "idle" => c = d
    /\ (\A c \in Calls : pc[c] \notin Opening \cup {"ensure"}) => PlaysCurrent
    /\ \A c \in Calls :
         pc[c] = "ensure" =>
           session = live /\ media # None /\ media = KeptBy(c)
    /\ \A c \in Calls :
         pc[c] \in Opening =>
           /\ media # None /\ OpenedIsCurrent /\ session = SessionFor(media)
           /\ call[c].current = session
           /\ live = IF session = None THEN call[c].prev ELSE session

Served == Calm /\ mounted => Course

\* Errors and overlaps are remembered, and a page does not come back.
LEMMA CalmBefore ==
  ASSUME Typed, [Next]_vars
  PROVE  (Calm' => Calm) /\ (mounted' => mounted) /\ (stale => stale')
<1> DEFINE Keeps == /\ overlapped => overlapped'
                    /\ failed => failed'
                    /\ mounted' => mounted
                    /\ stale => stale'
<1> DEFINE Same == overlapped' = overlapped /\ failed' = failed /\ mounted' = mounted
                   /\ stale' = stale
<1> SUFFICES Keeps
  BY DEF Calm
<1>0. Same => Keeps
  OBVIOUS
<1> USE DEF pageVars, proxyVars, callVars, historyVars
<1>1. ASSUME NEW c, NEW m, CreateAndOpen(c, m) \/ CreateFails(c, m)
      PROVE  failed => failed'
  BY <1>1, Zenon DEF CreateAndOpen, CreateFails
<1>2. ASSUME NEW c, NEW m, OpenMedia(c, m)
      PROVE  (failed => failed') /\ (mounted' => mounted)
  <2>1. mounted' = mounted
    BY <1>2 DEF OpenMedia
  <2>2. CASE CreateAndOpen(c, m) \/ CreateFails(c, m)
    BY <1>1, <2>1, <2>2
  <2>3. CASE failed' = failed
    BY <2>1, <2>3
  <2> QED BY <1>2, <2>2, <2>3, Zenon DEF OpenMedia
<1>3. ASSUME NEW c, Begin(c) PROVE overlapped => overlapped'
  BY <1>3, Zenon DEF Begin
<1>4. ASSUME NEW c, NEW e, Select(c, e) PROVE Keeps
  <2>1. UNCHANGED <<mounted, failed, stale>>
    BY <1>4 DEF Select
  <2>2. overlapped => overlapped'
    BY <1>3, <1>4, Zenon DEF Select
  <2> QED BY <2>1, <2>2, Zenon
<1>5. ASSUME NEW c, NEW v, Switch(c, v) PROVE Keeps
  BY <1>2, <1>3, <1>5, Zenon DEF Switch
<1>6. ASSUME NEW c, Resolve(c) \/ PlayFails(c) \/ Find(c) \/ Upsert(c) \/ Restore(c) PROVE Keeps
  <2>1. Same
    BY <1>6 DEF Resolve, PlayFails, Find, Upsert, Restore
  <2> QED BY <1>0, <2>1, Zenon
<1>7. ASSUME NEW c, Resolved(c) PROVE Keeps
  <2> DEFINE v == IF call[c].variant = None THEN "raw" ELSE call[c].variant
  <2>1. CASE mounted
    <3>1. OpenMedia(c, [ep |-> call[c].ep, variant |-> v, of |-> call[c].ep]) /\ UNCHANGED <<overlapped, stale>>
      BY <1>7, <2>1 DEF Resolved
    <3> QED BY <1>2, <3>1, Zenon
  <2>2. CASE ~mounted
    <3>1. Same
      BY <1>7, <2>2 DEF Resolved
    <3> QED BY <1>0, <3>1, Zenon
  <2> QED BY <2>1, <2>2
<1>8. ASSUME NEW c, Ensure(c) PROVE Keeps
  <2>1. UNCHANGED <<mounted, overlapped, stale>>
        /\ \E m : CreateAndOpen(c, m) \/ CreateFails(c, m)
    BY <1>8, Zenon DEF Ensure
  <2> QED BY <1>1, <2>1, Zenon
<1>9. ASSUME NEW c, Opened(c) PROVE Keeps
  <2>1. Same
    BY <1>9 DEF Opened
  <2> QED BY <1>0, <2>1, Zenon
<1>10. ASSUME NEW c, OpenFails(c) PROVE Keeps
  <2>1. overlapped' = overlapped /\ mounted' = mounted /\ failed' = TRUE /\ stale' = stale
    BY <1>10 DEF OpenFails
  <2> QED BY <2>1, Zenon
<1>11. ASSUME NEW c, HistoryRead(c) \/ Duration(c) \/ NoDuration(c) \/ Sought(c) PROVE Keeps
  <2>1. CloseAndReturn(c) => Same
    BY DEF CloseAndReturn
  <2>2. Same
    BY <1>11, <2>1 DEF HistoryRead, Duration, NoDuration, Sought
  <2> QED BY <1>0, <2>2, Zenon
<1>12. ASSUME Reject PROVE Keeps
  <2>1. UNCHANGED <<mounted, failed, stale>>
    BY <1>12 DEF Reject
  <2>2. overlapped => overlapped'
    BY <1>3, <1>12, Zenon DEF Reject
  <2> QED BY <2>1, <2>2, Zenon
<1>13. ASSUME Reopen PROVE Keeps
  BY <1>2, <1>13, Zenon DEF Reopen
<1>14. ASSUME OpenSheet \/ Login \/ RecoveryEnds \/ Expire \/ SaveRead \/ SaveWrite \/ UNCHANGED vars
       PROVE  Keeps
  <2>1. Same
    BY <1>14 DEF OpenSheet, Login, RecoveryEnds, Expire, SaveRead, SaveWrite, vars
  <2> QED BY <1>0, <2>1, Zenon
<1>15. ASSUME Dispose PROVE Keeps
  <2>1. mounted /\ failed' = failed /\ stale' = stale
    BY <1>15 DEF Dispose
  <2>2. overlapped => overlapped'
    BY <1>15, Zenon DEF Dispose
  <2> QED BY <2>1, <2>2, Zenon
<1> HIDE DEF Keeps
<1> QED BY <1>4, <1>5, <1>6, <1>7, <1>8, <1>9, <1>10, <1>11, <1>12, <1>13, <1>14, <1>15
        DEF Next, CallStep, OpenStep, Finished

\* A call that begins on a calm page begins alone.
LEMMA BeginsAlone ==
  ASSUME NEW c, Begin(c), Calm'
  PROVE  \A d \in Calls : pc[d] = "idle"
BY Zenon DEF Begin, Calm, Busy

\* The one call opens a media while the page's session is the one served.
LEMMA OpensAlone ==
  ASSUME Typed, NEW c \in Calls, NEW m \in Media, mounted, session = live,
         \A d \in Calls \ {c} : pc[d] = "idle",
         OpenMedia(c, m) \/ (CreateAndOpen(c, m) /\ media' = m) \/ CreateFails(c, m),
         Calm'
  PROVE  Course'
<1> USE DEF Typed, TypeOK
<1>1. m # None
  BY NoneAssumption DEF Media
<1>2. CASE CreateAndOpen(c, m) /\ media' = m
  <2>1. pc' = [pc EXCEPT ![c] = "open"]
    BY <1>2 DEF CreateAndOpen, Goto
  <2>2. pc'[c] = "open" /\ \A d \in Calls \ {c} : pc'[d] = "idle"
    BY <2>1
  <2>3. /\ session' = SessionFor(m) /\ opened' = [m EXCEPT !.of = Streamed(m)]
        /\ live' = IF SessionFor(m) = None THEN live ELSE SessionFor(m)
    BY <1>2 DEF CreateAndOpen
  <2>4. call'[c].prev = session /\ call'[c].current = SessionFor(m)
    BY <1>2 DEF CreateAndOpen, NoCall
  <2>5. SessionFor(media)' = SessionFor(m)
    BY <1>2 DEF SessionFor
  <2>6. OpenedIsCurrent'
    BY <1>1, <1>2, <2>3, StreamedTyped DEF OpenedIsCurrent
  <2> QED BY <1>1, <1>2, <2>2, <2>3, <2>4, <2>5, <2>6 DEF Course, Opening
<1>3. CASE CreateFails(c, m)
  BY <1>3, Zenon DEF CreateFails, Calm
<1>4. CASE /\ media' = m
           /\ call' = [call EXCEPT ![c] = Kept(m)]
           /\ Goto(c, "ensure")
           /\ UNCHANGED <<live, source, session, opened, failed>>
  <2>1. pc'[c] = "ensure" /\ \A d \in Calls \ {c} : pc'[d] = "idle"
    BY <1>4 DEF Goto
  <2>2. call'[c].ep = m.ep /\ call'[c].variant = m.variant /\ call'[c].of = m.of
    BY <1>4, KeptTyped
  <2>3. media' = KeptBy(c)'
    BY <1>4, <2>2 DEF KeptBy, Media
  <2> QED BY <1>1, <1>4, <2>1, <2>3 DEF Course, Opening
<1> QED BY <1>2, <1>3, <1>4 DEF OpenMedia

LEMMA ServedStep == Typed /\ Served /\ [Next]_vars => Served'
<1> SUFFICES ASSUME Typed, Course, mounted, [Next]_vars, Calm', mounted' PROVE Course'
  BY CalmBefore DEF Served
<1> USE DEF Typed, TypeOK, pageVars, proxyVars, callVars, historyVars
<1>1. \A c, d \in Calls : pc[c] # "idle" /\ pc[d] # "idle" => c = d
  BY DEF Course
<1>2. ASSUME \A d \in Calls : pc[d] = "idle" PROVE PlaysCurrent
  BY <1>2 DEF Course, Opening
<1>3. ASSUME NEW c \in Calls, pc[c] # "idle", pc[c] \notin Opening \cup {"ensure"}
      PROVE  PlaysCurrent
  BY <1>1, <1>3 DEF Course, Opening
<1>4. ASSUME NEW c \in Calls, \A d \in Calls \ {c} : pc[d] = "idle" /\ pc'[d] = pc[d],
             PlaysCurrent, UNCHANGED <<media, opened, session, live>>,
             pc'[c] \notin Opening \cup {"ensure"}
      PROVE  Course'
  <2>1. PlaysCurrent'
    BY <1>4 DEF PlaysCurrent, OpenedIsCurrent, SessionFor
  <2> QED BY <1>4, <2>1 DEF Course, Opening
<1>5. ASSUME NEW c \in Plays, NEW e \in Episodes, Select(c, e) PROVE Course'
  <2>1. (\A d \in Calls : pc[d] = "idle") /\ c \in Calls
    BY <1>5, BeginsAlone DEF Select, Calls
  <2>2. /\ UNCHANGED <<media, opened, session, live>>
        /\ pc'[c] = "resolve" /\ \A d \in Calls \ {c} : pc'[d] = pc[d]
    BY <1>5, <2>1 DEF Select, Goto
  <2> QED BY <1>2, <1>4, <2>1, <2>2 DEF Opening
<1>6. ASSUME NEW c \in Switches, NEW v \in Variants, Switch(c, v) PROVE Course'
  <2>1. (\A d \in Calls : pc[d] = "idle") /\ c \in Calls
    BY <1>6, BeginsAlone DEF Switch, Calls
  <2>2. [ep |-> media.ep, variant |-> v, of |-> sheet.ep] \in Media
    BY <1>6, SwitchedTyped DEF Switch
  <2>3. session = live
    BY <1>2, <2>1 DEF PlaysCurrent
  <2> QED BY <1>6, <2>1, <2>2, <2>3, OpensAlone DEF Switch
<1>7. ASSUME NEW c \in Calls,
             Resolve(c) \/ PlayFails(c) \/ Find(c) \/ Upsert(c) \/ Restore(c)
      PROVE  Course'
  <2>1. pc[c] \in {"resolve", "find", "upsert", "restore"}
    BY <1>7 DEF Resolve, PlayFails, Find, Upsert, Restore
  <2>2. /\ pc'[c] \in {"find", "upsert", "resolved", "idle"}
        /\ \A d \in Calls \ {c} : pc'[d] = pc[d]
    BY <1>7 DEF Resolve, PlayFails, Find, Upsert, Restore, Goto
  <2>3. UNCHANGED <<media, opened, session, live>>
    BY <1>7 DEF Resolve, PlayFails, Find, Upsert, Restore
  <2>4. PlaysCurrent
    BY <1>3, <2>1 DEF Opening
  <2>5. \A d \in Calls \ {c} : pc[d] = "idle"
    BY <1>1, <2>1
  <2> QED BY <1>4, <2>2, <2>3, <2>4, <2>5 DEF Opening
<1>8. ASSUME NEW c \in Calls, Resolved(c) PROVE Course'
  <2> DEFINE v == IF call[c].variant = None THEN "raw" ELSE call[c].variant
  <2>1. v \in Variants /\ [ep |-> call[c].ep, variant |-> v, of |-> call[c].ep] \in Media /\ pc[c] = "resolved"
    BY <1>8, VariantsAssumption DEF Resolved, Asked, Locals, Media
  <2> HIDE DEF v
  <2>2. session = live /\ \A d \in Calls \ {c} : pc[d] = "idle"
    BY <1>1, <1>3, <2>1 DEF Opening, PlaysCurrent
  <2>3. OpenMedia(c, [ep |-> call[c].ep, variant |-> v, of |-> call[c].ep])
    BY <1>8 DEF Resolved, v
  <2> QED BY <2>1, <2>2, <2>3, OpensAlone
<1>9. ASSUME NEW c \in Calls, Ensure(c) PROVE Course'
  <2> DEFINE m == KeptBy(c)
  <2>1. m \in Media /\ pc[c] = "ensure"
    BY <1>9, KeptByTyped DEF Ensure
  <2>2. session = live /\ media = m
    BY <2>1 DEF Course
  <2>3. \A d \in Calls \ {c} : pc[d] = "idle"
    BY <1>1, <2>1
  <2>4. media' = m
    BY <1>9, <2>2 DEF Ensure
  <2>5. CreateAndOpen(c, m) \/ CreateFails(c, m)
    BY <1>9 DEF Ensure
  <2> HIDE DEF m
  <2> QED BY <2>1, <2>2, <2>3, <2>4, <2>5, OpensAlone
<1>10. ASSUME NEW c \in Calls, pc[c] \in Opening, CloseAndReturn(c) PROVE Course'
  <2>1. /\ pc'[c] \in {"restore", "idle"} /\ \A d \in Calls \ {c} : pc'[d] = pc[d]
        /\ UNCHANGED <<media, opened, session>>
        /\ live' = IF call[c].prev = live /\ call[c].prev # call[c].current
                   THEN None ELSE live
    BY <1>10 DEF CloseAndReturn, Return, Goto
  <2>2. \A d \in Calls \ {c} : pc[d] = "idle"
    BY <1>1, <1>10 DEF Opening
  <2>3. /\ media # None /\ OpenedIsCurrent /\ session = SessionFor(media)
        /\ call[c].current = session
        /\ live = IF session = None THEN call[c].prev ELSE session
    BY <1>10 DEF Course
  <2>4. live' = session
    BY <2>1, <2>3
  <2>5. PlaysCurrent'
    BY <2>1, <2>3, <2>4 DEF PlaysCurrent, OpenedIsCurrent, SessionFor
  <2> QED BY <2>1, <2>2, <2>5 DEF Course, Opening
<1>11. ASSUME NEW c \in Calls, pc[c] \in Opening, pc'[c] \in Opening,
              \A d \in Calls \ {c} : pc'[d] = pc[d],
              call'[c].prev = call[c].prev, call'[c].current = call[c].current,
              UNCHANGED <<media, opened, session, live>>
       PROVE  Course'
  <2>1. \A d \in Calls \ {c} : pc[d] = "idle"
    BY <1>1, <1>11 DEF Opening
  <2>2. /\ media # None /\ OpenedIsCurrent /\ session = SessionFor(media)
        /\ call[c].current = session
        /\ live = IF session = None THEN call[c].prev ELSE session
    BY <1>11 DEF Course
  <2>3. SessionFor(media)' = SessionFor(media) /\ OpenedIsCurrent'
    BY <1>11, <2>2 DEF SessionFor, OpenedIsCurrent
  <2> QED BY <1>11, <2>1, <2>2, <2>3 DEF Course, Opening
<1>12. ASSUME NEW c \in Calls, Opened(c) PROVE Course'
  <2>1. /\ pc[c] \in Opening /\ pc'[c] \in Opening
        /\ \A d \in Calls \ {c} : pc'[d] = pc[d]
    BY <1>12 DEF Opened, Goto, Opening
  <2>2. call'[c].prev = call[c].prev /\ call'[c].current = call[c].current
    BY <1>12 DEF Opened
  <2>3. UNCHANGED <<media, opened, session, live>>
    BY <1>12 DEF Opened
  <2> QED BY <1>11, <2>1, <2>2, <2>3
<1>13. ASSUME NEW c \in Calls, OpenFails(c) PROVE Course'
  BY <1>13, Zenon DEF OpenFails, Calm
<1>14. ASSUME NEW c \in Calls, HistoryRead(c) \/ Duration(c) \/ NoDuration(c) \/ Sought(c)
       PROVE  Course'
  <2>1. pc[c] \in Opening
    BY <1>14 DEF HistoryRead, Duration, NoDuration, Sought, Opening
  <2>2. \/ CloseAndReturn(c)
        \/ (Goto(c, "duration") \/ Goto(c, "seek")) /\ UNCHANGED <<call, pageVars, proxyVars>>
    BY <1>14 DEF HistoryRead, Duration, NoDuration, Sought
  <2>3. CASE (Goto(c, "duration") \/ Goto(c, "seek")) /\ UNCHANGED <<call, pageVars, proxyVars>>
    BY <1>11, <2>1, <2>3 DEF Goto, Opening
  <2> QED BY <1>10, <2>1, <2>2, <2>3
<1>15. CASE Reject
  <2>1. (\A d \in Calls : pc[d] = "idle") /\ Recovery \in Calls
    BY <1>15, BeginsAlone DEF Reject, Calls
  <2>2. /\ UNCHANGED <<media, opened, session, live>>
        /\ pc'[Recovery] = "login" /\ \A d \in Calls \ {Recovery} : pc'[d] = pc[d]
    BY <1>15, <2>1 DEF Reject, Goto
  <2> QED BY <1>2, <1>4, <2>1, <2>2 DEF Opening
<1>16. CASE Login \/ RecoveryEnds
  <2>1. pc[Recovery] \in {"login", "cookie"} /\ Recovery \in Calls
    BY <1>16 DEF Login, RecoveryEnds, Calls
  <2>2. /\ UNCHANGED <<media, opened, session, live>>
        /\ pc'[Recovery] \in {"cookie", "idle"} /\ \A d \in Calls \ {Recovery} : pc'[d] = pc[d]
    BY <1>16, <2>1 DEF Login, RecoveryEnds, Goto
  <2>3. PlaysCurrent /\ \A d \in Calls \ {Recovery} : pc[d] = "idle"
    BY <1>1, <1>3, <2>1 DEF Opening
  <2> QED BY <1>4, <2>1, <2>2, <2>3 DEF Opening
<1>17. CASE Reopen
  <2>1. media \in Media /\ Recovery \in Calls /\ pc[Recovery] = "cookie"
    BY <1>17, ReopenTyped
  <2>2. session = live /\ \A d \in Calls \ {Recovery} : pc[d] = "idle"
    BY <1>1, <1>3, <2>1 DEF Opening, PlaysCurrent
  <2> QED BY <1>17, <2>1, <2>2, OpensAlone DEF Reopen
<1>18. CASE OpenSheet \/ Expire \/ SaveRead \/ SaveWrite \/ UNCHANGED vars
  <2>1. UNCHANGED <<pc, call, media, opened, session, live>>
    BY <1>18 DEF OpenSheet, Expire, SaveRead, SaveWrite, vars
  <2> QED BY <2>1 DEF Course, PlaysCurrent, OpenedIsCurrent, SessionFor, KeptBy
<1>19. CASE Dispose
  BY <1>19, Zenon DEF Dispose
<1> QED BY <1>5, <1>6, <1>7, <1>8, <1>9, <1>12, <1>13, <1>14, <1>15, <1>16, <1>17, <1>18, <1>19
        DEF Next, CallStep, OpenStep, Finished

-----------------------------------------------------------------------------
(* The file of a media's own episode.                                      *)

\* Until a variant is chosen on a sheet of an earlier media, everything opened, kept
\* or streamed is a file of the episode whose progress key it goes by.
Owns ==
    /\ media # None => media.of = media.ep
    /\ opened # None => opened.of = opened.ep
    /\ live # None => source = live
    /\ \A c \in Calls : pc[c] = "ensure" => call[c].of = call[c].ep

Owned == ~stale => Owns

LEMMA OpensOwn ==
  ASSUME Typed, Owns, NEW c \in Calls, NEW m \in Media, m.of = m.ep,
         OpenMedia(c, m) \/ (media' = media /\ (CreateAndOpen(c, m) \/ CreateFails(c, m)))
  PROVE  Owns'
<1> USE DEF Typed, TypeOK
<1>1. m # None /\ media' \in {media, m}
  BY NoneAssumption DEF OpenMedia, Media
<1>2. CASE CreateAndOpen(c, m)
  <2>1. Streamed(m) = m.ep /\ SessionFor(m) \in {None, m.ep}
    BY DEF Streamed, SessionFor, Owns
  <2>2. [m EXCEPT !.of = Streamed(m)].of = m.ep /\ [m EXCEPT !.of = Streamed(m)].ep = m.ep
    BY <2>1 DEF Media
  <2>3. opened' \in {opened, [m EXCEPT !.of = Streamed(m)]}
    BY <1>2 DEF CreateAndOpen
  <2>4. live' # None => source' = live'
    BY <1>2, <2>1 DEF CreateAndOpen, Owns
  <2>5. pc'[c] = "open" /\ \A d \in Calls \ {c} : pc'[d] = pc[d] /\ call'[d] = call[d]
    BY <1>2 DEF CreateAndOpen, Goto
  <2> QED BY <1>1, <2>2, <2>3, <2>4, <2>5 DEF Owns
<1>3. CASE CreateFails(c, m)
  <2>1. live' = None /\ UNCHANGED <<source, opened>> /\ pc'[c] \in {"idle", "restore"}
        /\ \A d \in Calls \ {c} : pc'[d] = pc[d] /\ call'[d] = call[d]
    BY <1>3 DEF CreateFails, Return, Goto
  <2> QED BY <1>1, <2>1 DEF Owns
<1>4. CASE /\ call' = [call EXCEPT ![c] = Kept(m)] /\ Goto(c, "ensure")
           /\ UNCHANGED <<live, source, session, opened, failed>>
  <2>1. \A d \in Calls \ {c} : pc'[d] = pc[d] /\ call'[d] = call[d]
    BY <1>4 DEF Goto
  <2>2. call'[c].of = call'[c].ep
    BY <1>4, KeptTyped
  <2> QED BY <1>1, <1>4, <2>1, <2>2 DEF Owns
<1> QED BY <1>2, <1>3, <1>4 DEF OpenMedia

LEMMA OwnedStep == Typed /\ Owned /\ [Next]_vars => Owned'
<1> SUFFICES ASSUME Typed, Owns, [Next]_vars, ~stale' PROVE Owns'
  BY CalmBefore DEF Owned
<1> USE DEF Typed, TypeOK, pageVars, proxyVars, callVars
<1>1. ASSUME NEW c \in Calls, \A d \in Calls \ {c} : pc'[d] = pc[d] /\ call'[d] = call[d],
             pc'[c] # "ensure", UNCHANGED <<media, opened, source>>, live' \in {None, live}
      PROVE  Owns'
  BY <1>1 DEF Owns
<1>2. ASSUME NEW c \in Plays, NEW e \in Episodes, Select(c, e) PROVE Owns'
  <2>1. c \in Calls /\ UNCHANGED <<media, opened, source, live>> /\ pc'[c] = "resolve"
        /\ \A d \in Calls \ {c} : pc'[d] = pc[d] /\ call'[d] = call[d]
    BY <1>2 DEF Select, Goto, Calls
  <2> QED BY <1>1, <2>1
<1>3. ASSUME NEW c \in Switches, NEW v \in Variants, Switch(c, v) PROVE Owns'
  <2>1. [ep |-> media.ep, variant |-> v, of |-> sheet.ep] \in Media /\ c \in Calls
    BY <1>3, SwitchedTyped DEF Switch, Calls
  <2>2. sheet.ep = media.ep
    BY <1>3, Zenon DEF Switch
  <2> QED BY <1>3, <2>1, <2>2, OpensOwn DEF Switch
<1>4. ASSUME NEW c \in Calls, Resolve(c) \/ PlayFails(c) \/ Find(c) \/ Upsert(c) \/ Restore(c)
      PROVE  Owns'
  <2>1. UNCHANGED <<media, opened, source, live>> /\ pc'[c] # "ensure"
        /\ \A d \in Calls \ {c} : pc'[d] = pc[d] /\ call'[d] = call[d]
    BY <1>4 DEF Resolve, PlayFails, Find, Upsert, Restore, Goto
  <2> QED BY <1>1, <2>1
<1>5. ASSUME NEW c \in Calls, Resolved(c) PROVE Owns'
  <2> DEFINE v == IF call[c].variant = None THEN "raw" ELSE call[c].variant
  <2>1. v \in Variants /\ [ep |-> call[c].ep, variant |-> v, of |-> call[c].ep] \in Media
    BY <1>5, VariantsAssumption DEF Resolved, Asked, Locals, Media
  <2> HIDE DEF v
  <2>2. CASE mounted
    BY <1>5, <2>1, <2>2, OpensOwn DEF Resolved, v
  <2>3. CASE ~mounted
    BY <1>1, <1>5, <2>3 DEF Resolved, Goto
  <2> QED BY <2>2, <2>3
<1>6. ASSUME NEW c \in Calls, Ensure(c) PROVE Owns'
  <2>1. KeptBy(c) \in Media /\ KeptBy(c).of = KeptBy(c).ep
    BY <1>6, KeptByTyped DEF Ensure, Owns, KeptBy
  <2> QED BY <1>6, <2>1, OpensOwn DEF Ensure
<1>7. ASSUME NEW c \in Calls, CloseAndReturn(c) PROVE Owns'
  BY <1>1, <1>7 DEF CloseAndReturn, Return, Goto
<1>8. ASSUME NEW c \in Calls, Opened(c) \/ OpenFails(c) \/ HistoryRead(c) \/ Duration(c)
                                \/ NoDuration(c) \/ Sought(c)
      PROVE  Owns'
  <2>1. CASE CloseAndReturn(c)
    BY <1>7, <2>1
  <2>2. CASE ~CloseAndReturn(c)
    <3>1. UNCHANGED <<media, opened, source, live>> /\ pc'[c] # "ensure"
          /\ \A d \in Calls \ {c} : pc'[d] = pc[d] /\ call'[d] = call[d]
      BY <1>8, <2>2
         DEF Opened, OpenFails, HistoryRead, Duration, NoDuration, Sought, Return, Goto
    <3> QED BY <1>1, <3>1
  <2> QED BY <2>1, <2>2
<1>9. CASE Reject \/ Login \/ RecoveryEnds
  <2>1. Recovery \in Calls /\ UNCHANGED <<media, opened, source, live>>
        /\ pc'[Recovery] # "ensure"
        /\ \A d \in Calls \ {Recovery} : pc'[d] = pc[d] /\ call'[d] = call[d]
    BY <1>9 DEF Reject, Login, RecoveryEnds, Goto, Calls
  <2> QED BY <1>1, <2>1
<1>10. CASE Reopen
  <2>1. media # None
    BY <1>10, ReopenTyped, NoneAssumption DEF Media
  <2>2. media.of = media.ep
    BY <2>1 DEF Owns
  <2> QED BY <1>10, <2>2, ReopenTyped, OpensOwn DEF Reopen
<1>11. CASE OpenSheet \/ Expire \/ Dispose \/ SaveRead \/ SaveWrite \/ UNCHANGED vars
  <2>1. UNCHANGED <<media, opened, source, pc, call>> /\ live' \in {None, live}
    BY <1>11 DEF OpenSheet, Expire, Dispose, SaveRead, SaveWrite, vars
  <2> QED BY <2>1 DEF Owns
<1> QED BY <1>2, <1>3, <1>4, <1>5, <1>6, <1>8, <1>9, <1>10, <1>11
        DEF Next, CallStep, OpenStep, Finished

LEMMA AlwaysServed == Spec => [](Typed /\ Served /\ Owned)
<1>1. Init => Served
  BY NoneAssumption DEF Init, Served, Course, PlaysCurrent, OpenedIsCurrent, Opening
<1>2. Init => Owned
  BY DEF Init, Owned, Owns
<1> QED BY <1>1, <1>2, AlwaysTyped, ServedStep, OwnedStep, PTL DEF Spec

\* On a page where calls follow each other and every media opens, the player is at the
\* current media whenever no call is under way, with the file of its own episode unless
\* a variant was chosen on a sheet of an earlier media, and the engine serves that
\* media's session and no other (_openMedia, createSession, closeSession).
THEOREM CurrentServed == Spec => []CurrentIsServed
<1>1. ASSUME Typed, Served, Owned, mounted, ~Busy, Calm
      PROVE  /\ PlaysCurrent
             /\ opened # None /\ ~stale => opened.of = media.ep
  <2>1. PlaysCurrent
    BY <1>1 DEF Served, Course, Busy, Opening
  <2>2. opened # None /\ ~stale => opened.of = opened.ep
    BY <1>1 DEF Owned, Owns
  <2>3. opened # None => opened.ep = media.ep
    BY <1>1, <2>1 DEF PlaysCurrent, OpenedIsCurrent, Typed, TypeOK, Media
  <2> QED BY <2>1, <2>2, <2>3
<1>2. Typed /\ Served /\ Owned => CurrentIsServed
  BY <1>1 DEF CurrentIsServed, PlaysCurrent, Calm
<1> QED BY <1>2, AlwaysServed, PTL

-----------------------------------------------------------------------------
(* The position in the history entry.                                      *)

\* What is read of the entry is as good as the entry, and the entry names the episode
\* whose media the page has, but for a call that is just going to open it; so the
\* position a disposed page saves, that of what plays, is one of that episode.
Place ==
    /\ history.position \in {None, history.last}
    /\ \A c \in Calls : pc[c] = "upsert" => call[c].read.position \in {None, call[c].read.last}
    /\ mounted =>
         /\ saving.step = "no"
         /\ \A c \in Calls : pc[c] = "resolved" => history.last = call[c].ep
         /\ (\A c \in Calls : pc[c] # "resolved") /\ media # None => history.last = media.ep
    /\ ~mounted =>
         /\ \A c \in Calls : pc[c] = "idle"
         /\ saving.step = "read" => saving.position = history.last
         /\ saving.step = "write" => saving.position = saving.read.last

Positioned == Calm /\ ~stale => Place

\* A page that is gone starts nothing; only its save is left.
LEMMA PlaceAfter ==
  ASSUME Typed, Place, ~mounted, [Next]_vars
  PROVE  Place'
<1> USE DEF Typed, TypeOK, pageVars, proxyVars, callVars, historyVars
<1>1. \A c \in Calls : pc[c] = "idle"
  BY DEF Place
<1>2. Plays \subseteq Calls /\ Switches \subseteq Calls /\ Recovery \in Calls
  BY DEF Calls
<1>3. ASSUME NEW c \in Calls, CallStep(c) PROVE FALSE
  <2>1. pc[c] # "idle"
    BY <1>3 DEF CallStep, OpenStep, Resolve, PlayFails, Find, Upsert, Resolved, Restore, Ensure,
                Opened, OpenFails, HistoryRead, Duration, NoDuration, Sought
  <2> QED BY <1>1, <2>1
<1>4. \/ Expire \/ UNCHANGED vars \/ SaveRead \/ SaveWrite
  BY <1>1, <1>2, <1>3, Zenon
     DEF Next, Select, Switch, OpenSheet, Begin, Reject, Login, Reopen, RecoveryEnds, Dispose, Finished
<1>5. CASE Expire \/ UNCHANGED vars
  <2>1. UNCHANGED <<mounted, media, history, saving, pc, call>>
    BY <1>5 DEF Expire, vars, entryVars
  <2> QED BY <2>1 DEF Place
<1>6. CASE SaveRead
  <2>1. UNCHANGED <<mounted, history, pc, call>>
    BY <1>6, Zenon DEF SaveRead
  <2>2. /\ saving.step = "read" /\ saving'.position = saving.position
        /\ saving'.step # "read" /\ saving'.read = history
    BY <1>6 DEF SaveRead
  <2> QED BY <1>1, <2>1, <2>2 DEF Place
<1>7. CASE SaveWrite
  <2>1. UNCHANGED <<mounted, pc, call>>
    BY <1>7 DEF SaveWrite
  <2>2. saving.step = "write" /\ saving'.step = "no"
    BY <1>7 DEF SaveWrite
  <2>3. history'.last = saving.read.last /\ history'.position = saving.position
    BY <1>7 DEF SaveWrite, Entry
  <2> QED BY <1>1, <2>1, <2>2, <2>3 DEF Place
<1> QED BY <1>4, <1>5, <1>6, <1>7

LEMMA PlaceStep ==
  ASSUME Typed, Served, Calm, Owns, Place, mounted, [Next]_vars, Calm'
  PROVE  Place'
<1> USE DEF Typed, TypeOK, pageVars, proxyVars, entryVars, callVars, historyVars
<1>1. \A c, d \in Calls : pc[c] # "idle" /\ pc[d] # "idle" => c = d
  BY DEF Served, Course
<1>2. ASSUME NEW c \in Calls, \A d \in Calls \ {c} : pc[d] = "idle" /\ pc'[d] = pc[d],
             UNCHANGED <<mounted, history, saving>>, pc'[c] # "resolved",
             pc'[c] = "upsert" => call'[c].read.position \in {None, call'[c].read.last},
             media' # None => history.last = media'.ep
      PROVE  Place'
  BY <1>2 DEF Place
<1>3. ASSUME NEW c \in Calls, pc[c] # "resolved", \A d \in Calls \ {c} : pc[d] = "idle"
      PROVE  media # None => history.last = media.ep
  BY <1>3 DEF Place
<1>4. ASSUME NEW c \in Calls, NEW m \in Media, OpenMedia(c, m), history.last = m.ep,
             \A d \in Calls \ {c} : pc[d] = "idle"
      PROVE  Place'
  <2>1. /\ media' = m /\ pc'[c] \in {"open", "idle", "restore", "ensure"}
        /\ \A d \in Calls \ {c} : pc'[d] = pc[d]
    BY <1>4, OpenEffects
  <2>2. UNCHANGED <<mounted, history, saving>>
    BY <1>4 DEF OpenMedia
  <2> QED BY <1>2, <1>4, <2>1, <2>2
<1>5. ASSUME NEW c \in Plays, NEW e \in Episodes, Select(c, e) PROVE Place'
  <2>1. (\A d \in Calls : pc[d] = "idle") /\ c \in Calls
    BY <1>5, BeginsAlone DEF Select, Calls
  <2>2. UNCHANGED <<mounted, media, history, saving>>
    BY <1>5 DEF Select
  <2>3. pc'[c] = "resolve" /\ \A d \in Calls \ {c} : pc'[d] = pc[d]
    BY <1>5, <2>1 DEF Select, Goto
  <2> QED BY <1>2, <1>3, <2>1, <2>2, <2>3
<1>6. ASSUME NEW c \in Switches, NEW v \in Variants, Switch(c, v) PROVE Place'
  <2>1. (\A d \in Calls : pc[d] = "idle") /\ c \in Calls
    BY <1>6, BeginsAlone DEF Switch, Calls
  <2>2. media # None /\ [ep |-> media.ep, variant |-> v, of |-> sheet.ep] \in Media
    BY <1>6, SwitchedTyped DEF Switch
  <2>3. OpenMedia(c, [ep |-> media.ep, variant |-> v, of |-> sheet.ep])
    BY <1>6 DEF Switch
  <2> QED BY <1>3, <1>4, <2>1, <2>2, <2>3
<1>7. ASSUME NEW c \in Calls, Resolve(c) \/ PlayFails(c) \/ Restore(c) \/ Find(c) PROVE Place'
  <2>1. pc[c] \in {"resolve", "find", "upsert", "restore"} /\ UNCHANGED <<mounted, media, history, saving>>
    BY <1>7 DEF Resolve, PlayFails, Restore, Find
  <2>2. pc'[c] \in {"find", "upsert", "idle"} /\ \A d \in Calls \ {c} : pc'[d] = pc[d]
    BY <1>7 DEF Resolve, PlayFails, Restore, Find, Goto
  <2>3. pc'[c] = "upsert" => call'[c].read = history
    BY <1>7, <2>1 DEF Resolve, PlayFails, Restore, Find, Goto
  <2>4. \A d \in Calls \ {c} : pc[d] = "idle"
    BY <1>1, <2>1
  <2>5. history.position \in {None, history.last}
    BY DEF Place
  <2> QED BY <1>2, <1>3, <2>1, <2>2, <2>3, <2>4, <2>5
<1>8. ASSUME NEW c \in Calls, Upsert(c) PROVE Place'
  <2>1. /\ pc[c] = "upsert" /\ pc'[c] = "resolved" /\ call' = call /\ mounted' = mounted
        /\ \A d \in Calls \ {c} : pc'[d] = pc[d]
    BY <1>8 DEF Upsert, Goto
  <2>2. \A d \in Calls \ {c} : pc[d] = "idle"
    BY <1>1, <2>1
  <2>3. history'.last = call[c].ep /\ saving'.step = saving.step
    BY <1>8 DEF Upsert
  <2>4. history'.position = IF call[c].read.last = call[c].ep THEN call[c].read.position ELSE None
    BY <1>8 DEF Upsert
  <2>5. call[c].read.position \in {None, call[c].read.last}
    BY <2>1 DEF Place
  <2> QED BY <2>1, <2>2, <2>3, <2>4, <2>5 DEF Place
<1>9. ASSUME NEW c \in Calls, Resolved(c) PROVE Place'
  <2> DEFINE v == IF call[c].variant = None THEN "raw" ELSE call[c].variant
  <2>1. v \in Variants /\ [ep |-> call[c].ep, variant |-> v, of |-> call[c].ep] \in Media /\ pc[c] = "resolved"
    BY <1>9, VariantsAssumption DEF Resolved, Asked, Locals, Media
  <2> HIDE DEF v
  <2>2. \A d \in Calls \ {c} : pc[d] = "idle"
    BY <1>1, <2>1
  <2>3. OpenMedia(c, [ep |-> call[c].ep, variant |-> v, of |-> call[c].ep])
    BY <1>9 DEF Resolved, v
  <2>4. history.last = call[c].ep
    BY <2>1 DEF Place
  <2> QED BY <1>4, <2>1, <2>2, <2>3, <2>4
<1>10. ASSUME NEW c \in Calls, OpenStep(c) PROVE Place'
  <2>1. pc[c] \in Opening \cup {"ensure"} /\ UNCHANGED <<mounted, media, history, saving>>
    BY <1>10 DEF OpenStep, Ensure, Opened, OpenFails, HistoryRead, Duration, NoDuration, Sought,
                 CloseAndReturn, Opening
  <2>2. /\ \A d \in Calls \ {c} : pc'[d] = pc[d]
        /\ pc'[c] \in Opening \cup {"idle", "restore"}
    BY <1>10 DEF OpenStep, Ensure, Opened, OpenFails, HistoryRead, Duration, NoDuration, Sought,
                 CreateAndOpen, CreateFails, CloseAndReturn, Opening, Return, Goto
  <2>3. \A d \in Calls \ {c} : pc[d] = "idle"
    BY <1>1, <2>1 DEF Opening
  <2> QED BY <1>2, <1>3, <2>1, <2>2, <2>3 DEF Opening
<1>11. CASE Reject
  <2>1. (\A d \in Calls : pc[d] = "idle") /\ Recovery \in Calls
    BY <1>11, BeginsAlone DEF Reject, Calls
  <2>2. UNCHANGED <<mounted, media, history, saving>>
    BY <1>11 DEF Reject
  <2>3. pc'[Recovery] = "login" /\ \A d \in Calls \ {Recovery} : pc'[d] = pc[d]
    BY <1>11, <2>1 DEF Reject, Goto
  <2> QED BY <1>2, <1>3, <2>1, <2>2, <2>3
<1>12. CASE Login \/ RecoveryEnds
  <2>1. pc[Recovery] \in {"login", "cookie"} /\ Recovery \in Calls
    BY <1>12 DEF Login, RecoveryEnds, Calls
  <2>2. UNCHANGED <<mounted, media, history, saving>>
    BY <1>12 DEF Login, RecoveryEnds
  <2>3. pc'[Recovery] \in {"cookie", "idle"} /\ \A d \in Calls \ {Recovery} : pc'[d] = pc[d]
    BY <1>12, <2>1 DEF Login, RecoveryEnds, Goto
  <2>4. \A d \in Calls \ {Recovery} : pc[d] = "idle"
    BY <1>1, <2>1
  <2> QED BY <1>2, <1>3, <2>1, <2>2, <2>3, <2>4
<1>13. CASE Reopen
  <2>1. media \in Media /\ Recovery \in Calls /\ pc[Recovery] = "cookie"
    BY <1>13, ReopenTyped
  <2>2. media # None
    BY <2>1, NoneAssumption DEF Media
  <2>3. \A d \in Calls \ {Recovery} : pc[d] = "idle"
    BY <1>1, <2>1
  <2> QED BY <1>3, <1>4, <1>13, <2>1, <2>2, <2>3 DEF Reopen
<1>14. CASE Dispose
  <2>1. \A c \in Calls : pc[c] = "idle"
    BY <1>14, Zenon DEF Dispose, Calm, Busy
  <2>2. OpenedIsCurrent
    BY <1>14, <2>1 DEF Dispose, Served, Course, PlaysCurrent, Opening
  <2>3. opened # None => media # None /\ opened.of = media.ep
    BY <2>2 DEF OpenedIsCurrent, Owns, Media
  <2>4. media # None => history.last = media.ep
    BY <2>1 DEF Place
  <2>5. ~mounted' /\ UNCHANGED <<history, pc, call>>
    BY <1>14 DEF Dispose
  <2>6. saving'.step # "no" => saving'.step = "read" /\ saving'.position = history.last
    BY <1>14, <2>3, <2>4 DEF Dispose, Place
  <2> QED BY <2>1, <2>5, <2>6 DEF Place
<1>15. CASE OpenSheet \/ Expire \/ UNCHANGED vars
  <2>1. UNCHANGED <<mounted, media, history, saving, pc, call>>
    BY <1>15 DEF OpenSheet, Expire, vars
  <2> QED BY <2>1 DEF Place
<1>16. CASE SaveRead \/ SaveWrite
  BY <1>16 DEF SaveRead, SaveWrite, Place
<1> QED BY <1>5, <1>6, <1>7, <1>8, <1>9, <1>10, <1>11, <1>12, <1>13, <1>14, <1>15, <1>16
        DEF Next, CallStep, Finished

LEMMA PositionedStep == Typed /\ Served /\ Owned /\ Positioned /\ [Next]_vars => Positioned'
<1> SUFFICES ASSUME Typed, Served, Owns, Calm, Place, [Next]_vars, Calm' PROVE Place'
  BY CalmBefore DEF Positioned, Owned
<1> QED BY PlaceAfter, PlaceStep

\* The position in the history entry is one of the episode that the entry names, as long
\* as calls follow each other, every media opens and no variant is chosen on a sheet of
\* an earlier media: playing another episode
\* resets it, and what a disposed page saves is the position of that same episode
\* (playEpisode, _savePlaybackPosition).
THEOREM PositionsMatch == Spec => []PositionOfEpisode
<1>1. Init => Positioned
  BY DEF Init, Positioned, Place
<1>2. Positioned => PositionOfEpisode
  BY DEF Positioned, Place, Calm, PositionOfEpisode
<1> QED BY <1>1, <1>2, AlwaysServed, PositionedStep, PTL DEF Spec

=============================================================================
