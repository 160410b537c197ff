----------------------------- MODULE PlayerPage -----------------------------
(***************************************************************************)
(* The player page of a share (lib/features/player/player_page.dart) with  *)
(* the proxy controller it drives                                          *)
(* (lib/features/player/proxy/proxy_controller.dart).                      *)
(*                                                                         *)
(* Selecting an episode, switching the cloud resolution and recovering the *)
(* authentication are asynchronous methods that all end in _openMedia;     *)
(* they overlap at every await and go on after the page is disposed.  An   *)
(* action is what runs between two awaits on something outside the         *)
(* isolate; an await on a value that is there already does not split one.  *)
(*                                                                         *)
(* The selection is prepared and playEpisode is one remote step with its   *)
(* two accesses to the history entry; module SharePlay has the inside of   *)
(* both.  A session's id is its episode's (the progress key).  Every       *)
(* episode has the same variants, "raw" is the preferred one and the only  *)
(* one proxied; a variant has the same URL each time it is resolved, and   *)
(* the URL shows a file of one episode, which need not be the one the      *)
(* media's progress key names: see Switch.                                 *)
(* Headers are left out; the media of all shares are Quark's.              *)
(***************************************************************************)
EXTENDS Integers

CONSTANTS
    Episodes,
    Variants,       \* resolutions an episode has, "raw" among them
    Plays,          \* calls of _playParsedEpisode
    Switches,       \* calls of _switchCloudResolution
    Recovery,       \* the call of _handleMediaKitAuthRejected
    None,
    MaxStarts       \* calls made (bound of the model)

ASSUME NoneAssumption ==
    None \notin Episodes \cup Variants
                  \cup [ep : Episodes, variant : Variants, of : Episodes]
                  \cup [ep : Episodes, current : Variants \cup {None}]
ASSUME VariantsAssumption == "raw" \in Variants
ASSUME CallsAssumption == Plays \cap Switches = {} /\ Recovery \notin Plays \cup Switches
ASSUME StartsAssumption == MaxStarts \in Nat

VARIABLES
    mounted, loading,   \* the page is there; its spinner turns
    episode,            \* _currentPlayingEpisode
    media, variant,     \* _currentMedia, _currentCloudVariant
    session,            \* _proxySessionId
    recovered,          \* the media of the last recovery, for 20 seconds
    sheet,              \* the open sheet of resolutions: whose variants it
                        \* offers, and which of them was current
    engine, live,       \* _engineReady; the session in the engine's map
    source,             \* the episode whose file that session, or the last
                        \* one there, streams
    opened,             \* what the player was last told to open
    history,            \* last episode, and whose position the entry holds
    saving,             \* _savePlaybackPosition: step, position, entry it
                        \* read, and whether the entry changed before
    starts,             \* calls made so far
    pc, call,           \* call -> where it is, and its locals
    overlapped,         \* history: two calls overlapped, or the page was
                        \* disposed during one
    failed,             \* history: an _openMedia threw
    awaited,            \* history: a call was waiting for the engine when the
                        \* page was disposed
    stale               \* history: a variant of an earlier media was chosen

pageVars == <<mounted, loading, episode, media, variant, session, recovered, sheet>>
proxyVars == <<engine, live, source, opened>>
entryVars == <<history, saving>>
callVars == <<starts, pc, call, overlapped>>
historyVars == <<failed, awaited, stale>>
vars == <<pageVars, proxyVars, entryVars, callVars, historyVars>>

-----------------------------------------------------------------------------
Calls == Plays \cup Switches \cup {Recovery}
\* A media: its progress key and its variant, whose URL shows an episode's file.
Media == [ep : Episodes, variant : Variants, of : Episodes]
Sheet == [ep : Episodes, current : Variants \cup {None}]
Entry == [last : Episodes \cup {None}, position : Episodes \cup {None}]
NoEntry == [last |-> None, position |-> None]

\* A call's locals: the media it is about (before playEpisode returns the
\* resolution to keep), the history entry it has read, the episode whose
\* position it looks for, and the sessions before and after its open.
NoCall == [ep |-> None, variant |-> None, of |-> None, read |-> NoEntry, seek |-> None,
           prev |-> None, current |-> None]
Kept(m) == [NoCall EXCEPT !.ep = m.ep, !.variant = m.variant, !.of = m.of]
KeptBy(c) == [ep |-> call[c].ep, variant |-> call[c].variant, of |-> call[c].of]

\* From the call of player.open to the end of _openMedia.
Opening == {"open", "history", "duration", "seek"}
PC == Opening \cup {"idle", "resolve", "find", "upsert", "resolved", "login", "cookie",
                    "ensure", "restore"}

\* _shouldUseProxy, and the id of the session.
SessionFor(m) == IF m.variant = "raw" THEN m.ep ELSE None

Init ==
    /\ mounted = TRUE /\ loading = FALSE
    /\ episode = None /\ media = None /\ variant = None
    /\ session = None /\ recovered = None /\ sheet = None
    /\ engine \in BOOLEAN /\ live = None /\ source = None /\ opened = None
    /\ history \in {h \in Entry : h.position \in {None, h.last}}
    /\ saving = [step |-> "no", position |-> None, read |-> NoEntry, newer |-> FALSE]
    /\ starts = 0
    /\ pc = [c \in Calls |-> "idle"]
    /\ call = [c \in Calls |-> NoCall]
    /\ overlapped = FALSE /\ failed = FALSE /\ awaited = FALSE /\ stale = FALSE

Goto(c, step) == pc' = [pc EXCEPT ![c] = step]
Busy == \E c \in Calls : pc[c] # "idle"

Begin(c) ==
    /\ mounted /\ pc[c] = "idle" /\ starts < MaxStarts
    /\ starts' = starts + 1
    /\ overlapped' = (overlapped \/ Busy)

\* A finally or catch block stops the spinner only while the page is there.
StopSpinner == loading' = (loading /\ ~mounted)

\* _openMedia returns, its errors shown; a switch goes on to the position.
Return(c) == Goto(c, IF c \in Switches THEN "restore" ELSE "idle")

-----------------------------------------------------------------------------
(* _openMedia for media m by call c.                                       *)

\* What the player shows when it opens m: a session that is known streams what it
\* was created for.
Streamed(m) == IF SessionFor(m) # None /\ SessionFor(m) = live THEN source ELSE m.of

\* Mutant: the session to close is read after the new one is set.
CreateAndOpen_ReadsLate(c, m) ==
    /\ live' = IF SessionFor(m) = None THEN live ELSE SessionFor(m)
    /\ source' = IF SessionFor(m) = None THEN source ELSE Streamed(m)
    /\ session' = SessionFor(m)
    /\ call' = [call EXCEPT ![c] = [NoCall EXCEPT !.prev = SessionFor(m),
                                                 !.current = SessionFor(m)]]
    /\ opened' = IF mounted THEN [m EXCEPT !.of = Streamed(m)] ELSE opened
    /\ Goto(c, "open")
    /\ UNCHANGED failed

\* createSession returns the session of a known id, or clears the map and
\* creates one; a variant that is not raw needs none.  Then the player is told
\* to open; a disposed player throws (OpenFails).
CreateAndOpen(c, m) ==
    /\ live' = IF SessionFor(m) = None THEN live ELSE SessionFor(m)
    /\ source' = IF SessionFor(m) = None THEN source ELSE Streamed(m)
    /\ session' = SessionFor(m)
    /\ call' = [call EXCEPT ![c] = [NoCall EXCEPT !.prev = session,
                                                 !.current = SessionFor(m)]]
    /\ opened' = IF mounted THEN [m EXCEPT !.of = Streamed(m)] ELSE opened
    /\ Goto(c, "open")
    /\ UNCHANGED failed

\* A session that is not in the map cannot be created: the map is empty now.
CreateFails(c, m) ==
    /\ SessionFor(m) \notin {None, live}
    /\ live' = None
    /\ failed' = TRUE
    /\ StopSpinner /\ Return(c)
    /\ call' = [call EXCEPT ![c] = NoCall]
    /\ UNCHANGED <<session, source, opened>>

\* What the page does at once; it waits only for an engine to be initialised,
\* which an earlier page has disposed of.
OpenMedia(c, m) ==
    /\ media' = m
    /\ \/ /\ SessionFor(m) = None \/ engine
          /\ CreateAndOpen(c, m)
          /\ loading' = TRUE
       \/ engine /\ CreateFails(c, m)
       \/ /\ SessionFor(m) # None /\ ~engine
          /\ call' = [call EXCEPT ![c] = Kept(m)]
          /\ Goto(c, "ensure")
          /\ loading' = TRUE
          /\ UNCHANGED <<live, source, session, opened, failed>>
    /\ UNCHANGED <<mounted, engine, entryVars, awaited>>

\* _ensureEngine ends, whether or not the page is still there.
Ensure(c) ==
    /\ pc[c] = "ensure"
    /\ engine' = TRUE
    /\ \/ CreateAndOpen(c, KeptBy(c)) /\ UNCHANGED loading
       \/ CreateFails(c, KeptBy(c))
    /\ UNCHANGED <<mounted, episode, media, variant, recovered, sheet, entryVars, starts,
                   overlapped, awaited, stale>>

\* player.open is done: the position to restore is that of the episode which
\* is now selected.
Opened(c) ==
    /\ pc[c] = "open"
    /\ call' = [call EXCEPT ![c].seek = episode]
    /\ Goto(c, "history")
    /\ UNCHANGED <<pageVars, proxyVars, entryVars, starts, overlapped, historyVars>>

\* The engine cannot be initialised, the player does not open, the history cannot be
\* read or the seek fails; the previous session is not closed then.
OpenFails(c) ==
    /\ pc[c] \in {"ensure", "open", "history", "seek"}
    /\ failed' = TRUE
    /\ StopSpinner /\ Return(c)
    /\ call' = [call EXCEPT ![c] = NoCall]
    /\ UNCHANGED <<mounted, episode, media, variant, session, recovered, sheet, proxyVars,
                   entryVars, starts, overlapped, awaited, stale>>

\* Mutant: the session is closed even if it is the one now playing.
CloseAndReturn_Always(c) ==
    /\ live' = IF call[c].prev = live THEN None ELSE live
    /\ StopSpinner /\ Return(c)
    /\ call' = [call EXCEPT ![c] = NoCall]
    /\ UNCHANGED <<mounted, episode, media, variant, session, recovered, sheet, engine,
                   source, opened, entryVars, starts, overlapped, historyVars>>

\* The end of _openMedia: the previous session is closed if it is another one.
CloseAndReturn(c) ==
    /\ live' = IF call[c].prev = live /\ call[c].prev # call[c].current
               THEN None ELSE live
    /\ StopSpinner /\ Return(c)
    /\ call' = [call EXCEPT ![c] = NoCall]
    /\ UNCHANGED <<mounted, episode, media, variant, session, recovered, sheet, engine,
                   source, opened, entryVars, starts, overlapped, historyVars>>

\* The history holds a position of that episode, or there is nothing to seek.
HistoryRead(c) ==
    /\ pc[c] = "history"
    /\ IF history.position # None /\ history.last = call[c].seek
       THEN /\ Goto(c, "duration")
            /\ UNCHANGED <<pageVars, proxyVars, entryVars, starts, call, overlapped,
                           historyVars>>
       ELSE CloseAndReturn(c)

\* _waitForDuration returns, with or without a duration.
Duration(c) ==
    /\ pc[c] = "duration"
    /\ \/ mounted /\ Goto(c, "seek") /\ UNCHANGED call
       \/ ~mounted /\ Return(c) /\ call' = [call EXCEPT ![c] = NoCall]
    /\ UNCHANGED <<pageVars, proxyVars, entryVars, starts, overlapped, historyVars>>

NoDuration(c) == pc[c] = "duration" /\ mounted /\ CloseAndReturn(c)

Sought(c) == pc[c] = "seek" /\ CloseAndReturn(c)

-----------------------------------------------------------------------------
(* _playParsedEpisode: from the start, the picker, next, previous, or the  *)
(* end of the episode that plays.                                          *)

\* By hand only when no sheet covers the page; at the end of an episode whatever
\* does.
Select(c, e) ==
    /\ c \in Plays /\ Begin(c)
    /\ loading' = TRUE /\ episode' = e
    /\ call' = [call EXCEPT ![c] = [NoCall EXCEPT !.ep = e, !.variant = variant]]
    /\ Goto(c, "resolve")
    /\ \/ sheet' = None
       \/ ~loading /\ opened # None /\ e # episode /\ UNCHANGED sheet
    /\ UNCHANGED <<mounted, media, variant, session, recovered, proxyVars, entryVars,
                   historyVars>>

\* The remote steps of playEpisode are done.
Resolve(c) ==
    /\ pc[c] = "resolve"
    /\ Goto(c, "find")
    /\ UNCHANGED <<pageVars, proxyVars, entryVars, starts, call, overlapped, historyVars>>

\* Mutant: an error leaves the spinner on.
PlayFails_Spins(c) ==
    /\ pc[c] \in {"resolve", "find", "upsert"}
    /\ Goto(c, "idle")
    /\ call' = [call EXCEPT ![c] = NoCall]
    /\ UNCHANGED <<pageVars, proxyVars, entryVars, starts, overlapped, historyVars>>

\* A remote step or an access to the history throws.
PlayFails(c) ==
    /\ pc[c] \in {"resolve", "find", "upsert"}
    /\ StopSpinner /\ Goto(c, "idle")
    /\ call' = [call EXCEPT ![c] = NoCall]
    /\ UNCHANGED <<mounted, episode, media, variant, session, recovered, sheet, proxyVars,
                   entryVars, starts, overlapped, historyVars>>

Find(c) ==
    /\ pc[c] = "find"
    /\ call' = [call EXCEPT ![c].read = history]
    /\ Goto(c, "upsert")
    /\ UNCHANGED <<pageVars, proxyVars, entryVars, starts, overlapped, historyVars>>

\* Mutant: the position survives a switch to another episode.
Upsert_KeepsPosition(c) ==
    /\ pc[c] = "upsert"
    /\ history' = [last |-> call[c].ep, position |-> call[c].read.position]
    /\ saving' = [saving EXCEPT !.newer = (saving.step = "read")]
    /\ Goto(c, "resolved")
    /\ UNCHANGED <<pageVars, proxyVars, starts, call, overlapped, historyVars>>

\* The position is kept only when the same episode is played again.
Upsert(c) ==
    /\ pc[c] = "upsert"
    /\ history' = [last |-> call[c].ep,
                   position |-> IF call[c].read.last = call[c].ep
                                THEN call[c].read.position ELSE None]
    /\ saving' = [saving EXCEPT !.newer = (saving.step = "read")]
    /\ Goto(c, "resolved")
    /\ UNCHANGED <<pageVars, proxyVars, starts, call, overlapped, historyVars>>

\* Mutant: the media is opened without looking whether the page is still there.
Resolved_Unchecked(c) ==
    /\ pc[c] = "resolved"
    /\ LET v == IF call[c].variant = None THEN "raw" ELSE call[c].variant IN
         /\ variant' = v
         /\ OpenMedia(c, [ep |-> call[c].ep, variant |-> v, of |-> call[c].ep])
    /\ UNCHANGED <<episode, recovered, sheet, starts, overlapped, stale>>

\* playEpisode has returned: the resolution chosen before is looked up among
\* the new variants, and the media is opened.
Resolved(c) ==
    /\ pc[c] = "resolved"
    /\ LET v == IF call[c].variant = None THEN "raw" ELSE call[c].variant IN
         IF mounted
         THEN /\ variant' = v
              /\ OpenMedia(c, [ep |-> call[c].ep, variant |-> v, of |-> call[c].ep])
              /\ UNCHANGED <<episode, recovered, sheet, starts, overlapped, stale>>
         ELSE /\ Goto(c, "idle")
              /\ call' = [call EXCEPT ![c] = NoCall]
              /\ UNCHANGED <<pageVars, proxyVars, entryVars, starts, overlapped, historyVars>>

-----------------------------------------------------------------------------
(* The sheet of resolutions, and _switchCloudResolution.                   *)

\* _showCloudResolutionPicker: the variants of the media of that moment; a page that
\* loads has no buttons.  Closing a sheet without a choice has no action: the next
\* step does not look at it.
OpenSheet ==
    /\ mounted /\ ~loading /\ media # None
    /\ sheet' = [ep |-> media.ep,
                 current |-> IF media.of = media.ep THEN variant ELSE None]
    /\ UNCHANGED <<mounted, loading, episode, media, variant, session, recovered, proxyVars,
                   entryVars, callVars, historyVars>>

\* A tap on another variant than the current one, as the sheet was built or has
\* been built anew.  The media opened has the URL of the sheet's variant and the
\* progress key of the media that is current now, which may be a later one: an
\* episode that ends is followed by the next under the open sheet.
Switch(c, v) ==
    /\ c \in Switches /\ Begin(c)
    /\ sheet # None
    /\ v # sheet.current \/ v # variant \/ sheet.ep # media.of
    /\ sheet' = None
    /\ variant' = v
    /\ stale' = (stale \/ sheet.ep # media.ep)
    /\ OpenMedia(c, [ep |-> media.ep, variant |-> v, of |-> sheet.ep])
    /\ UNCHANGED <<episode, recovered>>

\* The position is restored, and the spinner stopped again.
Restore(c) ==
    /\ pc[c] = "restore"
    /\ StopSpinner /\ Goto(c, "idle")
    /\ UNCHANGED <<mounted, episode, media, variant, session, recovered, sheet, proxyVars,
                   entryVars, starts, call, overlapped, historyVars>>

-----------------------------------------------------------------------------
(* _handleMediaKitAuthRejected: one recovery at a time, and the same media *)
(* not twice in 20 seconds.                                                *)

\* The player reports a rejection of what it plays; the page takes it for one
\* of its current media.
Reject ==
    /\ Begin(Recovery)
    /\ opened # None /\ SessionFor(opened) = None
    /\ recovered # media
    /\ recovered' = media
    /\ call' = [call EXCEPT ![Recovery] = Kept(media)]
    /\ Goto(Recovery, "login")
    /\ UNCHANGED <<mounted, loading, episode, media, variant, session, sheet, proxyVars,
                   entryVars, historyVars>>

\* recoverAuth succeeds, in the background or with a login page.
Login ==
    /\ pc[Recovery] = "login"
    /\ Goto(Recovery, "cookie")
    /\ UNCHANGED <<pageVars, proxyVars, entryVars, starts, call, overlapped, historyVars>>

\* With the new cookie the media is opened again, if it is still the one.
Reopen ==
    /\ pc[Recovery] = "cookie" /\ mounted
    /\ media = KeptBy(Recovery)
    /\ OpenMedia(Recovery, media)
    /\ UNCHANGED <<episode, variant, recovered, sheet, starts, overlapped, stale>>

\* No login, no cookie, another media by now, or the page is gone.
RecoveryEnds ==
    /\ \/ pc[Recovery] = "login"
       \/ pc[Recovery] = "cookie"
    /\ Goto(Recovery, "idle")
    /\ call' = [call EXCEPT ![Recovery] = NoCall]
    /\ UNCHANGED <<pageVars, proxyVars, entryVars, starts, overlapped, historyVars>>

\* The 20 seconds are over.
Expire ==
    /\ recovered # None
    /\ recovered' = None
    /\ UNCHANGED <<mounted, loading, episode, media, variant, session, sheet, proxyVars,
                   entryVars, callVars, historyVars>>

-----------------------------------------------------------------------------
(* dispose: the engine goes with all sessions, and the position, if there  *)
(* is one, is saved.                                                       *)

Dispose ==
    /\ mounted
    /\ mounted' = FALSE
    /\ engine' = FALSE /\ live' = None
    /\ overlapped' = (overlapped \/ Busy)
    /\ awaited' = (\E c \in Calls : pc[c] = "ensure")
    /\ \/ UNCHANGED saving
       \/ /\ opened # None
          /\ saving' = [saving EXCEPT !.step = "read", !.position = opened.of]
    /\ UNCHANGED <<loading, episode, media, variant, session, recovered, sheet, source,
                   opened, history, starts, pc, call, failed, stale>>

\* The save is skipped when the entry has changed since the page went, is not
\* there or cannot be read.
SaveRead ==
    /\ saving.step = "read"
    /\ \E step \in {"no", "write"} :
         /\ saving.newer => step = "no"
         /\ saving' = [saving EXCEPT !.step = step, !.read = history]
    /\ UNCHANGED <<pageVars, proxyVars, history, callVars, historyVars>>

SaveWrite ==
    /\ saving.step = "write"
    /\ history' = [saving.read EXCEPT !.position = saving.position]
    /\ saving' = [saving EXCEPT !.step = "no"]
    /\ UNCHANGED <<pageVars, proxyVars, callVars, historyVars>>

-----------------------------------------------------------------------------
OpenStep(c) ==
    \/ Ensure(c) \/ Opened(c) \/ OpenFails(c) \/ HistoryRead(c) \/ Duration(c)
    \/ NoDuration(c) \/ Sought(c)

CallStep(c) ==
    \/ Resolve(c) \/ PlayFails(c) \/ Find(c) \/ Upsert(c) \/ Resolved(c)
    \/ OpenStep(c) \/ Restore(c)

Finished == ~mounted /\ ~Busy /\ saving.step = "no" /\ recovered = None /\ UNCHANGED vars

Next ==
    \/ \E c \in Plays, e \in Episodes : Select(c, e)
    \/ OpenSheet
    \/ \E c \in Switches, v \in Variants : Switch(c, v)
    \/ \E c \in Calls : CallStep(c)
    \/ Reject \/ Login \/ Reopen \/ RecoveryEnds \/ Expire
    \/ Dispose \/ SaveRead \/ SaveWrite
    \/ Finished

Spec == Init /\ [][Next]_vars

-----------------------------------------------------------------------------
(* Properties.                                                             *)

\* Types; a session is kept only in an engine that is there, and streams a file.
TypeOK ==
    /\ {mounted, loading, engine, overlapped, failed, awaited, stale} \subseteq BOOLEAN
    /\ episode \in Episodes \cup {None} /\ variant \in Variants \cup {None}
    /\ media \in Media \cup {None} /\ opened \in Media \cup {None}
    /\ recovered \in Media \cup {None} /\ sheet \in Sheet \cup {None}
    /\ session \in Episodes \cup {None} /\ live \in Episodes \cup {None}
    /\ source \in Episodes \cup {None} /\ (live # None => engine /\ source # None)
    /\ history \in Entry
    /\ saving \in [step : {"no", "read", "write"}, position : Episodes \cup {None},
                   read : Entry, newer : BOOLEAN]
    /\ starts \in 0 .. MaxStarts
    /\ pc \in [Calls -> PC]
    /\ call \in [Calls -> [ep : Episodes \cup {None}, variant : Variants \cup {None},
                          of : Episodes \cup {None}, read : Entry, seek : Episodes \cup {None},
                          prev : Episodes \cup {None}, current : Episodes \cup {None}]]

\* What the player was told to open is the current media, but for the file it shows.
OpenedIsCurrent ==
    IF media = None THEN opened = None
                    ELSE \E e \in Episodes : opened = [media EXCEPT !.of = e]

\* On a page where one thing happens after the other and every media opens,
\* the player is at the current media, and the engine serves its session and
\* no other; the file it shows is that of the media's own episode unless a
\* variant was chosen on a sheet of an earlier media.
CurrentIsServed ==
    mounted /\ ~Busy /\ ~overlapped /\ ~failed =>
        /\ OpenedIsCurrent
        /\ session = live
        /\ media # None => live = SessionFor(media)
        /\ opened # None /\ ~stale => opened.of = media.ep

\* However selections, switches and recoveries overlap, a session that is no
\* longer the page's is closed by a call still running (the end of _openMedia).
OldSessionClosed ==
    mounted /\ ~failed /\ live \notin {None, session} =>
        \E c \in Calls : /\ pc[c] \in Opening
                         /\ call[c].prev = live /\ call[c].current # live

\* The position in the history entry is one of the episode the entry names, on
\* a page where one thing happens after the other and no variant is chosen on a
\* sheet of an earlier media (playEpisode, dispose).
PositionOfEpisode ==
    ~overlapped /\ ~failed /\ ~stale => history.position \in {None, history.last}

\* The spinner turns only while a call is on its way to stop it: no early
\* return and no error leaves it on, whichever calls overlap.
SpinnerHasCause ==
    mounted /\ loading => \E c \in Calls : pc[c] \notin {"idle", "login", "cookie"}

\* A disposed page leaves no session in the engine, however many calls go on
\* without it, unless one of them was waiting for the engine when it went
\* (dispose; createSession asks nobody whether the page is there).
NothingLeft == ~mounted /\ ~awaited => live = None

-----------------------------------------------------------------------------
(* Wishes of the comments that the code does not keep.                     *)

\* What share_play_orchestrator.dart:227 says of the position ("Preserve
\* lastPositionMs only when replaying the same episode").
PositionPreserved == history.position \in {None, history.last}

\* The same where no two calls overlap and none fails.  A sheet of resolutions stays
\* open when the next episode is played on its own (player_page.dart:164-176,
\* 498-549), and a tap on it plays the earlier episode under the later one's progress
\* key (559-580); dispose saves that position in the later one's entry.
PositionWhenCalm == ~overlapped /\ ~failed => history.position \in {None, history.last}

\* What player_page.dart:728 closes the previous session for: the session that
\* is playing is never the one closed.
PlayingSessionKept ==
    mounted /\ ~Busy /\ ~failed /\ session # None => live = session

\* The engine that a disposed page leaves behind serves nothing.
NothingLeftAtAll == ~mounted /\ ~Busy => live = None

=============================================================================
