----------------------------- MODULE SharePlay -----------------------------
(***************************************************************************)
(* Playing an episode of a shared folder                                   *)
(* (lib/features/playback/share_play_orchestrator.dart with the drive      *)
(* operations of lib/features/cloud/quark/quark_transfer_service.dart).    *)
(*                                                                         *)
(* A share cannot be streamed: playEpisode saves the episode into the      *)
(* show's folder of the user's drive, looks for the saved file, deletes    *)
(* what else is there and resolves a play URL.  Every remote call is an    *)
(* await: calls of playEpisode interleave there, and each one may throw.   *)
(*                                                                         *)
(* One share, whose files keep their ids, and its folder.  A file is the   *)
(* number of the call that saved it (0: there from the start) and the      *)
(* episode it holds; its name is the episode's.  The files in its          *)
(* sub-folders never change here.  All files are videos, as                *)
(* listShareEpisodes keeps no other.  Of the history entry only the last   *)
(* episode matters here.                                                   *)
(***************************************************************************)
EXTENDS Integers, FiniteSets

CONSTANTS
    Episodes, NameOf,   \* the share's files and their names
    Nested,             \* episodes that may lie in sub-folders of the show's folder
    Leftovers,          \* episodes that earlier runs may have left in it
    Calls,              \* calls of playEpisode that can be in flight
    None,
    MaxPlays,           \* calls of playEpisode (bound of the model)
    MaxTries            \* listings after a save (8 in the code)

ASSUME NamesAssumption == None \notin Episodes /\ DOMAIN NameOf = Episodes
ASSUME FolderAssumption == Nested \subseteq Episodes /\ Leftovers \subseteq Episodes
ASSUME BoundsAssumption == MaxPlays \in Nat /\ MaxTries \in Nat \ {0}

VARIABLES
    root,           \* files listed in the show's folder
    incoming,       \* files saved, not listed yet
    nested,         \* files in sub-folders
    history,        \* lastEpisodeFileId of the history entry
    preparing,      \* prepareEpisodes: where it is and what it has read
    prepared,       \* the page's selection: ready?, preferredFileId
    plays,          \* number of calls so far
    pc,             \* call -> where it is
    call,           \* call -> its number, selected episode, preferredFileId
    doomed,         \* call -> files it has listed for deletion
    found,          \* call -> the file it will play, or None
    tries,          \* call -> listings since its save that found nothing
    played,         \* call -> the episode its media shows, or None
    saved,          \* history: call -> it saved its episode
    quiet           \* history: call -> nothing else touched the folder

driveVars == <<root, incoming, nested>>
pageVars == <<history, preparing, prepared>>
callVars == <<plays, pc, call, doomed, found, tries, played, saved, quiet>>
vars == <<driveVars, pageVars, callVars>>

-----------------------------------------------------------------------------
Files == [by : 0 .. MaxPlays, ep : Episodes]
NestedFiles == [by : {-1}, ep : Nested]
Remote == {"folder", "reuse", "clear", "erase", "save", "find", "tidy", "erase_rest",
           "resolve"}
Ended == {"idle", "done", "failed"}

Init ==
    /\ root \in SUBSET [by : {0}, ep : Leftovers] /\ incoming = {}
    /\ nested \in SUBSET NestedFiles
    /\ history \in Leftovers \cup {None}
    /\ preparing = [step |-> "idle", read |-> None]
    /\ prepared = [ready |-> FALSE, preferred |-> None]
    /\ plays = 0
    /\ pc = [c \in Calls |-> "idle"]
    /\ call = [c \in Calls |-> [number |-> 0, selected |-> None, preferred |-> None]]
    /\ doomed = [c \in Calls |-> {}]
    /\ found = [c \in Calls |-> None]
    /\ tries = [c \in Calls |-> 0]
    /\ played = [c \in Calls |-> None]
    /\ saved = [c \in Calls |-> FALSE]
    /\ quiet = [c \in Calls |-> FALSE]

Goto(c, step) == pc' = [pc EXCEPT ![c] = step]

-----------------------------------------------------------------------------
(* prepareEpisodes, when a page opens: it reads the history entry, lists   *)
(* the share, and writes the entry back with what it had read.             *)

PrepareRead ==
    /\ preparing.step = "idle"
    /\ preparing' = [step |-> "listing", read |-> history]
    /\ UNCHANGED <<history, prepared, driveVars, callVars>>

PrepareUpsert ==
    /\ preparing.step = "listing"
    /\ history' = preparing.read
    /\ prepared' = [ready |-> TRUE, preferred |-> preparing.read]
    /\ preparing' = [step |-> "idle", read |-> None]
    /\ UNCHANGED <<driveVars, callVars>>

\* No episodes, not even cached ones: it throws before it writes.
PrepareFails ==
    /\ preparing.step = "listing"
    /\ preparing' = [step |-> "idle", read |-> None]
    /\ UNCHANGED <<history, prepared, driveVars, callVars>>

-----------------------------------------------------------------------------
(* playEpisode.                                                            *)

Start(c, e) ==
    /\ pc[c] \in Ended /\ prepared.ready /\ plays < MaxPlays
    /\ plays' = plays + 1
    /\ call' = [call EXCEPT ![c] = [number |-> plays + 1, selected |-> e,
                                    preferred |-> prepared.preferred]]
    /\ found' = [found EXCEPT ![c] = None]
    /\ played' = [played EXCEPT ![c] = None]
    /\ saved' = [saved EXCEPT ![c] = FALSE]
    /\ quiet' = [d \in Calls |-> /\ d = c /\ incoming = {}
                                 /\ \A o \in Calls \ {c} : pc[o] \in Ended]
    /\ Goto(c, "folder")
    /\ UNCHANGED <<doomed, tries, driveVars, pageVars>>

\* _resolveShowFolder: by its recorded id, else by path, created if missing.
\* isSameEpisode compares with the history entry the page was opened with.
ResolveShowFolder(c) ==
    /\ pc[c] = "folder"
    /\ Goto(c, IF call[c].preferred = call[c].selected THEN "reuse" ELSE "clear")
    /\ UNCHANGED <<driveVars, pageVars, plays, call, doomed, found, tries, played, saved,
                   quiet>>

\* _pickSavedFile: a file of that name, otherwise any video.
PickSavedFile(files, name) ==
    LET named == {f \in files : NameOf[f.ep] = name}
    IN IF named # {} THEN named ELSE files

\* The folder, then its sub-folders in listing order, up to the first hit.
Hits(c) == IF root # {} THEN PickSavedFile(root, NameOf[call[c].selected]) ELSE nested

\* _findSavedFileByName
FindSavedFileByName(c) ==
    /\ pc[c] = "reuse"
    /\ \/ \E f \in Hits(c) : found' = [found EXCEPT ![c] = f] /\ Goto(c, "tidy")
       \/ Hits(c) = {} /\ Goto(c, "clear") /\ UNCHANGED found
    /\ UNCHANGED <<driveVars, pageVars, plays, call, doomed, tries, played, saved, quiet>>

\* clearFolder and clearFolderExcept list the folder, then delete what they
\* have listed.
ListDoomed(c, kept, erase, next) ==
    /\ doomed' = [doomed EXCEPT ![c] = root \ kept]
    /\ Goto(c, IF root \ kept = {} THEN next ELSE erase)
    /\ UNCHANGED <<driveVars, pageVars, plays, call, found, tries, played, saved, quiet>>

Delete(c, next) ==
    /\ root' = root \ doomed[c]
    /\ doomed' = [doomed EXCEPT ![c] = {}]
    /\ Goto(c, next)
    /\ UNCHANGED <<incoming, nested, pageVars, plays, call, found, tries, played, saved,
                   quiet>>

\* Mutant: clearFolder lists the folder and deletes nothing.
ClearFolder_Skipped(c) ==
    /\ pc[c] = "clear" /\ Goto(c, "save")
    /\ UNCHANGED <<driveVars, pageVars, plays, call, doomed, found, tries, played, saved,
                   quiet>>

ClearFolder(c) == pc[c] = "clear" /\ ListDoomed(c, {}, "erase", "save")

Erase(c) == pc[c] = "erase" /\ Delete(c, "save")

\* Mutant: clearFolderExcept forgets its exception.
ClearFolderExcept_All(c) == pc[c] = "tidy" /\ ListDoomed(c, {}, "erase_rest", "resolve")

\* Mutant: clearFolderExcept also keeps every file of the selected name.
ClearFolderExcept_ByName(c) ==
    /\ pc[c] = "tidy"
    /\ ListDoomed(c, {f \in root : f = found[c] \/ NameOf[f.ep] = NameOf[call[c].selected]},
                  "erase_rest", "resolve")

ClearFolderExcept(c) ==
    pc[c] = "tidy" /\ ListDoomed(c, {found[c]}, "erase_rest", "resolve")

EraseRest(c) == pc[c] = "erase_rest" /\ Delete(c, "resolve")

\* saveShareEpisodeToFolder: the file will be listed some time after the
\* save task is done.  The share still lists the episode by its id: the look-up
\* by name of one that has got another (_resolveLatestShareEpisode) is left out.
Save(c) ==
    /\ pc[c] = "save"
    /\ incoming' = incoming \cup {[by |-> call[c].number, ep |-> call[c].selected]}
    /\ saved' = [saved EXCEPT ![c] = TRUE]
    /\ UNCHANGED <<root, nested, pageVars, plays, call, doomed, found, tries, played,
                   quiet>>

SaveDone(c) == Save(c) /\ Goto(c, "find")

\* _waitTaskDone gives up after twenty polls; the task goes on in the drive.
SaveTaskTimeout(c) == Save(c) /\ Goto(c, "failed")

\* The drive refuses a second file of a name, and the refusal is ignored.
SaveDuplicate(c) ==
    /\ pc[c] = "save"
    /\ \E f \in root \cup incoming : NameOf[f.ep] = NameOf[call[c].selected]
    /\ Goto(c, "find")
    /\ UNCHANGED <<driveVars, pageVars, plays, call, doomed, found, tries, played, saved,
                   quiet>>

\* Mutant: _findSavedFileAfterTransfer tries again without counting.
FindSavedFileAfterTransfer_Uncounted(c) ==
    /\ pc[c] = "find"
    /\ \/ \E f \in Hits(c) : found' = [found EXCEPT ![c] = f] /\ Goto(c, "tidy")
       \/ Hits(c) = {} /\ UNCHANGED <<found, pc>>
    /\ UNCHANGED <<driveVars, pageVars, plays, call, doomed, tries, played, saved, quiet>>

\* _findSavedFileAfterTransfer: once per attempt.
FindSavedFileAfterTransfer(c) ==
    /\ pc[c] = "find"
    /\ \/ /\ \E f \in Hits(c) : found' = [found EXCEPT ![c] = f]
          /\ tries' = [tries EXCEPT ![c] = 0] /\ Goto(c, "tidy")
       \/ /\ Hits(c) = {} /\ UNCHANGED found
          /\ IF tries[c] + 1 < MaxTries
             THEN tries' = [tries EXCEPT ![c] = @ + 1] /\ UNCHANGED pc
             ELSE tries' = [tries EXCEPT ![c] = 0] /\ Goto(c, "failed")
    /\ UNCHANGED <<driveVars, pageVars, plays, call, doomed, played, saved, quiet>>

\* resolvePlayableFile, which fails for a file that is gone; nothing else
\* runs between its answer and the update of the history.
ResolvePlayable(c) ==
    /\ pc[c] = "resolve"
    /\ \/ /\ found[c] \in root \cup nested
          /\ played' = [played EXCEPT ![c] = found[c].ep]
          /\ history' = call[c].selected
          /\ Goto(c, "done")
       \/ /\ found[c] \notin root \cup nested
          /\ Goto(c, "failed")
          /\ UNCHANGED <<played, history>>
    /\ UNCHANGED <<driveVars, preparing, prepared, plays, call, doomed, found, tries, saved,
                   quiet>>

\* Any remote call may throw.
Throws(c) ==
    /\ pc[c] \in Remote
    /\ Goto(c, "failed")
    /\ doomed' = [doomed EXCEPT ![c] = {}]
    /\ tries' = [tries EXCEPT ![c] = 0]
    /\ UNCHANGED <<driveVars, pageVars, plays, call, found, played, saved, quiet>>

PlayStep(c) ==
    \/ ResolveShowFolder(c) \/ FindSavedFileByName(c)
    \/ ClearFolder(c) \/ Erase(c)
    \/ SaveDone(c) \/ SaveTaskTimeout(c) \/ SaveDuplicate(c)
    \/ FindSavedFileAfterTransfer(c)
    \/ ClearFolderExcept(c) \/ EraseRest(c)
    \/ ResolvePlayable(c)

\* The drive lists a file it has saved.
Listed(f) ==
    /\ incoming' = incoming \ {f} /\ root' = root \cup {f}
    /\ UNCHANGED <<nested, pageVars, callVars>>

Next ==
    \/ PrepareRead \/ PrepareUpsert \/ PrepareFails
    \/ \E c \in Calls, e \in Episodes : Start(c, e)
    \/ \E c \in Calls : PlayStep(c) \/ Throws(c)
    \/ \E f \in incoming : Listed(f)

Spec == Init /\ [][Next]_vars

\* The remote calls of a play answer or throw.
FairSpec == Spec /\ \A c \in Calls : WF_vars(PlayStep(c))

-----------------------------------------------------------------------------
(* Properties.                                                             *)

\* Types; a found file is one that was once in the drive.
TypeOK ==
    /\ root \subseteq Files /\ incoming \subseteq Files /\ nested \subseteq NestedFiles
    /\ history \in Episodes \cup {None}
    /\ preparing \in [step : {"idle", "listing"}, read : Episodes \cup {None}]
    /\ prepared \in [ready : BOOLEAN, preferred : Episodes \cup {None}]
    /\ plays \in 0 .. MaxPlays
    /\ pc \in [Calls -> Remote \cup Ended]
    /\ call \in [Calls -> [number : 0 .. MaxPlays, selected : Episodes \cup {None},
                           preferred : Episodes \cup {None}]]
    /\ doomed \in [Calls -> SUBSET Files]
    /\ found \in [Calls -> Files \cup NestedFiles \cup {None}]
    /\ tries \in [Calls -> 0 .. MaxTries - 1]
    /\ played \in [Calls -> Episodes \cup {None}]
    /\ saved \in [Calls -> BOOLEAN] /\ quiet \in [Calls -> BOOLEAN]

\* A play that saved its episode, and that nothing disturbed (no other play,
\* no late file of an earlier one), shows that episode, or else a file the
\* user keeps in a sub-folder: the fall-back to any video picks no leftover.
SavedEpisodeIsPlayed ==
    \A c \in Calls : pc[c] = "done" /\ quiet[c] /\ saved[c] =>
        played[c] \in {call[c].selected} \cup {f.ep : f \in nested}

\* An undisturbed play leaves at most the file it plays in the folder: the
\* drive does not fill up with episodes watched earlier.
FolderTidied ==
    \A c \in Calls : pc[c] = "done" /\ quiet[c] /\ incoming = {} => Cardinality(root) < 2

\* Whatever happens to the folder meanwhile, the clean-up of a play does not
\* delete the file this play is about to resolve.
OwnFileKept ==
    [][\A c \in Calls : EraseRest(c) /\ found[c] \in root => found[c] \in root']_vars

\* Every play ends, with media or with an error: its searches are bounded.
PlayEnds == \A c \in Calls : pc[c] \in Remote ~> pc[c] \in Ended

\* "Only reuse the cached file when the selected episode fid matches the
\* previously played one" (share_play_orchestrator.dart:175-178): a play that
\* nothing disturbs shows the episode selected.
PlaysSelected ==
    \A c \in Calls : pc[c] = "done" /\ quiet[c] => played[c] = call[c].selected

=============================================================================
