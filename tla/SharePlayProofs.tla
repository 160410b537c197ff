-------------------------- MODULE SharePlayProofs --------------------------
(***************************************************************************)
(* Proofs about SharePlay, for any episodes, files and calls.              *)
(***************************************************************************)
EXTENDS SharePlay, FiniteSetTheorems, TLAPS

-----------------------------------------------------------------------------
(* Types.                                                                  *)

Locals == [number : 0 .. MaxPlays, selected : Episodes \cup {None},
           preferred : Episodes \cup {None}]

\* A play under way has an episode.
Selected == \A c \in Calls : pc[c] \in Remote => call[c].selected \in Episodes

Typed == TypeOK /\ Selected

LEMMA TypedInit == Init => Typed
<1> SUFFICES ASSUME Init PROVE Typed
  OBVIOUS
<1>1. root \subseteq Files /\ history \in Episodes \cup {None}
  BY FolderAssumption, BoundsAssumption DEF Init, Files
<1>2. tries \in [Calls -> 0 .. MaxTries - 1] /\ plays \in 0 .. MaxPlays
  BY BoundsAssumption DEF Init
<1>3. [number |-> 0, selected |-> None, preferred |-> None] \in Locals
  BY BoundsAssumption DEF Locals
<1> QED BY <1>1, <1>2, <1>3 DEF Init, Typed, TypeOK, Selected, Remote, Ended, Locals

\* What a search finds is in the folder or below it.
LEMMA HitsAreFiles ==
  ASSUME NEW c \in Calls
  PROVE  /\ Hits(c) \subseteq root \cup nested
         /\ root # {} => Hits(c) \subseteq root
         /\ root = {} => Hits(c) = nested
BY DEF Hits, PickSavedFile

\* The steps that keep the page's variables and the call's selection.
LEMMA PlayTyped ==
  ASSUME Typed, NEW c \in Calls, PlayStep(c) \/ Throws(c)
  PROVE  Typed'
<1> USE DEF Typed, TypeOK, Selected, Goto, driveVars, pageVars, Remote, Ended
<1>1. CASE ResolveShowFolder(c)
  BY <1>1 DEF ResolveShowFolder
<1>2. CASE FindSavedFileByName(c)
  BY <1>2, HitsAreFiles DEF FindSavedFileByName
<1>3. CASE ClearFolder(c)
  BY <1>3 DEF ClearFolder, ListDoomed
<1>4. CASE Erase(c)
  BY <1>4 DEF Erase, Delete
<1>5. CASE SaveDone(c) \/ SaveTaskTimeout(c)
  <2>1. pc[c] = "save" /\ call[c] \in Locals /\ call[c].selected \in Episodes
    BY <1>5 DEF SaveDone, SaveTaskTimeout, Save, Locals
  <2>2. [by |-> call[c].number, ep |-> call[c].selected] \in Files
    BY <2>1 DEF Files, Locals
  <2> QED BY <1>5, <2>1, <2>2 DEF SaveDone, SaveTaskTimeout, Save
<1>6. CASE SaveDuplicate(c)
  BY <1>6 DEF SaveDuplicate
<1>7. CASE FindSavedFileAfterTransfer(c)
  <2>1. tries' \in [Calls -> 0 .. MaxTries - 1]
    BY <1>7, BoundsAssumption DEF FindSavedFileAfterTransfer
  <2>2. found' \in [Calls -> Files \cup NestedFiles \cup {None}]
    BY <1>7, HitsAreFiles DEF FindSavedFileAfterTransfer
  <2>3. pc' \in [Calls -> Remote \cup Ended] /\ Selected'
    BY <1>7 DEF FindSavedFileAfterTransfer
  <2> QED BY <1>7, <2>1, <2>2, <2>3 DEF FindSavedFileAfterTransfer
<1>8. CASE ClearFolderExcept(c)
  BY <1>8 DEF ClearFolderExcept, ListDoomed
<1>9. CASE EraseRest(c)
  BY <1>9 DEF EraseRest, Delete
<1>10. CASE ResolvePlayable(c)
  <2>1. pc[c] = "resolve" /\ call[c].selected \in Episodes
    BY <1>10 DEF ResolvePlayable
  <2>2. found[c] \in root \cup nested => found[c].ep \in Episodes
    BY FolderAssumption DEF Files, NestedFiles
  <2> QED BY <1>10, <2>1, <2>2 DEF ResolvePlayable
<1>11. CASE Throws(c)
  BY <1>11, BoundsAssumption DEF Throws
<1> QED BY <1>1, <1>2, <1>3, <1>4, <1>5, <1>6, <1>7, <1>8, <1>9, <1>10, <1>11 DEF PlayStep

LEMMA TypedStep == Typed /\ [Next]_vars => Typed'
<1> SUFFICES ASSUME Typed, [Next]_vars PROVE Typed'
  OBVIOUS
<1>1. CASE PrepareRead \/ PrepareUpsert \/ PrepareFails
  <2>1. preparing' \in [step : {"idle", "listing"}, read : Episodes \cup {None}]
    BY <1>1 DEF PrepareRead, PrepareUpsert, PrepareFails, Typed, TypeOK
  <2>2. prepared' \in [ready : BOOLEAN, preferred : Episodes \cup {None}]
    <3>1. preparing.read \in Episodes \cup {None}
      BY DEF Typed, TypeOK
    <3>2. [ready |-> TRUE, preferred |-> preparing.read]
            \in [ready : BOOLEAN, preferred : Episodes \cup {None}]
      BY <3>1
    <3> QED BY <1>1, <3>2 DEF PrepareRead, PrepareUpsert, PrepareFails, Typed, TypeOK
  <2>3. history' \in Episodes \cup {None} /\ UNCHANGED <<driveVars, callVars>>
    BY <1>1 DEF PrepareRead, PrepareUpsert, PrepareFails, Typed, TypeOK
  <2> QED BY <2>1, <2>2, <2>3 DEF Typed, TypeOK, Selected, driveVars, callVars
<1>2. ASSUME NEW c \in Calls, NEW e \in Episodes, Start(c, e) PROVE Typed'
  <2>1. plays + 1 \in 0 .. MaxPlays
    BY <1>2, BoundsAssumption DEF Start, Typed, TypeOK
  <2>2. [number |-> plays + 1, selected |-> e, preferred |-> prepared.preferred] \in Locals
    BY <2>1 DEF Locals, Typed, TypeOK
  <2>3. call' \in [Calls -> Locals] /\ call'[c].selected = e
    BY <1>2, <2>2 DEF Start, Typed, TypeOK, Locals
  <2>4. pc' \in [Calls -> Remote \cup Ended]
    BY <1>2 DEF Start, Goto, Typed, TypeOK, Remote
  <2>5. Selected'
    BY <1>2, <2>3 DEF Start, Goto, Typed, TypeOK, Selected
  <2>6. saved' \in [Calls -> BOOLEAN]
    BY <1>2 DEF Start, Typed, TypeOK
  <2>7. quiet' \in [Calls -> BOOLEAN]
    BY <1>2 DEF Start
  <2> QED BY <1>2, <2>1, <2>3, <2>4, <2>5, <2>6, <2>7
          DEF Start, Typed, TypeOK, Locals, driveVars, pageVars
<1>3. ASSUME NEW c \in Calls, PlayStep(c) \/ Throws(c) PROVE Typed'
  BY <1>3, PlayTyped
<1>4. ASSUME NEW f \in incoming, Listed(f) PROVE Typed'
  BY <1>4 DEF Listed, Typed, TypeOK, Selected, pageVars, callVars
<1>5. CASE UNCHANGED vars
  BY <1>5 DEF vars, driveVars, pageVars, callVars, Typed, TypeOK, Selected
<1> QED BY <1>1, <1>2, <1>3, <1>4, <1>5 DEF Next

LEMMA AlwaysTyped == Spec => []Typed
BY TypedInit, TypedStep, PTL DEF Spec

\* Types; a found file is one that was once in the drive.
THEOREM TypesHold == Spec => []TypeOK
<1>1. Typed => TypeOK
  BY DEF Typed
<1> QED BY <1>1, AlwaysTyped, PTL

-----------------------------------------------------------------------------
(* The file a play is about to resolve.                                    *)

\* The clean-up has not listed it.
Spared == \A c \in Calls : pc[c] = "erase_rest" => found[c] \notin doomed[c]

LEMMA SparedStep == Typed /\ Spared /\ [Next]_vars => Spared'
<1> SUFFICES ASSUME Typed, Spared, [Next]_vars PROVE Spared'
  OBVIOUS
<1> USE DEF Spared, Goto, Typed, TypeOK
<1>1. ASSUME NEW c \in Calls,
             \A d \in Calls \ {c} : pc'[d] = pc[d] /\ found'[d] = found[d] /\ doomed'[d] = doomed[d],
             pc'[c] = "erase_rest" => found'[c] \notin doomed'[c]
      PROVE  Spared'
  BY <1>1
<1>2. ASSUME NEW c \in Calls, NEW e \in Episodes, Start(c, e) PROVE Spared'
  BY <1>1, <1>2 DEF Start
<1>3. ASSUME NEW c \in Calls, PlayStep(c) \/ Throws(c) PROVE Spared'
  <2>1. \A d \in Calls \ {c} : pc'[d] = pc[d] /\ found'[d] = found[d] /\ doomed'[d] = doomed[d]
    BY <1>3
       DEF PlayStep, ResolveShowFolder, FindSavedFileByName, ClearFolder, ListDoomed, Erase,
           Delete, SaveDone, SaveTaskTimeout, Save, SaveDuplicate, FindSavedFileAfterTransfer,
           ClearFolderExcept, EraseRest, ResolvePlayable, Throws
  <2>2. CASE ClearFolderExcept(c)
    BY <1>1, <2>1, <2>2 DEF ClearFolderExcept, ListDoomed
  <2>3. CASE ~ ClearFolderExcept(c)
    <3>1. pc'[c] # "erase_rest"
      BY <1>3, <2>3
         DEF PlayStep, ResolveShowFolder, FindSavedFileByName, ClearFolder, ListDoomed, Erase,
             Delete, SaveDone, SaveTaskTimeout, Save, SaveDuplicate,
             FindSavedFileAfterTransfer, EraseRest, ResolvePlayable, Throws
    <3> QED BY <1>1, <2>1, <3>1
  <2> QED BY <2>2, <2>3
<1>4. CASE \/ PrepareRead \/ PrepareUpsert \/ PrepareFails \/ UNCHANGED vars
           \/ \E f \in incoming : Listed(f)
  BY <1>4 DEF PrepareRead, PrepareUpsert, PrepareFails, Listed, vars, callVars
<1> QED BY <1>2, <1>3, <1>4 DEF Next

\* Whatever other plays do to the folder, the clean-up of a play keeps the file
\* it is about to resolve (clearFolderExcept in playEpisode).
THEOREM CleanupSparesOwnFile == Spec => OwnFileKept
<1>1. Init => Spared
  BY DEF Init, Spared
<1>2. Spared => [\A c \in Calls : EraseRest(c) /\ found[c] \in root => found[c] \in root']_vars
  BY DEF Spared, EraseRest, Delete
<1> QED BY <1>1, <1>2, AlwaysTyped, SparedStep, PTL DEF Spec, OwnFileKept

-----------------------------------------------------------------------------
(* An undisturbed play.                                                    *)

\* The file that the play saves.
Own(c) == [by |-> call[c].number, ep |-> call[c].selected]

\* What the folder holds while nothing else touches it: nothing once cleared,
\* then the play's own file only; or, on the way that saves nothing, what was
\* there, cleaned up around the file found.
Undisturbed(c) ==
    /\ \A d \in Calls \ {c} : pc[d] \in Ended
    /\ incoming \subseteq {Own(c)} /\ (~saved[c] => incoming = {})
    /\ pc[c] \in {"folder", "reuse", "clear", "erase", "save"} => ~saved[c]
    /\ pc[c] = "erase" => root \subseteq doomed[c]
    /\ pc[c] = "save" => root = {}
    /\ pc[c] = "find" => saved[c]
    /\ saved[c] =>
         /\ root \subseteq {Own(c)}
         /\ pc[c] \in {"tidy", "erase_rest", "resolve"} => found[c] \in {Own(c)} \cup nested
         /\ pc[c] = "done" => played[c] \in {call[c].selected} \cup {f.ep : f \in nested}
    /\ ~saved[c] =>
         /\ pc[c] = "erase_rest" => root \subseteq doomed[c] \cup {found[c]}
         /\ pc[c] \in {"resolve", "done"} => root \subseteq {found[c]}

QuietInv == \A c \in Calls : quiet[c] => Undisturbed(c)

\* A step of another call finds no quiet play to disturb.
LEMMA OthersEnded ==
  ASSUME Typed, QuietInv, NEW c \in Calls, NEW d \in Calls \ {c}, quiet[d]
  PROVE  pc[c] \notin Remote
BY DEF QuietInv, Undisturbed, Ended, Remote

LEMMA QuietPlay ==
  ASSUME Typed, NEW c \in Calls, Undisturbed(c), PlayStep(c) \/ Throws(c)
  PROVE  Undisturbed(c)'
<1> USE DEF Undisturbed, Goto, Typed, TypeOK, driveVars, pageVars
<1>0. call' = call /\ Own(c)' = Own(c) /\ nested' = nested
      /\ \A d \in Calls \ {c} : pc'[d] = pc[d]
  <2>1. call' = call /\ nested' = nested /\ \A d \in Calls \ {c} : pc'[d] = pc[d]
    BY DEF PlayStep, ResolveShowFolder, FindSavedFileByName, ClearFolder, ListDoomed, Erase,
           Delete, SaveDone, SaveTaskTimeout, Save, SaveDuplicate, FindSavedFileAfterTransfer,
           ClearFolderExcept, EraseRest, ResolvePlayable, Throws
  <2> QED BY <2>1 DEF Own
<1>1. CASE ResolveShowFolder(c)
  BY <1>0, <1>1 DEF ResolveShowFolder
<1>2. CASE FindSavedFileByName(c)
  BY <1>0, <1>2 DEF FindSavedFileByName
<1>3. CASE ClearFolder(c)
  BY <1>0, <1>3 DEF ClearFolder, ListDoomed
<1>4. CASE Erase(c)
  BY <1>0, <1>4 DEF Erase, Delete
<1>5. CASE SaveDone(c) \/ SaveTaskTimeout(c)
  BY <1>0, <1>5 DEF SaveDone, SaveTaskTimeout, Save, Own
<1>6. CASE SaveDuplicate(c)
  BY <1>6 DEF SaveDuplicate
<1>7. CASE FindSavedFileAfterTransfer(c)
  BY <1>0, <1>7, HitsAreFiles DEF FindSavedFileAfterTransfer
<1>8. CASE ClearFolderExcept(c)
  BY <1>0, <1>8 DEF ClearFolderExcept, ListDoomed
<1>9. CASE EraseRest(c)
  BY <1>0, <1>9 DEF EraseRest, Delete
<1>10. CASE ResolvePlayable(c)
  BY <1>0, <1>10 DEF ResolvePlayable, Own
<1>11. CASE Throws(c)
  BY <1>0, <1>11 DEF Throws
<1> QED BY <1>1, <1>2, <1>3, <1>4, <1>5, <1>6, <1>7, <1>8, <1>9, <1>10, <1>11 DEF PlayStep

LEMMA QuietStep == Typed /\ QuietInv /\ [Next]_vars => QuietInv'
<1> SUFFICES ASSUME Typed, QuietInv, [Next]_vars PROVE QuietInv'
  OBVIOUS
<1>1. CASE PrepareRead \/ PrepareUpsert \/ PrepareFails \/ UNCHANGED vars
  BY <1>1 DEF PrepareRead, PrepareUpsert, PrepareFails, vars, driveVars, callVars, QuietInv,
              Undisturbed, Own
<1>2. ASSUME NEW c \in Calls, NEW e \in Episodes, Start(c, e) PROVE QuietInv'
  <2>1. \A d \in Calls \ {c} : ~ quiet'[d]
    BY <1>2 DEF Start
  <2>2. ASSUME quiet'[c] PROVE Undisturbed(c)'
    <3>1. incoming' = {} /\ \A d \in Calls \ {c} : pc'[d] \in Ended
      BY <1>2, <2>2 DEF Start, Goto, Typed, TypeOK, driveVars
    <3>2. pc'[c] = "folder" /\ ~ saved'[c]
      BY <1>2 DEF Start, Goto, Typed, TypeOK
    <3> QED BY <3>1, <3>2 DEF Undisturbed
  <2> QED BY <2>1, <2>2 DEF QuietInv
<1>3. ASSUME NEW c \in Calls, PlayStep(c) \/ Throws(c) PROVE QuietInv'
  <2>1. pc[c] \in Remote /\ quiet' = quiet
    BY <1>3
       DEF PlayStep, ResolveShowFolder, FindSavedFileByName, ClearFolder, ListDoomed, Erase,
           Delete, SaveDone, SaveTaskTimeout, Save, SaveDuplicate, FindSavedFileAfterTransfer,
           ClearFolderExcept, EraseRest, ResolvePlayable, Throws, Remote
  <2>2. \A d \in Calls \ {c} : ~ quiet'[d]
    BY <2>1, OthersEnded
  <2>3. quiet'[c] => Undisturbed(c)'
    BY <1>3, <2>1, QuietPlay DEF QuietInv
  <2> QED BY <2>2, <2>3 DEF QuietInv
<1>4. ASSUME NEW f \in incoming, Listed(f) PROVE QuietInv'
  <2> SUFFICES ASSUME NEW c \in Calls, quiet[c] PROVE Undisturbed(c)'
    BY <1>4 DEF Listed, callVars, QuietInv
  <2>1. saved[c] /\ f = Own(c) /\ incoming \subseteq {Own(c)}
    BY <1>4 DEF QuietInv, Undisturbed
  <2>2. root' = root \cup {f} /\ incoming' \subseteq incoming /\ nested' = nested
        /\ UNCHANGED callVars
    BY <1>4 DEF Listed
  <2> QED BY <2>1, <2>2 DEF QuietInv, Undisturbed, Own, callVars
<1> QED BY <1>1, <1>2, <1>3, <1>4 DEF Next

LEMMA AlwaysQuiet == Spec => []QuietInv
<1>1. Init => QuietInv
  BY DEF Init, QuietInv
<1> QED BY <1>1, AlwaysTyped, QuietStep, PTL DEF Spec

\* An undisturbed play that saved its episode shows it, or a file of a
\* sub-folder: never a leftover of the folder (playEpisode,
\* _findSavedFileAfterTransfer).
THEOREM UndisturbedPlaysSaved == Spec => []SavedEpisodeIsPlayed
<1>1. QuietInv => SavedEpisodeIsPlayed
  BY DEF QuietInv, Undisturbed, SavedEpisodeIsPlayed
<1> QED BY <1>1, AlwaysQuiet, PTL

\* An undisturbed play leaves at most one file in the folder (clearFolder,
\* clearFolderExcept).
THEOREM UndisturbedTidies == Spec => []FolderTidied
<1>1. QuietInv => FolderTidied
  <2> SUFFICES ASSUME QuietInv, NEW c \in Calls, pc[c] = "done", quiet[c]
               PROVE  Cardinality(root) < 2
    BY DEF FolderTidied
  <2>1. root \subseteq {Own(c)} \/ root \subseteq {found[c]}
    BY DEF QuietInv, Undisturbed
  <2>2. PICK x : root \subseteq {x}
    BY <2>1
  <2>3. Cardinality({x}) = 1 /\ IsFiniteSet({x})
    BY FS_Singleton
  <2>4. Cardinality(root) <= 1 /\ Cardinality(root) \in Nat
    BY <2>2, <2>3, FS_Subset, FS_CardinalityType
  <2> QED BY <2>4
<1> QED BY <1>1, AlwaysQuiet, PTL

============================================================================
