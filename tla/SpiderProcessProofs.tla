------------------------ MODULE SpiderProcessProofs ------------------------
(***************************************************************************)
(* Proofs about SpiderProcess, for any number of calls and of starts.      *)
(***************************************************************************)
EXTENDS SpiderProcess, FiniteSetTheorems, TLAPS

-----------------------------------------------------------------------------
(* The inductive invariant.                                                *)

\* One call at a time starts a process, and there is none while it does.
OneStarter ==
    /\ \A c \in Calls : pc[c] = "starting" =>
          starting /\ starts < MaxStarts /\ \A d \in Calls \ {c} : pc[d] # "starting"
    /\ starting => process = 0

\* The current process is the one started last; no other is listened to, and
\* no other runs but the killed ones.
CurrentIsLast ==
    /\ process # 0 => process = starts
    /\ listened \subseteq {process} \ {0}
    /\ alive \ killed \subseteq {process}

\* dispose finds the process that answered destroy() still there.
DisposeHasProcess == disposing = "kill" => process # 0 /\ listened = {}

\* A waiting call was written to the current process or to a killed one.
PendingOnCurrent == \A c \in pending : sent[c] \in {process} \cup killed

Inv ==
    /\ TypeOK /\ PendingAreWaiting
    /\ OneStarter /\ CurrentIsLast /\ DisposeHasProcess /\ PendingOnCurrent

LEMMA InvInit == Init => Inv
<1> SUFFICES ASSUME Init PROVE Inv
  OBVIOUS
<1>1. TypeOK
  <2>1. sent \in [Calls -> 0 .. starts] /\ pending \subseteq {c \in Calls : sent[c] # 0}
    BY DEF Init
  <2>2. starts \in 0 .. MaxStarts /\ process \in 0 .. starts
    BY CallsAssumption DEF Init
  <2> QED BY <2>1, <2>2 DEF Init, TypeOK
<1>2. PendingAreWaiting
  BY DEF Init, PendingAreWaiting
<1>3. OneStarter /\ CurrentIsLast /\ DisposeHasProcess /\ PendingOnCurrent
  BY DEF Init, OneStarter, CurrentIsLast, DisposeHasProcess, PendingOnCurrent
<1> QED BY <1>1, <1>2, <1>3 DEF Inv

\* Writing a request registers the caller on the current process, or ends it.
LEMMA WriteKeepsInv ==
  ASSUME Inv, NEW c \in Calls, pc[c] \in {"idle", "polling"}, Write(c),
         starting' = starting,
         UNCHANGED <<process, starts, alive, killed, listened, disposing>>
  PROVE  Inv'
<1> USE CallsAssumption DEF Inv, TypeOK
<1>1. TypeOK'
  BY DEF Write, End
<1>2. PendingAreWaiting'
  BY DEF PendingAreWaiting, Write, End
<1>3. OneStarter'
  BY DEF OneStarter, Write, End
<1>4. CurrentIsLast' /\ DisposeHasProcess'
  BY DEF CurrentIsLast, DisposeHasProcess
<1>5. PendingOnCurrent'
  BY DEF PendingOnCurrent, PendingAreWaiting, Write, End
<1> QED BY <1>1, <1>2, <1>3, <1>4, <1>5 DEF Inv

LEMMA BeginKeepsInv ==
  ASSUME Inv, NEW c \in Calls, Begin(c)
  PROVE  Inv'
<1> USE CallsAssumption DEF Inv, TypeOK
<1>1. CASE process # 0 /\ Write(c) /\ UNCHANGED starting
  BY <1>1, WriteKeepsInv DEF Begin
<1>2. CASE process = 0 /\ starting /\ pc' = [pc EXCEPT ![c] = "polling"]
           /\ UNCHANGED <<starting, pending, sent, reply, outcome>>
  <2>1. TypeOK' /\ PendingAreWaiting' /\ OneStarter'
    BY <1>2 DEF Begin, PendingAreWaiting, OneStarter
  <2>2. CurrentIsLast' /\ DisposeHasProcess' /\ PendingOnCurrent'
    BY <1>2 DEF Begin, CurrentIsLast, DisposeHasProcess, PendingOnCurrent
  <2> QED BY <2>1, <2>2 DEF Inv
<1>3. CASE process = 0 /\ ~starting /\ starts < MaxStarts /\ starting' = TRUE
           /\ pc' = [pc EXCEPT ![c] = "starting"]
           /\ UNCHANGED <<pending, sent, reply, outcome>>
  <2>1. TypeOK' /\ PendingAreWaiting' /\ OneStarter'
    BY <1>3 DEF Begin, PendingAreWaiting, OneStarter
  <2>2. CurrentIsLast' /\ DisposeHasProcess' /\ PendingOnCurrent'
    BY <1>3 DEF Begin, CurrentIsLast, DisposeHasProcess, PendingOnCurrent
  <2> QED BY <2>1, <2>2 DEF Inv
<1> QED BY <1>1, <1>2, <1>3 DEF Begin

LEMMA CallStepKeepsInv ==
  ASSUME Inv, NEW c \in Calls, CallStep(c)
  PROVE  Inv'
<1> USE CallsAssumption DEF Inv, TypeOK
<1>1. CASE Started(c)
  <2>1. starts + 1 \in 1 .. MaxStarts /\ process = 0
    BY <1>1 DEF Started, OneStarter
  <2>2. TypeOK'
    <3>1. /\ starts' \in 0 .. MaxStarts /\ process' \in 0 .. starts'
          /\ 1 .. starts \subseteq 1 .. starts' /\ 0 .. starts \subseteq 0 .. starts'
          /\ starts + 1 \in 1 .. starts'
      BY <1>1, <2>1 DEF Started
    <3>2. /\ listened' \subseteq 1 .. starts' /\ alive' \subseteq 1 .. starts'
          /\ killed' \subseteq 1 .. starts'
      BY <1>1, <3>1 DEF Started
    <3>3. sent' \in [Calls -> 0 .. starts']
      BY <1>1, <3>1 DEF Started
    <3>4. pending' \subseteq {d \in Calls : sent'[d] # 0}
      BY <1>1, <3>1 DEF Started
    <3> QED BY <1>1, <3>1, <3>2, <3>3, <3>4 DEF Started
  <2>3. PendingAreWaiting' /\ OneStarter'
    BY <1>1 DEF Started, PendingAreWaiting, OneStarter
  <2>4. CurrentIsLast' /\ DisposeHasProcess'
    BY <1>1, <2>1 DEF Started, CurrentIsLast, DisposeHasProcess
  <2>5. PendingOnCurrent'
    BY <1>1, <2>1 DEF Started, PendingOnCurrent
  <2> QED BY <2>2, <2>3, <2>4, <2>5 DEF Inv
<1>2. CASE StartFails(c)
  <2>1. TypeOK' /\ PendingAreWaiting' /\ OneStarter'
    BY <1>2 DEF StartFails, End, PendingAreWaiting, OneStarter
  <2>2. CurrentIsLast' /\ DisposeHasProcess' /\ PendingOnCurrent'
    BY <1>2 DEF StartFails, CurrentIsLast, DisposeHasProcess, PendingOnCurrent
  <2> QED BY <2>1, <2>2 DEF Inv
<1>3. CASE Polled(c)
  BY <1>3, WriteKeepsInv DEF Polled, processVars
<1>4. CASE Timeout(c)
  <2>1. TypeOK' /\ PendingAreWaiting' /\ OneStarter'
    BY <1>4 DEF Timeout, End, processVars, PendingAreWaiting, OneStarter
  <2>2. CurrentIsLast' /\ DisposeHasProcess' /\ PendingOnCurrent'
    BY <1>4 DEF Timeout, processVars, CurrentIsLast, DisposeHasProcess, PendingOnCurrent
  <2> QED BY <2>1, <2>2 DEF Inv
<1> QED BY <1>1, <1>2, <1>3, <1>4 DEF CallStep

\* A reply may begin dispose: destroy() was answered by the current process.
LEMMA ReplyKeepsInv ==
  ASSUME Inv, NEW c \in Calls, Reply(c) \/ StdoutLine(c)
  PROVE  Inv'
<1> USE CallsAssumption DEF Inv, TypeOK
<1>1. CASE Reply(c)
  BY <1>1 DEF Reply, processVars, PendingAreWaiting, OneStarter, CurrentIsLast,
              DisposeHasProcess, PendingOnCurrent
<1>2. CASE StdoutLine(c)
  <2>1. process # 0 /\ process = starts /\ listened \subseteq {starts}
    BY <1>2 DEF StdoutLine, CurrentIsLast
  <2>2. TypeOK'
    BY <1>2 DEF StdoutLine, End, CancelSubscriptions
  <2>3. PendingAreWaiting' /\ OneStarter'
    BY <1>2 DEF StdoutLine, End, PendingAreWaiting, OneStarter
  <2>4. CurrentIsLast' /\ PendingOnCurrent'
    BY <1>2 DEF StdoutLine, CancelSubscriptions, CurrentIsLast, PendingOnCurrent
  <2>5. DisposeHasProcess'
    BY <1>2, <2>1 DEF StdoutLine, CancelSubscriptions, DisposeHasProcess
  <2> QED BY <2>2, <2>3, <2>4, <2>5 DEF Inv
<1> QED BY <1>1, <1>2

LEMMA ProcessKeepsInv ==
  ASSUME Inv, NEW p \in 1 .. MaxStarts, Exit(p) \/ ProcessDone(p)
  PROVE  Inv'
<1> USE CallsAssumption DEF Inv, TypeOK
<1>1. CASE Exit(p)
  <2>1. TypeOK' /\ PendingAreWaiting' /\ OneStarter'
    BY <1>1 DEF Exit, callVars, PendingAreWaiting, OneStarter
  <2>2. CurrentIsLast' /\ DisposeHasProcess' /\ PendingOnCurrent'
    BY <1>1 DEF Exit, callVars, CurrentIsLast, DisposeHasProcess, PendingOnCurrent
  <2> QED BY <2>1, <2>2 DEF Inv
<1>2. CASE ProcessDone(p)
  <2>1. p = process /\ p \notin alive
    BY <1>2 DEF ProcessDone, CurrentIsLast
  <2>2. TypeOK'
    BY <1>2 DEF ProcessDone
  <2>3. PendingAreWaiting' /\ OneStarter'
    BY <1>2 DEF ProcessDone, PendingAreWaiting, OneStarter
  <2>4. CurrentIsLast' /\ DisposeHasProcess' /\ PendingOnCurrent'
    BY <1>2, <2>1 DEF ProcessDone, CurrentIsLast, DisposeHasProcess, PendingOnCurrent
  <2> QED BY <2>2, <2>3, <2>4 DEF Inv
<1> QED BY <1>1, <1>2

LEMMA DisposeKeepsInv ==
  ASSUME Inv, Kill \/ Reaped
  PROVE  Inv'
<1> USE CallsAssumption DEF Inv, TypeOK
<1>1. CASE Kill
  <2>1. TypeOK' /\ PendingAreWaiting' /\ OneStarter'
    BY <1>1 DEF Kill, callVars, PendingAreWaiting, OneStarter
  <2>2. CurrentIsLast' /\ DisposeHasProcess' /\ PendingOnCurrent'
    BY <1>1 DEF Kill, callVars, CurrentIsLast, DisposeHasProcess, PendingOnCurrent
  <2> QED BY <2>1, <2>2 DEF Inv
<1>2. CASE Reaped
  BY <1>2 DEF Reaped, processVars, callVars, PendingAreWaiting, OneStarter,
              CurrentIsLast, DisposeHasProcess, PendingOnCurrent
<1> QED BY <1>1, <1>2

LEMMA InvStep == Inv /\ [Next]_vars => Inv'
<1> SUFFICES ASSUME Inv, [Next]_vars PROVE Inv'
  OBVIOUS
<1>1. CASE \E c \in Calls : Begin(c) \/ CallStep(c) \/ Reply(c) \/ StdoutLine(c)
  BY <1>1, BeginKeepsInv, CallStepKeepsInv, ReplyKeepsInv
<1>2. CASE \E p \in 1 .. MaxStarts : Exit(p) \/ ProcessDone(p)
  BY <1>2, ProcessKeepsInv
<1>3. CASE Kill \/ Reaped
  BY <1>3, DisposeKeepsInv
<1>4. CASE UNCHANGED vars
  BY <1>4 DEF vars, processVars, callVars, Inv, TypeOK, PendingAreWaiting, OneStarter,
              CurrentIsLast, DisposeHasProcess, PendingOnCurrent
<1> QED BY <1>1, <1>2, <1>3, <1>4 DEF Next

LEMMA InvHolds == Spec => []Inv
  BY InvInit, InvStep, PTL DEF Spec

-----------------------------------------------------------------------------
(* The theorems.                                                           *)

\* The types of spider_process_manager.dart's state hold; in particular no
\* request is registered without having been written to a process.
THEOREM TypesHold == Spec => []TypeOK
  BY InvHolds, PTL DEF Inv

\* The map of completers holds exactly the calls that wait, whichever of
\* reply, timeout, exit and dispose comes first.
THEOREM CompletersAreWaiting == Spec => []PendingAreWaiting
  BY InvHolds, PTL DEF Inv

\* At most one process runs that dispose has not killed, however many calls
\* of ensureStarted find none at once.
THEOREM AtMostOneProcess == Spec => []OneProcess
<1>1. Inv => OneProcess
  <2> SUFFICES ASSUME Inv PROVE OneProcess
    OBVIOUS
  <2> DEFINE running == alive \ killed
  <2>1. IsFiniteSet(running) /\ Cardinality(running) \in {0, 1}
    <3>1. IsFiniteSet({process}) /\ Cardinality({process}) = 1
      BY FS_Singleton
    <3>2. running \subseteq {process}
      BY DEF Inv, CurrentIsLast
    <3> QED BY <3>1, <3>2, FS_Subset, FS_CardinalityType
  <2>2. CASE starting
    <3>1. running = {}
      BY <2>2 DEF Inv, TypeOK, OneStarter, CurrentIsLast
    <3> QED BY <2>2, <3>1, FS_EmptySet DEF OneProcess
  <2>3. CASE ~starting
    BY <2>1, <2>3 DEF OneProcess
  <2> QED BY <2>2, <2>3
<1> QED BY <1>1, InvHolds, PTL

\* _onProcessDone fails every pending call, and each of them was written to
\* the process that ended or to one that dispose had killed.
THEOREM ExitFailsOnlyItsCalls == Spec => ExitFailsItsCalls
<1>1. Inv => \A p \in 1 .. MaxStarts, c \in Calls :
               ProcessDone(p) /\ c \in pending => sent[c] \in {p} \cup killed
  BY DEF Inv, CurrentIsLast, PendingOnCurrent, ProcessDone
<1> QED BY <1>1, InvHolds, PTL DEF ExitFailsItsCalls

\* Once dispose has sent its kill, every process that still runs is one it has
\* killed, however many calls were under way.
THEOREM DisposeKillsAllRunning == Spec => DisposeKillsRunning
<1>1. Inv /\ [Next]_vars => (Killing /\ ~Killing' => NoneLeft')
  <2> SUFFICES ASSUME Inv, [Next]_vars, Killing, ~Killing' PROVE NoneLeft'
    OBVIOUS
  <2>1. Kill
    BY DEF Killing, Next, Begin, CallStep, Started, StartFails, Polled, Reply, StdoutLine,
           Timeout, CancelSubscriptions, Exit, ProcessDone, Reaped, vars
  <2>2. process # 0 /\ ~starting /\ alive \ killed \subseteq {process}
    BY DEF Killing, Inv, TypeOK, OneStarter, CurrentIsLast, DisposeHasProcess
  <2> QED BY <2>1, <2>2 DEF Kill, NoneLeft
<1> QED BY <1>1, InvHolds, PTL DEF Spec, DisposeKillsRunning

=============================================================================
