--------------------------- MODULE SpiderProcess ---------------------------
(***************************************************************************)
(* Calls to a spider that runs in a process of its own                     *)
(* (lib/core/spider/spider_process_manager.dart), with the executor that   *)
(* owns it (lib/core/spider/process/js_executor.dart; py_executor.dart is  *)
(* the same code).                                                         *)
(*                                                                         *)
(* Dart code runs in one isolate: an action is what runs between two       *)
(* awaits or one callback.  Processes are numbered in the order of their   *)
(* start, 0 standing for none.  A call's id is unique (it hashes the time  *)
(* in microseconds), so pending, a map by id in the code, is a set of      *)
(* calls here.  Of a reply only its arrival matters, result or error.      *)
(* The in-memory mode, which starts no process, is left out.               *)
(***************************************************************************)
EXTENDS Integers, FiniteSets

CONSTANTS
    Calls,          \* calls made through the executor
    Destroy,        \* the one that destroy() makes before it disposes
    MaxStarts       \* processes started (bound of the model)

ASSUME CallsAssumption == Destroy \in Calls /\ MaxStarts \in Nat \ {0}

VARIABLES
    process,        \* _process
    starting,       \* _starting
    starts,         \* number of processes started so far
    alive,          \* processes running
    killed,         \* processes that dispose has killed
    listened,       \* processes whose stdout is listened to
    pending,        \* calls whose completer is registered
    sent,           \* call -> process its request was written to, or 0
    reply,          \* call -> its reply: none, written by the process, or read
    pc,             \* call -> where it is
    outcome,        \* call -> how it ended
    disposing       \* destroy() after its call: where it is

processVars == <<process, starting, starts, alive, killed, listened>>
callVars == <<pending, sent, reply, pc, outcome>>
vars == <<processVars, callVars, disposing>>

-----------------------------------------------------------------------------
Init ==
    /\ process = 0 /\ starting = FALSE /\ starts = 0
    /\ alive = {} /\ killed = {} /\ listened = {}
    /\ pending = {}
    /\ reply = [c \in Calls |-> "none"]
    /\ sent = [c \in Calls |-> 0]
    /\ pc = [c \in Calls |-> "idle"]
    /\ outcome = [c \in Calls |-> "none"]
    /\ disposing = "no"

\* Call c ends with outcome how.
End(c, how) ==
    /\ pc' = [pc EXCEPT ![c] = "done"]
    /\ outcome' = [outcome EXCEPT ![c] = how]

-----------------------------------------------------------------------------
(* call: ensureStarted, then the request.                                  *)

\* Written to the current process: the process may have exited unnoticed,
\* and the write may throw.
Write(c) ==
    \/ /\ process # 0
       /\ pending' = pending \cup {c}
       /\ sent' = [sent EXCEPT ![c] = process]
       /\ pc' = [pc EXCEPT ![c] = "waiting"]
       /\ UNCHANGED <<reply, outcome>>
    \/ /\ process # 0 /\ process \notin alive
       /\ End(c, "write_failed")
       /\ UNCHANGED <<pending, sent, reply>>
    \/ /\ process = 0
       /\ End(c, "unavailable")
       /\ UNCHANGED <<pending, sent, reply>>

\* Mutant: whoever finds no process starts one.
Begin_IgnoresStarting(c) ==
    /\ pc[c] = "idle" /\ disposing # "gone"
    /\ \/ process # 0 /\ Write(c) /\ UNCHANGED starting
       \/ /\ process = 0 /\ starts < MaxStarts
          /\ starting' = TRUE
          /\ pc' = [pc EXCEPT ![c] = "starting"]
          /\ UNCHANGED <<pending, sent, reply, outcome>>
    /\ UNCHANGED <<process, starts, alive, killed, listened, disposing>>

\* The executor has a manager until destroy() has run to its end.
Begin(c) ==
    /\ pc[c] = "idle" /\ disposing # "gone"
    /\ \/ process # 0 /\ Write(c) /\ UNCHANGED starting
       \/ /\ process = 0 /\ starting
          /\ pc' = [pc EXCEPT ![c] = "polling"]
          /\ UNCHANGED <<starting, pending, sent, reply, outcome>>
       \/ /\ process = 0 /\ ~starting /\ starts < MaxStarts
          /\ starting' = TRUE
          /\ pc' = [pc EXCEPT ![c] = "starting"]
          /\ UNCHANGED <<pending, sent, reply, outcome>>
    /\ UNCHANGED <<process, starts, alive, killed, listened, disposing>>

\* Process.start has returned: the stream is listened to and the request is
\* written without another event in between.
Started(c) ==
    /\ pc[c] = "starting"
    /\ starting' = FALSE
    /\ starts' = starts + 1 /\ process' = starts + 1
    /\ listened' = listened \cup {starts + 1}
    /\ alive' = alive \cup {starts + 1}
    /\ pending' = pending \cup {c}
    /\ sent' = [sent EXCEPT ![c] = starts + 1]
    /\ pc' = [pc EXCEPT ![c] = "waiting"]
    /\ UNCHANGED <<killed, reply, outcome, disposing>>

\* Mutant: no finally clause.
StartFails_StillStarting(c) ==
    /\ pc[c] = "starting" /\ End(c, "start_failed")
    /\ UNCHANGED <<processVars, pending, sent, reply, disposing>>

StartFails(c) ==
    /\ pc[c] = "starting"
    /\ starting' = FALSE
    /\ End(c, "start_failed")
    /\ UNCHANGED <<process, starts, alive, killed, listened, pending, sent, reply,
                   disposing>>

\* The ten-millisecond loop of the others: they do not start one themselves.
Polled(c) ==
    /\ pc[c] = "polling" /\ ~starting
    /\ Write(c)
    /\ UNCHANGED <<processVars, disposing>>

-----------------------------------------------------------------------------
(* Replies, timeouts and the end of the process.                           *)

\* The process answers a request.
Reply(c) ==
    /\ sent[c] \in alive /\ reply[c] = "none"
    /\ reply' = [reply EXCEPT ![c] = "written"]
    /\ UNCHANGED <<processVars, pending, sent, pc, outcome, disposing>>

\* Mutant: the subscription is left alone.
CancelSubscriptions_Kept == disposing' = "kill" /\ UNCHANGED listened

\* dispose begins: _stdoutSub listens to the process started last.
CancelSubscriptions ==
    /\ listened' = listened \ {starts}
    /\ disposing' = "kill"

\* _onStdoutLine: a reply to a call that no longer waits is dropped.  With
\* the result of its call destroy() goes on to dispose() in the same event;
\* with an error it throws.
StdoutLine(c) ==
    /\ reply[c] = "written" /\ sent[c] \in listened
    /\ reply' = [reply EXCEPT ![c] = "read"]
    /\ pending' = pending \ {c}
    /\ IF c \in pending THEN End(c, "reply") ELSE UNCHANGED <<pc, outcome>>
    /\ \/ c = Destroy /\ c \in pending /\ CancelSubscriptions
       \/ UNCHANGED <<listened, disposing>>
    /\ UNCHANGED <<process, starting, starts, alive, killed, sent>>

\* Mutant: the completer stays registered.
Timeout_KeepsPending(c) ==
    /\ pc[c] = "waiting" /\ End(c, "timeout")
    /\ UNCHANGED <<processVars, pending, sent, reply, disposing>>

Timeout(c) ==
    /\ pc[c] = "waiting"
    /\ pending' = pending \ {c}
    /\ End(c, "timeout")
    /\ UNCHANGED <<processVars, sent, reply, disposing>>

\* A process exits, on its own or because it was killed.
Exit(p) ==
    /\ p \in alive
    /\ alive' = alive \ {p}
    /\ UNCHANGED <<process, starting, starts, killed, listened, callVars, disposing>>

Unread(p) == {c \in Calls : sent[c] = p /\ reply[c] = "written"}

\* _onProcessDone, once the stream of an exited process has been read.
ProcessDone(p) ==
    /\ p \in listened \ alive /\ Unread(p) = {}
    /\ listened' = listened \ {p} /\ process' = 0
    /\ pending' = {}
    /\ pc' = [c \in Calls |-> IF c \in pending THEN "done" ELSE pc[c]]
    /\ outcome' = [c \in Calls |-> IF c \in pending THEN "exited" ELSE outcome[c]]
    /\ UNCHANGED <<starting, starts, alive, killed, sent, reply, disposing>>

-----------------------------------------------------------------------------
(* dispose(), once it has cancelled its subscriptions.                     *)

\* Mutant: _process is set to null before it is read.
Kill_ForgetsFirst ==
    /\ disposing = "kill"
    /\ process' = 0
    /\ disposing' = "gone"
    /\ UNCHANGED <<starting, starts, alive, killed, listened, callVars>>

Kill ==
    /\ disposing = "kill"
    /\ process' = 0
    /\ killed' = killed \cup ({process} \ {0})
    /\ disposing' = IF process = 0 THEN "gone" ELSE "reap"
    /\ UNCHANGED <<starting, starts, alive, listened, callVars>>

\* The killed process has exited, or will after SIGKILL.
Reaped ==
    /\ disposing = "reap"
    /\ disposing' = "gone"
    /\ UNCHANGED <<processVars, callVars>>

CallStep(c) == Started(c) \/ StartFails(c) \/ Polled(c) \/ Timeout(c)

Next ==
    \/ \E c \in Calls : Begin(c) \/ CallStep(c) \/ Reply(c) \/ StdoutLine(c)
    \/ \E p \in 1 .. MaxStarts : Exit(p) \/ ProcessDone(p)
    \/ Kill \/ Reaped

Spec == Init /\ [][Next]_vars

\* Timers fire and Process.start returns.
FairSpec == Spec /\ \A c \in Calls : WF_vars(CallStep(c))

-----------------------------------------------------------------------------
(* Properties.                                                             *)

\* Types; a registered call has been written to a process.
TypeOK ==
    /\ starts \in 0 .. MaxStarts /\ process \in 0 .. starts /\ listened \subseteq 1 .. starts
    /\ starting \in BOOLEAN /\ alive \subseteq 1 .. starts /\ killed \subseteq 1 .. starts
    /\ sent \in [Calls -> 0 .. starts]
    /\ pending \subseteq {c \in Calls : sent[c] # 0}
    /\ reply \in [Calls -> {"none", "written", "read"}]
    /\ pc \in [Calls -> {"idle", "starting", "polling", "waiting", "done"}]
    /\ outcome \in [Calls -> {"none", "reply", "timeout", "exited",
                              "write_failed", "unavailable", "start_failed"}]
    /\ disposing \in {"no", "kill", "reap", "gone"}

\* A completer is registered exactly while its caller waits for it, whichever
\* of reply, timeout, exit and dispose comes first.
PendingAreWaiting == pending = {c \in Calls : pc[c] = "waiting"}

\* However many calls find no process at once, at most one process runs that
\* dispose has not killed.
OneProcess == Cardinality(alive \ killed) + (IF starting THEN 1 ELSE 0) < 2

\* The end of a process fails only calls that were written to it, or to one
\* that dispose has killed before, although _onProcessDone fails all that are
\* pending.
ExitFailsItsCalls ==
    [][\A p \in 1 .. MaxStarts, c \in Calls :
         ProcessDone(p) /\ c \in pending => sent[c] \in {p} \cup killed]_vars

\* dispose is about to kill the process; nothing runs or starts but the killed.
Killing == disposing = "kill"
NoneLeft == alive \subseteq killed /\ ~starting

\* When dispose has sent its kill, no other process runs and none is being
\* started, although calls go on while destroy() waits for its own.
DisposeKillsRunning == [][Killing /\ ~Killing' => NoneLeft']_vars

\* Every call ends: with a reply, or with an error.
CallEnds == \A c \in Calls : pc[c] # "idle" ~> pc[c] = "done"

\* After destroy() has run to its end no process is left.
NoProcessLeft == disposing = "gone" => NoneLeft

=============================================================================
