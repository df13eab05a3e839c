----------------------------- MODULE Supervisor -----------------------------
(***************************************************************************)
(* finops-run: Run (internal/wrapper/wrapper.go) supervises one child, with *)
(* the kill machinery of child.go, the output scanner of signals.go and    *)
(* DeleteHistory of proxyclient.go.                                        *)
(*                                                                         *)
(* Per attempt there are four goroutines besides Run: the one that waits   *)
(* for the child, os/exec's own, which sends SIGTERM when the context is   *)
(* done, the watchdog, which sends SIGKILL a grace period later, and the   *)
(* copier that scans the output.  A watchdog may outlive its attempt.      *)
(* os/exec and the operating system are modelled from how the code uses    *)
(* them.  Timers may fire at any time; what the child prints is abstracted *)
(* to whether it carries a loop marker, which goes to one of the two       *)
(* outputs, and to whether a window full of bytes follows it at once.      *)
(***************************************************************************)
EXTENDS Integers

CONSTANTS
  MaxRestarts,       (* cfg.MaxRestarts; negative: no limit                *)
  RetryOnNonzero,    (* cfg.RetryOnNonzero                                 *)
  MaxDeleteRetries,  (* retries of DeleteHistory, clamped to 0             *)
  Stays,             (* TRUE: a descendant may outlive the child and hold  *)
                     (* its output open                                    *)
  MaxAttempts        (* bound: attempts, for a negative MaxRestarts        *)

ASSUME SupervisorAssumption ==
  /\ MaxRestarts \in Int
  /\ RetryOnNonzero \in BOOLEAN
  /\ MaxDeleteRetries \in Int
  /\ Stays \in BOOLEAN
  /\ MaxAttempts \in Nat
  /\ MaxRestarts <= MaxAttempts

VARIABLES
  pc,           (* where Run is                                            *)
  attempt,      (* its loop variable                                       *)
  loop,         (* loopDetected                                            *)
  tries,        (* requests DeleteHistory has made                         *)
  code,         (* what Run returned; NoCode before                        *)
  interrupted,  (* ctx is done: SIGINT or SIGTERM                          *)
  cancelled,    (* cancel() of this attempt was called                     *)
  matched,      (* the channel matched is closed                           *)
  exitCh,       (* result in exitCh; NoResult when empty                   *)
  child,        (* the child process                                       *)
  status,       (* its exit status                                         *)
  lingers,      (* a descendant holds the output open                      *)
  pipe,         (* a marker is in the pipe, not read yet                   *)
  copier,       (* "other": a write to the output without the marker has   *)
                (* failed; "cut": the output with the marker is not read   *)
                (* any more                                                *)
  term,         (* os/exec has called cmd.Cancel                           *)
  watchdog,     (* attempt -> where its watchdog is                        *)
  printed,      (* history: "marker" when the child printed one, "buried"   *)
                (* when matchWindow bytes followed before it was read      *)
  stray         (* history: a watchdog signalled a reaped group            *)

runVars   == <<pc, attempt, loop, tries, code>>
childVars == <<child, status, lingers, pipe, copier, printed>>
killVars  == <<term, watchdog, stray>>
vars == <<runVars, interrupted, cancelled, matched, exitCh, childVars, killVars>>

NoCode == -1
NoResult == [err |-> FALSE, code |-> NoCode]

(* ExitCode: the status, or 128 + signal. *)
ExitCode(s) == CASE s = "ok" -> 0 [] s = "fail" -> 1
                   [] s = "term" -> 143 [] s = "kill" -> 137

CtxDone(i) == interrupted \/ cancelled \/ i < attempt

(* c.done of attempt i: closed by Wait, before the result is sent. *)
Done(i) == i < attempt \/ exitCh # NoResult

Exit(c) == pc' = "exited" /\ code' = c

-----------------------------------------------------------------------------
(* The child, or a descendant that holds the output open, and the output.   *)
ChildPrints ==
  /\ child = "running" \/ (lingers /\ exitCh = NoResult)
  /\ printed = "nothing"
  /\ printed' = "marker" /\ pipe' = (copier # "cut")
  /\ UNCHANGED <<runVars, interrupted, cancelled, matched, exitCh, child, status,
                 lingers, copier, killVars>>

(* matchWindow or more bytes after a marker that is still in the pipe. *)
ChildFloods ==
  /\ child = "running" \/ (lingers /\ exitCh = NoResult)
  /\ pipe /\ printed' = "buried"
  /\ UNCHANGED <<runVars, interrupted, cancelled, matched, exitCh, child, status,
                 lingers, pipe, copier, killVars>>

(* lineTee.Write passes the bytes on and looks for the marker in the last   *)
(* matchWindow of them; fire closes matched once.  A marker with a window   *)
(* full of bytes behind it is missed if they come in the same call.         *)
Write ==
  /\ pipe
  /\ pipe' = FALSE
  /\ matched' \in {TRUE} \cup (IF printed = "buried" THEN {matched} ELSE {})
  /\ UNCHANGED <<runVars, interrupted, cancelled, exitCh, child, status, lingers,
                 copier, printed, killVars>>

(* A write to dst fails: Write returns without looking, and the copier of   *)
(* that output ends; what it has not read, and what comes, is not seen.     *)
WriteFails ==
  /\ child # "none" /\ exitCh = NoResult
  /\ \/ copier = "ok" /\ copier' = "other" /\ UNCHANGED pipe
     \/ copier # "cut" /\ copier' = "cut" /\ pipe' = FALSE
  /\ UNCHANGED <<runVars, interrupted, cancelled, matched, exitCh, child, status,
                 lingers, printed, killVars>>

Die(s, l) ==
  /\ child = "running"
  /\ child' = "dead" /\ status' = s /\ lingers' = l

ChildExits ==
  /\ \E s \in {"ok", "fail"}, l \in BOOLEAN : (l => Stays) /\ Die(s, l)
  /\ UNCHANGED <<runVars, interrupted, cancelled, matched, exitCh, pipe, copier,
                 printed, killVars>>

(* A child may also ignore SIGTERM, or exit in its own way. *)
ObeysTerm ==
  /\ term /\ Die("term", FALSE)
  /\ UNCHANGED <<runVars, interrupted, cancelled, matched, exitCh, pipe, copier,
                 printed, killVars>>

(* cmd.Wait collects the process, then waits for the copiers to reach the   *)
(* end of the outputs, or for WaitDelay, surely so if a descendant holds    *)
(* them open: the pipes are then closed on what has not been read.  That    *)
(* makes a success an error, and so do a failed copier and a Cancel that    *)
(* found the process.                                                       *)
Collect ==
  /\ child = "dead"
  /\ child' = "reaped"
  /\ UNCHANGED <<runVars, interrupted, cancelled, matched, exitCh, status, lingers,
                 pipe, copier, printed, killVars>>

WaitReturns ==
  /\ child = "reaped" /\ exitCh = NoResult
  /\ \E late \in BOOLEAN :
       /\ lingers \/ pipe => late
       /\ exitCh' = [err  |-> status # "ok" \/ late \/ term \/ copier # "ok",
                     code |-> ExitCode(status)]
  /\ pipe' = FALSE
  /\ copier' = IF pipe THEN "cut" ELSE copier
  /\ UNCHANGED <<runVars, interrupted, cancelled, matched, child, status, lingers,
                 printed, killVars>>

(* A reaped group without survivors is gone, and its number may belong to   *)
(* someone else.                                                            *)
Gone == child = "reaped" /\ ~lingers

(* cmd.Cancel, called once by os/exec when the context is done before Wait   *)
(* has its result: SIGTERM to the group.  A group that is gone is           *)
(* os.ErrProcessDone, which changes nothing.                                *)
Cancel ==
  /\ child # "none" /\ ~Gone /\ CtxDone(attempt) /\ ~term /\ exitCh = NoResult
  /\ term' = TRUE
  /\ lingers' \in {lingers, FALSE}
  /\ UNCHANGED <<runVars, interrupted, cancelled, matched, exitCh, child, status,
                 pipe, copier, printed, watchdog, stray>>

(* cmd.WaitDelay after Cancel os/exec kills the child itself, a backstop    *)
(* behind the watchdog, and closes the pipes.                               *)
WaitDelayKills ==
  /\ term /\ \E l \in BOOLEAN : (l => Stays) /\ Die("kill", l)
  /\ pipe' = FALSE /\ copier' = "cut"
  /\ UNCHANGED <<runVars, interrupted, cancelled, matched, exitCh, printed, killVars>>

-----------------------------------------------------------------------------
(* The watchdog: wait for the context or the end, then for the grace period *)
(* or the end; check again; kill the group.                                 *)
Watch(i, from, to) ==
  /\ watchdog[i] = from
  /\ watchdog' = [watchdog EXCEPT ![i] = to]

WatchdogWakes(i) ==
  /\ \/ CtxDone(i) /\ Watch(i, "armed", "grace")
     \/ Done(i) /\ Watch(i, "armed", "off")
     \/ Done(i) /\ Watch(i, "grace", "off")
     \/ Watch(i, "grace", "recheck")
  /\ UNCHANGED <<runVars, interrupted, cancelled, matched, exitCh, childVars, term, stray>>

WatchdogRechecks(i) ==
  /\ Watch(i, "recheck", IF Done(i) THEN "off" ELSE "kill")
  /\ UNCHANGED <<runVars, interrupted, cancelled, matched, exitCh, childVars, term, stray>>

WatchdogKills(i) ==
  /\ Watch(i, "kill", "off")
  /\ \/ /\ i = attempt /\ ~Gone
        /\ child' = IF child = "running" THEN "dead" ELSE child
        /\ status' = IF child = "running" THEN "kill" ELSE status
        /\ lingers' = FALSE
        /\ UNCHANGED stray
     \/ /\ i < attempt \/ Gone
        /\ stray' = TRUE
        /\ UNCHANGED <<child, status, lingers>>
  /\ UNCHANGED <<runVars, interrupted, cancelled, matched, exitCh, pipe, copier,
                 printed, term>>

-----------------------------------------------------------------------------
(* Run.  Starting fails for a binary that cannot be run, and always under a *)
(* context that is done.                                                    *)
StartChild ==
  /\ pc = "start" /\ ~interrupted
  /\ pc' = "select"
  /\ child' = "running" /\ status' = "ok" /\ lingers' = FALSE
  /\ pipe' = FALSE /\ copier' = "ok" /\ printed' = "nothing"
  /\ matched' = FALSE /\ exitCh' = NoResult /\ cancelled' = FALSE /\ term' = FALSE
  /\ watchdog' = [watchdog EXCEPT ![attempt] = "armed"]
  /\ loop' = FALSE
  /\ UNCHANGED <<attempt, tries, code, interrupted, stray>>

StartFails ==
  /\ pc = "start"
  /\ Exit(1)
  /\ UNCHANGED <<attempt, loop, tries, interrupted, cancelled, matched, exitCh,
                 childVars, killVars>>

(* Mutant: not killing the child. *)
SeeMarkerNoCancel ==
  /\ pc = "select" /\ matched
  /\ pc' = "reap"
  /\ loop' = TRUE
  /\ UNCHANGED <<attempt, tries, code, interrupted, cancelled, matched, exitCh,
                 childVars, killVars>>

(* The select: Go picks any of the branches that are ready. *)
SeeMarker ==
  /\ pc = "select" /\ matched
  /\ pc' = "reap"
  /\ loop' = TRUE /\ cancelled' = TRUE
  /\ UNCHANGED <<attempt, tries, code, interrupted, matched, exitCh, childVars, killVars>>

(* Mutant: no second look at the marker. *)
SeeExitOnly ==
  /\ pc = "select" /\ exitCh # NoResult
  /\ pc' = "decide"
  /\ loop' = FALSE /\ cancelled' = TRUE
  /\ UNCHANGED <<attempt, tries, code, interrupted, matched, exitCh, childVars, killVars>>

SeeExit ==
  /\ pc = "select" /\ exitCh # NoResult
  /\ pc' = "decide"
  /\ loop' = matched /\ cancelled' = TRUE
  /\ UNCHANGED <<attempt, tries, code, interrupted, matched, exitCh, childVars, killVars>>

SeeInterrupt ==
  /\ pc = "select" /\ interrupted
  /\ pc' = "quit"
  /\ cancelled' = TRUE
  /\ UNCHANGED <<attempt, loop, tries, code, interrupted, matched, exitCh, childVars,
                 killVars>>

Reap ==
  /\ pc = "reap" /\ exitCh # NoResult
  /\ pc' = "decide"
  /\ UNCHANGED <<attempt, loop, tries, code, interrupted, cancelled, matched, exitCh,
                 childVars, killVars>>

Quit ==
  /\ pc = "quit" /\ exitCh # NoResult
  /\ Exit(130)
  /\ UNCHANGED <<attempt, loop, tries, interrupted, cancelled, matched, exitCh,
                 childVars, killVars>>

MayRestart == MaxRestarts < 0 \/ attempt < MaxRestarts

Restart ==
  /\ attempt < MaxAttempts
  /\ attempt' = attempt + 1
  /\ pc' = "start"
  /\ UNCHANGED code

Decide ==
  /\ pc = "decide"
  /\ \/ loop /\ pc' = "delete" /\ tries' = 0 /\ UNCHANGED <<attempt, code>>
     \/ ~loop /\ ~exitCh.err /\ Exit(0) /\ UNCHANGED <<attempt, tries>>
     \/ /\ ~loop /\ exitCh.err
        /\ IF RetryOnNonzero /\ MayRestart
           THEN Restart
           ELSE Exit(exitCh.code) /\ UNCHANGED attempt
        /\ UNCHANGED tries
  /\ UNCHANGED <<loop, interrupted, cancelled, matched, exitCh, childVars, killVars>>

(* Mutant: retrying without end. *)
DeleteTryForEver ==
  /\ pc = "delete"
  /\ pc' \in IF interrupted THEN {"delete"} ELSE {"delete", "again"}
  /\ UNCHANGED <<attempt, loop, tries, code, interrupted, cancelled, matched, exitCh,
                 childVars, killVars>>

(* DeleteHistory: a network error or a 5xx is tried again, any other answer *)
(* ends it; an interrupt fails the request and may end the pause before the *)
(* next one.  Then Run gives up or restarts, whether or not the history was *)
(* cleared.                                                                 *)
DeleteTry ==
  /\ pc = "delete"
  /\ tries' = tries + 1
  /\ \/ ~interrupted /\ pc' = "again"                         (* answered   *)
     \/ tries < MaxDeleteRetries /\ pc' = "delete"            (* failed     *)
     \/ (tries >= MaxDeleteRetries \/ interrupted) /\ pc' = "again"
  /\ UNCHANGED <<attempt, loop, code, interrupted, cancelled, matched, exitCh,
                 childVars, killVars>>

Recover ==
  /\ pc = "again"
  /\ IF MayRestart THEN Restart ELSE Exit(42) /\ UNCHANGED attempt
  /\ UNCHANGED <<loop, tries, interrupted, cancelled, matched, exitCh, childVars, killVars>>

Interrupt ==
  /\ ~interrupted /\ pc # "exited"
  /\ interrupted' = TRUE
  /\ UNCHANGED <<runVars, cancelled, matched, exitCh, childVars, killVars>>

(* Run has returned (or the bound on attempts is reached). *)
Finished ==
  /\ pc = "exited" \/ (attempt = MaxAttempts /\ MaxRestarts < 0)
  /\ UNCHANGED vars

Init ==
  /\ pc = "start" /\ attempt = 0 /\ loop = FALSE /\ tries = 0 /\ code = NoCode
  /\ interrupted = FALSE /\ cancelled = FALSE /\ matched = FALSE
  /\ exitCh = NoResult
  /\ child = "none" /\ status = "ok" /\ lingers = FALSE /\ pipe = FALSE
  /\ copier = "ok" /\ printed = "nothing" /\ term = FALSE /\ stray = FALSE
  /\ watchdog = [i \in 0..MaxAttempts |-> "off"]

Running ==
  \/ StartChild \/ StartFails \/ SeeMarker \/ SeeExit \/ SeeInterrupt
  \/ Reap \/ Quit \/ Decide \/ DeleteTry \/ Recover

Waiting == Collect \/ WaitReturns \/ Cancel \/ WaitDelayKills

Watching(i) == WatchdogWakes(i) \/ WatchdogRechecks(i) \/ WatchdogKills(i)

Next ==
  \/ ChildPrints \/ ChildFloods \/ ChildExits \/ ObeysTerm \/ Interrupt
  \/ Write \/ WriteFails
  \/ Waiting \/ Running
  \/ \E i \in 0..MaxAttempts : Watching(i)
  \/ Finished

Spec == Init /\ [][Next]_vars

(* The supervisor's goroutines are scheduled, its own output does not block *)
(* for ever and its timers fire; nothing is asked of the child, which may   *)
(* run for ever and ignore SIGTERM.                                         *)
FairSpec ==
  /\ Spec
  /\ WF_vars(Write) /\ WF_vars(Collect \/ WaitReturns) /\ WF_vars(Cancel)
  /\ WF_vars(WaitDelayKills) /\ WF_vars(Running)
  /\ \A i \in 0..MaxAttempts : WF_vars(Watching(i))

-----------------------------------------------------------------------------
(* The types of the variables. *)
TypeOK ==
  /\ pc \in {"start", "select", "reap", "quit", "decide", "delete", "again", "exited"}
  /\ attempt \in 0..MaxAttempts
  /\ loop \in BOOLEAN /\ tries \in Nat
  /\ code \in {NoCode, 0, 1, 42, 130, 137, 143}
  /\ interrupted \in BOOLEAN /\ cancelled \in BOOLEAN /\ matched \in BOOLEAN
  /\ exitCh \in [err : BOOLEAN, code : {NoCode, 0, 1, 137, 143}]
  /\ child \in {"none", "running", "dead", "reaped"}
  /\ status \in {"ok", "fail", "term", "kill"}
  /\ lingers \in BOOLEAN /\ pipe \in BOOLEAN
  /\ copier \in {"ok", "other", "cut"} /\ printed \in {"nothing", "marker", "buried"}
  /\ term \in BOOLEAN /\ stray \in BOOLEAN
  /\ watchdog \in [0..MaxAttempts -> {"off", "armed", "grace", "recheck", "kill"}]

(* An attempt is settled before anything follows from it.  One child at a   *)
(* time, and none left behind: whenever Run starts another attempt, talks   *)
(* to the proxy or has returned, the child is collected.  And a marker is   *)
(* not lost in the race of the scanner with the exit: an attempt that       *)
(* printed one, with whatever status it ended and however soon, is treated  *)
(* as a loop, unless a window of bytes buried the marker before it was read *)
(* or its output was cut, by a failing write or by WaitDelay.               *)
AttemptIsSettled ==
  /\ pc \in {"start", "decide", "delete", "again", "exited"} => child \in {"none", "reaped"}
  /\ pc = "decide" /\ printed = "marker" /\ copier # "cut" => loop

(* A looping child is dealt with even if it ignores SIGTERM: it is killed,  *)
(* collected, and Run moves on.                                             *)
LoopIsBroken == (pc = "reap") ~> (pc # "reap")

(* An interrupt always ends Run, wherever it was. *)
InterruptEndsRun == interrupted ~> (pc = "exited")

(* The watchdog's comment: never signal a group that has already been       *)
(* reaped.                                                                  *)
NeverSignalsReaped == ~stray
=============================================================================
