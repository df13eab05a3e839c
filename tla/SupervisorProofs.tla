-------------------------- MODULE SupervisorProofs --------------------------
(***************************************************************************)
(* Theorems about Supervisor, for any limits on restarts and retries, any  *)
(* behaviour of the child and any timing of signals and watchdogs.         *)
(***************************************************************************)
EXTENDS Supervisor, TLAPS

(* Run's pcs at which an attempt is over. *)
Between == {"start", "decide", "delete", "again", "exited"}

ChildIsCollected ==
  /\ pc \in Between => child \in {"none", "reaped"}
  /\ exitCh # NoResult => child = "reaped"

(* The marker was printed, and nothing that excuses the scanner happened. *)
Owed == printed = "marker" /\ copier # "cut"

(* A marker that is owed is in the pipe or has been seen, the result of a   *)
(* child comes after the last output that was read, and what Run has seen   *)
(* it knows.                                                                *)
MarkerIsKept ==
  /\ Owed => pipe \/ matched
  /\ pipe => printed # "nothing" /\ copier # "cut"
  /\ exitCh # NoResult => ~pipe
  /\ pc = "reap" => loop
  /\ pc = "decide" => exitCh # NoResult /\ (Owed => loop)

SettledInv == ChildIsCollected /\ MarkerIsKept

-----------------------------------------------------------------------------
(* What the child, os/exec and the watchdogs do to the child. *)
LEMMA ChildSteps ==
  ASSUME SettledInv,
         \/ ChildExits \/ ObeysTerm \/ WaitDelayKills \/ Collect
         \/ \E i \in 0..MaxAttempts : WatchdogKills(i)
  PROVE  SettledInv'
<1> USE DEF SettledInv, ChildIsCollected, MarkerIsKept, Owed, Between, runVars, killVars
<1>1. CASE ChildExits \/ ObeysTerm
  <2>1. child = "running" /\ UNCHANGED <<pc, exitCh, printed, pipe, copier, matched, loop>>
    BY <1>1 DEF ChildExits, ObeysTerm, Die
  <2> QED
    BY <2>1
<1>4. CASE WaitDelayKills
  <2>1. /\ child = "running" /\ ~pipe' /\ copier' = "cut"
        /\ UNCHANGED <<pc, exitCh, printed, matched, loop>>
    BY <1>4 DEF WaitDelayKills, Die
  <2> QED
    BY <2>1
<1>2. CASE Collect
  BY <1>2 DEF Collect
<1>3. ASSUME NEW i \in 0..MaxAttempts, WatchdogKills(i)
      PROVE  SettledInv'
  <2>1. (child' = child \/ child = "running") /\ UNCHANGED <<pc, exitCh, printed, pipe, copier, matched, loop>>
    BY <1>3 DEF WatchdogKills
  <2> QED
    BY <2>1
<1> QED
  BY <1>1, <1>2, <1>3, <1>4

(* What happens to the output. *)
LEMMA OutputSteps ==
  ASSUME SettledInv, ChildPrints \/ ChildFloods \/ Write \/ WriteFails \/ WaitReturns
  PROVE  SettledInv'
<1> USE DEF SettledInv, ChildIsCollected, MarkerIsKept, Owed, Between, runVars, childVars, killVars
<1>1. CASE ChildPrints
  BY <1>1 DEF ChildPrints
<1>2. CASE ChildFloods
  BY <1>2 DEF ChildFloods
<1>3. CASE Write
  <2>1. matched' \in {TRUE, matched} /\ (printed # "buried" => matched')
    BY <1>3 DEF Write
  <2> QED
    BY <1>3, <2>1 DEF Write
<1>4. CASE WriteFails
  BY <1>4 DEF WriteFails
<1>5. CASE WaitReturns
  <2>1. /\ child = "reaped" /\ exitCh = NoResult /\ ~pipe'
        /\ copier' = IF pipe THEN "cut" ELSE copier
        /\ UNCHANGED <<pc, child, printed, matched, loop>>
    BY <1>5 DEF WaitReturns
  <2>2. pc # "decide"
    BY <2>1
  <2>3. Owed' => Owed /\ ~pipe
    BY <2>1
  <2> QED
    BY <2>1, <2>2, <2>3
<1> QED
  BY <1>1, <1>2, <1>3, <1>4, <1>5

LEMMA RunSteps ==
  ASSUME SettledInv, Running
  PROVE  SettledInv'
<1> USE DEF SettledInv, ChildIsCollected, MarkerIsKept, Owed, Between, childVars, killVars
<1>1. CASE StartChild
  BY <1>1 DEF StartChild
<1>2. CASE StartFails
  BY <1>2 DEF StartFails, Exit
<1>3. CASE SeeMarker
  BY <1>3 DEF SeeMarker
<1>4. CASE SeeExit
  BY <1>4 DEF SeeExit
<1>5. CASE SeeInterrupt
  BY <1>5 DEF SeeInterrupt
<1>6. CASE Reap
  BY <1>6 DEF Reap
<1>7. CASE Quit
  BY <1>7 DEF Quit, Exit
<1>8. CASE Decide \/ DeleteTry \/ Recover
  <2>1. pc \in Between /\ pc' \in Between \ {"decide"}
        /\ UNCHANGED <<child, exitCh, printed, pipe, copier, matched, loop>>
    BY <1>8 DEF Decide, DeleteTry, Recover, Restart, Exit
  <2> QED
    BY <2>1
<1> QED
  BY <1>1, <1>2, <1>3, <1>4, <1>5, <1>6, <1>7, <1>8 DEF Running

(* The inductive invariant. *)
THEOREM SettledInvariant == Spec => []SettledInv
<1>1. Init => SettledInv
  BY DEF Init, SettledInv, ChildIsCollected, MarkerIsKept, Owed
<1>2. SettledInv /\ [Next]_vars => SettledInv'
  <2> SUFFICES ASSUME SettledInv, [Next]_vars PROVE SettledInv'
    OBVIOUS
  <2>1. CASE UNCHANGED <<pc, loop, exitCh, child, printed, pipe, copier, matched>>
    BY <2>1 DEF SettledInv, ChildIsCollected, MarkerIsKept, Owed
  <2>2. CASE Interrupt \/ Cancel \/ Finished \/ UNCHANGED vars
    BY <2>1, <2>2 DEF Interrupt, Cancel, Finished, vars, runVars, childVars
  <2>3. ASSUME NEW i \in 0..MaxAttempts, Watching(i)
        PROVE  SettledInv'
    BY <2>1, <2>3, ChildSteps
       DEF Watching, WatchdogWakes, WatchdogRechecks, runVars, childVars
  <2> QED
    BY <2>2, <2>3, ChildSteps, OutputSteps, RunSteps DEF Next, Waiting
<1> QED
  BY <1>1, <1>2, PTL DEF Spec

(* Whenever Run starts another attempt, talks to the proxy or has returned, *)
(* the child is collected, and a marker that was printed is not missed      *)
(* unless it was buried in output or its output was cut.                    *)
THEOREM AttemptsAreSettled == Spec => []AttemptIsSettled
<1>1. SettledInv => AttemptIsSettled
  BY DEF SettledInv, ChildIsCollected, MarkerIsKept, Owed, Between, AttemptIsSettled
<1> QED
  BY <1>1, SettledInvariant, PTL
=============================================================================
