------------------------- MODULE DesktopBackendProofs -------------------------
(***************************************************************************)
(* Proofs about DesktopBackend, for runs of any length.                    *)
(***************************************************************************)
EXTENDS DesktopBackend, TLAPS

Shape ==
  /\ stop \in [Callers -> {"idle", "wait", "last", "done"}]
  /\ reported \in BOOLEAN
  /\ killed \in {"no", "asked", "failed"}

\* An exit that was seen has happened, and no process comes back.
ExitsAreReal == exitSeen => child \in Gone

\* Every call of stop has said so, and it only gives up on a process after it
\* has run taskkill.
StopsDispose ==
  \A c \in Callers :
    /\ stop[c] # "idle" => stopping
    /\ stop[c] = "last" => killed # "no"
    /\ stop[c] = "done" => exitSeen \/ killed # "no"

IInv ==
  /\ TypeOK
  /\ Shape
  /\ ExitsAreReal
  /\ StopsDispose
  /\ BackendStopsFirst

LEMMA InitHolds == Init => IInv
BY DEF Init, IInv, TypeOK, Shape, ExitsAreReal, StopsDispose, BackendStopsFirst, Living,
       Gone, Callers

\* What every step of the child leaves alone.
LEMMA ChildStepHolds ==
  ASSUME IInv, NEW from \in SUBSET Living, NEW to \in Living \cup {"exited"},
         ChildMoves(from, to)
  PROVE  IInv'
BY DEF ChildMoves, startVars, appVars, IInv, TypeOK, Shape, ExitsAreReal, StopsDispose,
       BackendStopsFirst, Disposed, Living, Gone

LEMMA BackendSteps ==
  ASSUME IInv,
         WriteAddress \/ Serve \/ NoticeEnd \/ EndServer \/ Crash \/ Hang \/ Die \/ AnswerHealth
  PROVE  IInv'
<1>1. CASE WriteAddress \/ AnswerHealth
  BY <1>1
  DEF WriteAddress, AnswerHealth, childVars, startVars, appVars, IInv, TypeOK, Shape,
      ExitsAreReal, StopsDispose, BackendStopsFirst, Disposed
<1>2. CASE Serve
  BY <1>2, ChildStepHolds DEF Serve, Living
<1>3. CASE NoticeEnd
  BY <1>3, ChildStepHolds DEF NoticeEnd, Living
<1>4. CASE EndServer
  BY <1>4, ChildStepHolds DEF EndServer, Living
<1>5. CASE Crash
  BY <1>5, ChildStepHolds DEF Crash, Living
<1>6. CASE Hang
  BY <1>6, ChildStepHolds DEF Hang, Living
<1>7. CASE Die
  BY <1>7, ChildStepHolds DEF Die, Living
<1> QED
  BY <1>1, <1>2, <1>3, <1>4, <1>5, <1>6, <1>7

LEMMA StopSteps ==
  ASSUME IInv, NEW c \in Callers, StopEnds(c) \/ StopKills(c) \/ StopGivesUp(c)
  PROVE  IInv'
<1> USE DEF StopMoves, childVars, startVars, appVars, IInv, TypeOK, Shape, ExitsAreReal,
            StopsDispose, BackendStopsFirst, Disposed
<1>1. CASE StopEnds(c)
  BY <1>1 DEF StopEnds
<1>2. CASE StopKills(c)
  BY <1>2 DEF StopKills
<1>3. CASE StopGivesUp(c)
  BY <1>3 DEF StopGivesUp
<1> QED
  BY <1>1, <1>2, <1>3

\* A call of stop says so, and returns at once only if the exit has been seen.
LEMMA BeginStopKeeps ==
  ASSUME IInv, NEW c \in Callers, BeginStop(c),
         UNCHANGED <<childVars, exitSeen, reported, killed, left>>,
         starter' \in {"loop", "fetch", "stop", "ready"} \/ UNCHANGED starter,
         starter = "failed" => c # "start",
         app' \in {"starting", "window", "dialog", "leaving", "ended"}
  PROVE  IInv'
<1>1. /\ stopping' = TRUE
      /\ \/ exitSeen /\ stop' = [stop EXCEPT ![c] = "done"] /\ UNCHANGED piped
         \/ stop' = [stop EXCEPT ![c] = "wait"] /\ piped' = FALSE
  BY DEF BeginStop
<1>2. UNCHANGED <<child, exitSeen, reported, killed, left>>
  BY DEF childVars
<1>3. TypeOK'
  BY <1>1, <1>2 DEF IInv, TypeOK, Shape, Callers
<1>4. Shape' /\ ExitsAreReal' /\ BackendStopsFirst'
  BY <1>1, <1>2 DEF IInv, Shape, ExitsAreReal, BackendStopsFirst, Disposed
<1>5. StopsDispose'
  BY <1>1, <1>2 DEF IInv, Shape, StopsDispose
<1> QED
  BY <1>3, <1>4, <1>5 DEF IInv

LEMMA StartSteps ==
  ASSUME IInv,
         SeeExit \/ ReadAddress \/ PassTime \/ GiveUp \/ AskHealth \/ HealthFails
           \/ BecomeReady \/ FailStart
  PROVE  IInv'
<1>1. CASE GiveUp
  BY <1>1, BeginStopKeeps DEF GiveUp, StartMoves, Callers, IInv, TypeOK, appVars
<1>2. CASE SeeExit
  BY <1>2
  DEF SeeExit, childVars, startVars, appVars, IInv, TypeOK, Shape, ExitsAreReal,
      StopsDispose, BackendStopsFirst, Disposed
<1>3. CASE ReadAddress \/ PassTime \/ AskHealth \/ HealthFails \/ BecomeReady \/ FailStart
  BY <1>3
  DEF ReadAddress, PassTime, AskHealth, HealthFails, BecomeReady, FailStart, StartMoves,
      childVars, appVars, IInv, TypeOK, Shape, ExitsAreReal, StopsDispose,
      BackendStopsFirst, Disposed
<1> QED
  BY <1>1, <1>2, <1>3

LEMMA AppSteps ==
  ASSUME IInv,
         Open \/ ShowFailure \/ CloseFailure \/ Quit \/ Leave \/ QuitAgain \/ AppDies
  PROVE  IInv'
<1>1. CASE Open \/ ShowFailure
  BY <1>1
  DEF Open, ShowFailure, AppMoves, childVars, startVars, IInv, TypeOK, Shape, ExitsAreReal,
      StopsDispose, BackendStopsFirst, Disposed
<1>2. CASE CloseFailure
  BY <1>2, BeginStopKeeps DEF CloseFailure, AppMoves, startVars, Callers
<1>3. CASE Quit
  BY <1>3, BeginStopKeeps DEF Quit, AppMoves, startVars, Callers
<1>4. ASSUME NEW how \in {"stopped", "insisted", "died"}, Ends(how),
             how = "stopped" => Disposed
      PROVE  IInv'
  BY <1>4
  DEF Ends, AppMoves, childVars, startVars, IInv, TypeOK, Shape, ExitsAreReal,
      StopsDispose, BackendStopsFirst, Disposed
<1>5. CASE Leave
  <2>1. \E c \in Callers : stop[c] = "done"
    BY <1>5 DEF Leave, Callers
  <2>2. Disposed
    BY <2>1 DEF IInv, StopsDispose, ExitsAreReal, Disposed
  <2> QED
    BY <1>4, <1>5, <2>2 DEF Leave
<1>6. CASE QuitAgain \/ AppDies
  BY <1>4, <1>6 DEF QuitAgain, AppDies
<1> QED
  BY <1>1, <1>2, <1>3, <1>5, <1>6

LEMMA StepHolds == IInv /\ [Next]_vars => IInv'
<1> SUFFICES ASSUME IInv, [Next]_vars PROVE IInv'
  OBVIOUS
<1>1. CASE UNCHANGED vars
  BY <1>1
  DEF vars, IInv, TypeOK, Shape, ExitsAreReal, StopsDispose, BackendStopsFirst, Disposed
<1>2. CASE Next
  BY <1>2, BackendSteps, StopSteps, StartSteps, AppSteps DEF Next
<1> QED
  BY <1>1, <1>2

\* An exit is only shown as a crash while nobody has called stop.
LEMMA CrashesAreNoStops ==
  ASSUME IInv, [Next]_vars
  PROVE  [(\E c \in Callers : stop[c] # "idle") => reported' = reported]_vars
<1> SUFFICES ASSUME Next, NEW c \in Callers, stop[c] # "idle"
             PROVE  reported' = reported
  BY DEF vars
<1>1. stopping /\ reported \in BOOLEAN
  BY DEF IInv, StopsDispose, Shape
<1>2. CASE SeeExit
  BY <1>1, <1>2 DEF SeeExit
<1>3. CASE ~SeeExit
  BY <1>3
  DEF Next, ChildMoves, WriteAddress, Serve, NoticeEnd, EndServer, Crash, Hang, Die,
      AnswerHealth, StopMoves, StopEnds, StopKills, StopGivesUp, StartMoves, ReadAddress,
      PassTime, GiveUp, AskHealth, HealthFails, BecomeReady, FailStart, AppMoves, Open,
      ShowFailure, CloseFailure, Quit, Ends, Leave, QuitAgain, AppDies
<1> QED
  BY <1>2, <1>3

\* However calls of stop overlap with a start and a crash, the backend has ended
\* or was to be killed before the application ends by itself, and what stop ends
\* is never shown as a crash (Backend.stop, before-quit).
THEOREM BackendIsStoppedInOrder == Spec => StopsAreOrderly
<1>1. Spec => []IInv
  BY InitHolds, StepHolds, PTL DEF Spec
<1>2. IInv => TypeOK /\ BackendStopsFirst
  BY DEF IInv
<1>3. IInv /\ [Next]_vars
        => [(\E c \in Callers : stop[c] # "idle") => reported' = reported]_vars
  BY CrashesAreNoStops
<1> QED
  BY <1>1, <1>2, <1>3, PTL DEF Spec, StopsAreOrderly, StopsAreNoCrashes
=============================================================================
