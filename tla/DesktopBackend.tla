--------------------------- MODULE DesktopBackend ---------------------------
(***************************************************************************)
(* The desktop application and the analysis backend it runs as a child:     *)
(* Backend.start and Backend.stop, the handlers of main.ts that call them,  *)
(* and the launcher that ends when the pipe from its parent does.  The      *)
(* child runs by itself; what happens to it reaches the application as      *)
(* events, later.  Timers may go off at any moment after they are set.      *)
(***************************************************************************)
EXTENDS Naturals

VARIABLES
  child,      \* the backend process, see Living and Gone
  printed,    \* it has written its address
  piped,      \* the pipe to its standard input is open
  exitSeen,   \* its exit or its failed spawn has been handled: exitCode is set
  address,    \* start has read the address: candidate
  late,       \* 45 seconds have passed since start
  answered,   \* /health has been answered to the fetch under way
  starter,    \* where start stands
  endpoint,   \* start has found the backend ready: this.endpoint
  stop,       \* where each call of stop stands
  stopping,   \* this.stopping
  reported,   \* a crash has been shown to the user
  app,        \* the application
  quitting,   \* of main.ts
  killed,     \* "no", or what became of taskkill: "asked" or "failed"
  left        \* how the application ended

vars == <<child, printed, piped, exitSeen, address, late, answered, starter, endpoint,
          stop, stopping, reported, app, quitting, killed, left>>
childVars == <<child, printed>>
startVars == <<address, late, answered, starter, endpoint>>
appVars == <<app, quitting, left>>

Callers == {"start", "failure", "quit"}
Living == {"starting", "serving", "ending", "hung"}
Gone == {"exited", "unspawned"}
Running == app # "ended"

\* Backend is constructed and start has spawned the child, or tried to.
Init ==
  /\ child \in {"starting", "unspawned"}
  /\ printed = FALSE
  /\ piped = TRUE
  /\ exitSeen = FALSE
  /\ address = FALSE /\ late = FALSE /\ answered = FALSE /\ starter = "loop"
  /\ endpoint = FALSE
  /\ stop = [c \in Callers |-> "idle"]
  /\ stopping = FALSE
  /\ reported = FALSE
  /\ app = "starting" /\ quitting = FALSE /\ left = "not"
  /\ killed = "no"

-----------------------------------------------------------------------------
(* The backend: api/launcher.py *)

ChildMoves(from, to) ==
  /\ child \in from
  /\ child' = to
  /\ UNCHANGED <<piped, exitSeen, startVars, stop, stopping, reported, appVars, killed>>

\* The address is written before the server runs.
WriteAddress ==
  /\ child \in {"starting", "ending"} /\ ~printed
  /\ printed' = TRUE
  /\ UNCHANGED <<child, piped, exitSeen, startVars, stop, stopping, reported, appVars, killed>>

Serve == ChildMoves({"starting"}, "serving") /\ printed /\ UNCHANGED printed

\* Mutant: only the line "quit" ends the backend, not the end of its input.
NoticeQuit ==
  ChildMoves({"starting", "serving"}, "ending") /\ ~piped /\ stopping /\ UNCHANGED printed

\* watch_parent: "quit" or the end of the input lets the server finish.
NoticeEnd == ChildMoves({"starting", "serving"}, "ending") /\ ~piped /\ UNCHANGED printed

EndServer == ChildMoves({"ending"}, "exited") /\ UNCHANGED printed

\* The process fails, or stops to react.
Crash == ChildMoves({"starting", "serving", "ending"}, "exited") /\ UNCHANGED printed
Hang == ChildMoves({"starting", "serving", "ending"}, "hung") /\ UNCHANGED printed

\* What taskkill was asked for happens.
Die == ChildMoves(Living, "exited") /\ killed = "asked" /\ UNCHANGED printed

AnswerHealth ==
  /\ child = "serving"
  /\ starter = "fetch" /\ ~answered
  /\ answered' = TRUE
  /\ UNCHANGED <<childVars, piped, exitSeen, address, late, starter, endpoint, stop,
                 stopping, reported, appVars, killed>>

-----------------------------------------------------------------------------
(* Backend.stop *)

\* Mutant: a call of stop while another one runs returns.
StopOnce(c) ==
  /\ stopping' = TRUE
  /\ IF exitSeen \/ stopping
     THEN stop' = [stop EXCEPT ![c] = "done"] /\ UNCHANGED piped
     ELSE stop' = [stop EXCEPT ![c] = "wait"] /\ piped' = FALSE

\* Mutant: stop does not say that it is stopping.
StopUnmarked(c) ==
  /\ UNCHANGED stopping
  /\ IF exitSeen
     THEN stop' = [stop EXCEPT ![c] = "done"] /\ UNCHANGED piped
     ELSE stop' = [stop EXCEPT ![c] = "wait"] /\ piped' = FALSE

\* A child that has exited needs nothing; another is told to quit.
BeginStop(c) ==
  /\ stopping' = TRUE
  /\ \/ /\ exitSeen
        /\ stop' = [stop EXCEPT ![c] = "done"]
        /\ UNCHANGED piped
     \/ /\ ~exitSeen
        /\ stop' = [stop EXCEPT ![c] = "wait"]
        /\ piped' = FALSE

StopMoves(c, from, to) ==
  /\ Running
  /\ stop[c] = from
  /\ stop' = [stop EXCEPT ![c] = to]
  /\ UNCHANGED <<childVars, piped, exitSeen, startVars, stopping, reported, appVars>>

\* The child exits while stop waits, the first or the last time.
StopEnds(c) == exitSeen /\ \E from \in {"wait", "last"} :
  StopMoves(c, from, "done") /\ UNCHANGED killed

\* Five seconds pass: taskkill is run.  It may fail, and end nothing.
StopKills(c) ==
  /\ ~exitSeen
  /\ StopMoves(c, "wait", "last")
  /\ killed' \in {"asked"} \cup IF killed = "no" THEN {"failed"} ELSE {killed}

\* Mutant: the application waits until the process is gone.
StopWaits(c) == exitSeen /\ StopMoves(c, "last", "done") /\ UNCHANGED killed

\* Three more seconds pass.
StopGivesUp(c) == ~exitSeen /\ StopMoves(c, "last", "done") /\ UNCHANGED killed

-----------------------------------------------------------------------------
(* Backend.start *)

\* The handlers of "error" and "exit": an exit is a crash once start succeeded.
SeeExit ==
  /\ Running
  /\ child \in Gone /\ ~exitSeen
  /\ exitSeen' = TRUE
  /\ reported' = (reported \/ (child = "exited" /\ ~stopping /\ endpoint))
  /\ UNCHANGED <<childVars, piped, startVars, stop, stopping, appVars, killed>>

StartMoves(from, to) ==
  /\ Running
  /\ starter = from
  /\ starter' = to
  /\ UNCHANGED <<childVars, exitSeen, reported, appVars, killed>>

ReadAddress ==
  /\ StartMoves("loop", "loop")
  /\ printed /\ ~address
  /\ address' = TRUE
  /\ UNCHANGED <<piped, late, answered, endpoint, stop, stopping>>

PassTime ==
  /\ Running
  /\ starter \in {"loop", "fetch"} /\ ~late
  /\ late' = TRUE
  /\ UNCHANGED <<childVars, piped, exitSeen, address, answered, starter, endpoint, stop,
                 stopping, reported, appVars, killed>>

\* The condition of the loop, and the failure seen at its head, end in stop.
GiveUp ==
  /\ StartMoves("loop", "stop")
  /\ late \/ exitSeen
  /\ BeginStop("start")
  /\ UNCHANGED <<address, late, answered, endpoint>>

\* Mutant: the time is not looked at.
AskForever ==
  /\ StartMoves("loop", "fetch")
  /\ address /\ ~exitSeen
  /\ answered' = FALSE
  /\ UNCHANGED <<piped, address, late, endpoint, stop, stopping>>

AskHealth ==
  /\ StartMoves("loop", "fetch")
  /\ ~late /\ ~exitSeen /\ address
  /\ answered' = FALSE
  /\ UNCHANGED <<piped, address, late, endpoint, stop, stopping>>

\* The fetch ends without an answer, after a second at most.
HealthFails ==
  /\ StartMoves("fetch", "loop")
  /\ UNCHANGED <<piped, address, late, answered, endpoint, stop, stopping>>

\* runtime.json is written before start returns: when that fails the error is
\* swallowed, and start asks again although the endpoint is set.
BecomeReady ==
  /\ \E place \in {"ready", "loop"} : StartMoves("fetch", place)
  /\ answered
  /\ endpoint' = TRUE
  /\ UNCHANGED <<piped, address, late, answered, stop, stopping>>

\* Mutant: start does not wait for its stop.
FailAtOnce ==
  /\ StartMoves("stop", "failed")
  /\ UNCHANGED <<piped, address, late, answered, endpoint, stop, stopping>>

\* start throws when its stop has ended.
FailStart ==
  /\ StartMoves("stop", "failed")
  /\ stop["start"] = "done"
  /\ UNCHANGED <<piped, address, late, answered, endpoint, stop, stopping>>

-----------------------------------------------------------------------------
(* main.ts *)

AppMoves(from, to) ==
  /\ app = from
  /\ app' = to
  /\ UNCHANGED <<childVars, exitSeen, startVars, reported, killed>>

Open ==
  /\ AppMoves("starting", "window")
  /\ starter = "ready"
  /\ UNCHANGED <<piped, stop, stopping, quitting, left>>

ShowFailure ==
  /\ AppMoves("starting", "dialog")
  /\ starter = "failed"
  /\ UNCHANGED <<piped, stop, stopping, quitting, left>>

CloseFailure ==
  /\ AppMoves("dialog", "leaving")
  /\ BeginStop("failure")
  /\ UNCHANGED <<quitting, left>>

\* before-quit: the first attempt to quit is held back until the backend stopped.
Quit ==
  /\ \E place \in {"starting", "window", "dialog", "leaving"} : AppMoves(place, place)
  /\ ~quitting
  /\ quitting' = TRUE
  /\ BeginStop("quit")
  /\ UNCHANGED left

Ends(how) ==
  /\ \E place \in {"starting", "window", "dialog", "leaving"} : AppMoves(place, "ended")
  /\ left' = how
  /\ piped' = FALSE
  /\ UNCHANGED <<stop, stopping, quitting>>

\* app.quit after the stop of before-quit, app.exit after that of a failure.
Leave ==
  /\ stop["quit"] = "done" \/ (app = "leaving" /\ stop["failure"] = "done")
  /\ Ends("stopped")

\* A second attempt to quit is not held back.
QuitAgain == quitting /\ Ends("insisted")

\* The application is killed.
AppDies == Ends("died")

-----------------------------------------------------------------------------
Next ==
  \/ WriteAddress \/ Serve \/ NoticeEnd \/ EndServer \/ Crash \/ Hang \/ Die \/ AnswerHealth
  \/ \E c \in Callers : StopEnds(c) \/ StopKills(c) \/ StopGivesUp(c)
  \/ SeeExit \/ ReadAddress \/ PassTime \/ GiveUp \/ AskHealth \/ HealthFails
  \/ BecomeReady \/ FailStart
  \/ Open \/ ShowFailure \/ CloseFailure \/ Quit \/ Leave \/ QuitAgain \/ AppDies

\* Events are delivered and timers go off; the backend notices the end of its
\* input and finishes the requests it is serving, a process that was killed dies.
\* Nobody has to quit or to close a dialog, the backend need not start or answer.
Fairness ==
  /\ WF_vars(NoticeEnd) /\ WF_vars(EndServer) /\ WF_vars(Die)
  /\ \A c \in Callers :
       WF_vars(StopEnds(c)) /\ WF_vars(StopKills(c)) /\ WF_vars(StopGivesUp(c))
  /\ WF_vars(SeeExit) /\ WF_vars(PassTime) /\ WF_vars(GiveUp) /\ WF_vars(HealthFails)
  /\ WF_vars(FailStart) /\ WF_vars(Open) /\ WF_vars(ShowFailure) /\ WF_vars(Leave)

Spec == Init /\ [][Next]_vars /\ Fairness

-----------------------------------------------------------------------------
(* Properties *)

\* The variables are of the expected shape; who waits in stop has closed the
\* pipe, and a start that failed has stopped the child or given up (Backend).
TypeOK ==
  /\ child \in Living \cup Gone
  /\ starter \in {"loop", "fetch", "stop", "ready", "failed"}
  /\ app \in {"starting", "window", "dialog", "leaving", "ended"}
  /\ \A c \in Callers : stop[c] \in {"idle", "wait", "last", "done"}
  /\ (\E c \in Callers : stop[c] \in {"wait", "last"}) => ~piped
  /\ starter = "failed" => stop["start"] = "done"

Disposed == child \in Gone \/ killed # "no"

\* The application ends after its own stop only when the backend has ended or was
\* to be killed, however the calls of stop overlap (stop, before-quit).
BackendStopsFirst == left = "stopped" => Disposed

\* A backend that ends after the application began to stop it is never shown as
\* a crash ("exit" handler, stop).
StopsAreNoCrashes == [][(\E c \in Callers : stop[c] # "idle") => reported' = reported]_vars

\* start succeeds or fails within its time, whatever the child does (start).
StartEnds == app = "starting" ~> app # "starting"

\* Quitting ends the application even if the backend hangs and cannot be
\* killed (stop, before-quit).
QuitEnds == quitting ~> app = "ended"

\* The backend does not outlive the application unless it hangs, also when the
\* application is killed (watch_parent).
BackendFollowsApp == app = "ended" ~> child \in Gone \cup {"hung"}

\* However calls of stop overlap with a start and a crash, the backend is disposed
\* of before the application ends by itself, and nobody is told of a crash
\* (Backend.stop, before-quit).
StopsAreOrderly == []TypeOK /\ []BackendStopsFirst /\ StopsAreNoCrashes

\* Starting, quitting and what the application leaves behind come to an end
\* (start, before-quit, watch_parent).
ApplicationEnds == StartEnds /\ QuitEnds /\ BackendFollowsApp
=============================================================================
