------------------------------- MODULE MCDesktop -------------------------------
(***************************************************************************)
(* The two halves of the desktop application in one instance: the backend  *)
(* supervisor, and the window over a backend that answers.  They share no  *)
(* state, so that each is explored while the other one rests; the window   *)
(* has two cases, a memory job in one of them and two polls at a time.     *)
(***************************************************************************)
EXTENDS DesktopBackend

CONSTANTS a, b, None

VARIABLES half, job, current, title, page, root, analysis, jobs, view, search, work,
          pageTimer, strands, jobPoll, cancels, broken

Window == INSTANCE Workspace WITH
            Cases <- {a, b}, JobCases <- {a}, MayFail <- FALSE, Strands <- {1, 2}

windowVars == <<job, current, title, page, root, analysis, jobs, view, search, work,
                pageTimer, strands, jobPoll, cancels, broken>>
allVars == <<half, vars, windowVars>>

\* The application has been quit.
AtRest ==
  /\ child = "exited" /\ printed = TRUE /\ piped = FALSE /\ exitSeen = TRUE
  /\ address = TRUE /\ late = FALSE /\ answered = TRUE /\ starter = "ready"
  /\ endpoint = TRUE /\ stop = [c \in Callers |-> IF c = "quit" THEN "done" ELSE "idle"]
  /\ stopping = TRUE /\ reported = FALSE /\ app = "ended" /\ quitting = TRUE
  /\ killed = "no" /\ left = "stopped"

BothInit ==
  /\ Window!Init
  /\ \/ half = "backend" /\ Init
     \/ half = "window" /\ AtRest

BothNext ==
  \/ half = "backend" /\ Next /\ UNCHANGED <<half, windowVars>>
  \/ half = "window" /\ Window!Next /\ UNCHANGED <<half, vars>>

BothSpec == BothInit /\ [][BothNext]_allVars /\ Fairness /\ Window!Fairness

\* The end of a memory job comes to be shown in its case, and a paged table to
\* answer the search that was typed (refreshMemoryJobs, refreshPagedView).
WindowCatchesUp == Window!WindowCatchesUp
=============================================================================
