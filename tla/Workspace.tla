------------------------------ MODULE Workspace ------------------------------
(***************************************************************************)
(* The window of the desktop application (desktop/src/renderer.ts): one    *)
(* user action at a time behind the busy flag, and beside it, unguarded,   *)
(* the polls of memory jobs and the timer of the search field.  What is    *)
(* shown is named by the case it belongs to; every case is large, so that  *)
(* its tables are pages of the server.                                     *)
(*                                                                         *)
(* One call of refreshMemoryJobs, and the timer it sets, is a strand: it   *)
(* asks, is answered, waits and asks again.                                *)
(***************************************************************************)
EXTENDS Naturals, FiniteSets

CONSTANTS Cases, None,
          JobCases,    \* the cases in which a memory job may be started
          MayFail,     \* requests of the window may fail
          Strands      \* bound: calls and timers of refreshMemoryJobs at a time

Status == {"none", "running", "done"}
Query == {"", "q"}
Step == {"case", "page", "jobs", "list", "load", "analyze", "start", "started"}
Place == {"asking", "answered", "waiting"}

\* None, null in the renderer, is none of the things that may be there.
ASSUME NoneAssumption ==
  /\ JobCases \subseteq Cases
  /\ None \notin Cases \cup Strands
  /\ None \notin [case : Cases, query : Query]
  /\ None \notin [case : Cases, status : Status]
  /\ None \notin [case : Cases, at : Place, answer : Status \cup {None}]
  /\ None \notin [step : Step, case : Cases, query : Query, strand : Strands \cup {None}]

VARIABLES
  job,        \* of each case, on the server
  current,    \* currentCase
  title,      \* the case that the header names
  page,       \* eventPage: its case and the search it answers
  root, analysis,
  jobs,       \* memoryJobs: their case and status
  view, search,
  work,       \* what the action under way waits for, None when not busy
  pageTimer,  \* pageSearchTimer is set
  strands, jobPoll,
  cancels,    \* of each case, where a click on Cancel analysis stands
  broken      \* the last openCase failed after it had set currentCase

vars == <<job, current, title, page, root, analysis, jobs, view, search, work,
          pageTimer, strands, jobPoll, cancels, broken>>
shown == <<title, page, root, analysis, view, search>>
polls == <<strands, jobPoll, cancels>>

Busy == work # None
Wait(step, case, query, strand) ==
  [step |-> step, case |-> case, query |-> query, strand |-> strand]
At(step) == Busy /\ work.step = step
Strand(case, at, answer) == [case |-> case, at |-> at, answer |-> answer]
Is(s, at) == strands[s] # None /\ strands[s].at = at

Init ==
  /\ job = [c \in Cases |-> "none"]
  /\ current = None /\ title = None /\ page = None
  /\ root = None /\ analysis = None /\ jobs = None
  /\ view = "case" /\ search = ""
  /\ work = None
  /\ pageTimer = FALSE
  /\ strands = [s \in Strands |-> None] /\ jobPoll = None
  /\ cancels = [c \in Cases |-> "no"]
  /\ broken = FALSE

-----------------------------------------------------------------------------
(* refreshMemoryJobs *)

\* clearTimeout(jobPoll), which is the last timer set, whatever its case.
Cleared == [s \in Strands |-> IF s = jobPoll /\ Is(s, "waiting") THEN None ELSE strands[s]]
Ask(s, c) == strands' = [Cleared EXCEPT ![s] = Strand(c, "asking", None)]

Poll(s) ==
  /\ Is(s, "waiting")
  /\ Ask(s, strands[s].case)
  /\ UNCHANGED <<job, current, shown, jobs, work, pageTimer, jobPoll, cancels, broken>>

Answer(s) ==
  /\ Is(s, "asking")
  /\ strands' = [strands EXCEPT ![s] = Strand(@.case, "answered", job[@.case])]
  /\ UNCHANGED <<job, current, shown, jobs, work, pageTimer, jobPoll, cancels, broken>>

\* The action that called refreshMemoryJobs goes on when it returns.
Returns(s) == Busy /\ work.strand = s
Resume(s) ==
  CASE Returns(s) /\ work.step = "jobs" ->
         /\ work' = Wait("list", work.case, "", None)
         /\ root' = None /\ analysis' = None /\ title' = work.case
    [] Returns(s) /\ work.step = "started" ->
         work' = None /\ UNCHANGED <<title, root, analysis>>
    [] OTHER -> UNCHANGED <<work, title, root, analysis>>

\* Mutant: the answer is shown whatever case is open.
ReceiveAny(s) ==
  /\ Is(s, "answered")
  /\ jobs' = [case |-> strands[s].case, status |-> strands[s].answer]
  /\ IF strands[s].answer = "running"
     THEN /\ strands' = [strands EXCEPT ![s] = Strand(@.case, "waiting", None)]
          /\ jobPoll' = s
     ELSE strands' = [strands EXCEPT ![s] = None] /\ UNCHANGED jobPoll
  /\ Resume(s)
  /\ UNCHANGED <<job, current, page, view, search, pageTimer, cancels, broken>>
\* Mutant: no timer is set.
ReceiveOnce(s) ==
  /\ Is(s, "answered")
  /\ strands' = [strands EXCEPT ![s] = None]
  /\ jobs' = IF current = strands[s].case
             THEN [case |-> current, status |-> strands[s].answer] ELSE jobs
  /\ Resume(s)
  /\ UNCHANGED <<job, jobPoll, current, page, view, search, pageTimer, cancels, broken>>
Receive(s) ==
  /\ Is(s, "answered")
  /\ IF current # strands[s].case
     THEN strands' = [strands EXCEPT ![s] = None] /\ UNCHANGED <<jobs, jobPoll>>
     ELSE /\ jobs' = [case |-> current, status |-> strands[s].answer]
          /\ IF strands[s].answer = "running"
             THEN /\ strands' = [strands EXCEPT ![s] = Strand(@.case, "waiting", None)]
                  /\ jobPoll' = s
             ELSE strands' = [strands EXCEPT ![s] = None] /\ UNCHANGED jobPoll
  /\ Resume(s)
  /\ UNCHANGED <<job, current, page, view, search, pageTimer, cancels, broken>>

\* A failed request ends the strand: a message is shown, no timer is set.
AskFails(s) ==
  /\ MayFail /\ Is(s, "asking")
  /\ strands' = [strands EXCEPT ![s] = None]
  /\ work' = IF Returns(s) THEN None ELSE work
  /\ broken' = (broken \/ (Returns(s) /\ work.step = "jobs"))
  /\ UNCHANGED <<job, current, shown, jobs, pageTimer, jobPoll, cancels>>

-----------------------------------------------------------------------------
(* openCase *)

\* Mutant: the case is changed before it is read.
OpenAtOnce(c) ==
  /\ ~Busy
  /\ title' = c /\ work' = Wait("case", c, "", None)
  /\ UNCHANGED <<job, current, page, root, analysis, view, search, jobs, pageTimer, polls, broken>>
\* From the list of cases, Refresh, or Load analysis results: navigate does
\* nothing while the action that calls it is under way.
OpenCase(c) ==
  /\ ~Busy
  /\ work' = Wait("case", c, "", None)
  /\ UNCHANGED <<job, current, shown, jobs, pageTimer, polls, broken>>

GotCase ==
  /\ At("case")
  /\ current' = work.case /\ page' = None /\ search' = ""
  /\ work' = Wait("page", work.case, "", None)
  /\ UNCHANGED <<job, title, root, analysis, jobs, view, pageTimer, polls, broken>>

GotPage(s) ==
  /\ At("page") /\ strands[s] = None
  /\ page' = [case |-> work.case, query |-> work.query]
  /\ Ask(s, work.case)
  /\ work' = Wait("jobs", work.case, "", s)
  /\ UNCHANGED <<job, current, title, root, analysis, view, search, jobs, pageTimer,
                 jobPoll, cancels, broken>>

GotList ==
  /\ At("list")
  /\ view' = "case" /\ search' = ""
  /\ work' = None /\ broken' = FALSE
  /\ UNCHANGED <<job, current, title, page, root, analysis, jobs, pageTimer, polls>>

OpenFails ==
  /\ MayFail /\ Busy /\ work.step \in {"case", "page", "list"}
  /\ work' = None
  /\ broken' = (broken \/ work.step # "case")
  /\ UNCHANGED <<job, current, shown, jobs, pageTimer, polls>>

-----------------------------------------------------------------------------
(* Tables: navigate, the search field, loadEventPage *)

\* refreshPagedView on a table, when nothing is under way.
Load(query) == work' = Wait("load", current, query, None) /\ pageTimer' = FALSE

Navigate(route) ==
  /\ ~Busy /\ current # None
  /\ view' = route /\ search' = ""
  /\ IF route = "table" THEN Load("") ELSE UNCHANGED <<work, pageTimer>>
  /\ UNCHANGED <<job, current, title, page, root, analysis, jobs, polls, broken>>

Type(text) ==
  /\ view = "table" /\ text # search
  /\ search' = text /\ pageTimer' = TRUE
  /\ UNCHANGED <<job, current, title, page, root, analysis, view, jobs, work, polls, broken>>

\* Mutant: the timer is not set again while an action is under way.
DropTimer ==
  /\ pageTimer /\ pageTimer' = FALSE
  /\ IF ~Busy /\ view = "table" THEN Load(search) ELSE UNCHANGED work
  /\ UNCHANGED <<job, current, shown, jobs, polls, broken>>
\* While an action is under way the timer is set again.
PageTimer ==
  /\ pageTimer /\ ~Busy
  /\ IF view = "table" THEN Load(search) ELSE pageTimer' = FALSE /\ UNCHANGED work
  /\ UNCHANGED <<job, current, shown, jobs, polls, broken>>

Loaded ==
  /\ At("load")
  /\ page' = [case |-> work.case, query |-> work.query]
  /\ work' = None
  /\ UNCHANGED <<job, current, title, root, analysis, view, search, jobs, pageTimer,
                 polls, broken>>

-----------------------------------------------------------------------------
(* Selecting and analyzing a process *)

SelectRoot ==
  /\ ~Busy /\ view = "table" /\ page # None
  /\ root' = page.case
  /\ analysis' = IF root = page.case THEN analysis ELSE None
  /\ UNCHANGED <<job, current, title, page, view, search, jobs, work, pageTimer, polls, broken>>

Analyze ==
  /\ ~Busy /\ current # None /\ root # None
  /\ analysis' = None
  /\ work' = Wait("analyze", current, "", None)
  /\ UNCHANGED <<job, current, title, page, root, view, search, jobs, pageTimer, polls, broken>>

\* The server does not know a root of another case.
Analyzed ==
  /\ At("analyze") /\ root = work.case
  /\ analysis' = work.case /\ view' = "results" /\ search' = ""
  /\ work' = None
  /\ UNCHANGED <<job, current, title, page, root, jobs, pageTimer, polls, broken>>

\* A failed request of an action that leaves what is shown as it is.
RequestFails ==
  /\ \/ MayFail /\ Busy /\ work.step \in {"load", "analyze", "start"}
     \/ At("analyze") /\ root # work.case
  /\ work' = None
  /\ UNCHANGED <<job, current, shown, jobs, pageTimer, polls, broken>>

-----------------------------------------------------------------------------
(* Memory jobs: the server, and the buttons of the panel *)

Finish(c) ==
  /\ job[c] = "running"
  /\ job' = [job EXCEPT ![c] = "done"]
  /\ UNCHANGED <<current, shown, jobs, work, pageTimer, polls, broken>>

StartJob ==
  /\ ~Busy /\ current \in JobCases /\ view = "case" /\ job[current] = "none"
  /\ work' = Wait("start", current, "", None)
  /\ UNCHANGED <<job, current, shown, jobs, pageTimer, polls, broken>>

JobStarted(s) ==
  /\ At("start") /\ strands[s] = None
  /\ job' = [job EXCEPT ![work.case] = "running"]
  /\ jobs' = [case |-> work.case, status |-> "running"]
  /\ Ask(s, work.case)
  /\ work' = Wait("started", work.case, "", s)
  /\ UNCHANGED <<current, shown, pageTimer, jobPoll, cancels, broken>>

\* The button is there at any time, also while an action is under way.
Cancel(c) ==
  /\ jobs = [case |-> c, status |-> "running"] /\ cancels[c] = "no"
  /\ cancels' = [cancels EXCEPT ![c] = "posted"]
  /\ UNCHANGED <<job, current, shown, jobs, work, pageTimer, strands, jobPoll, broken>>

CancelReaches(c) ==
  /\ cancels[c] = "posted"
  /\ cancels' = [cancels EXCEPT ![c] = "reached"]
  /\ job' = [job EXCEPT ![c] = "done"]
  /\ UNCHANGED <<current, shown, jobs, work, pageTimer, strands, jobPoll, broken>>

CancelAnswered(c, s) ==
  /\ cancels[c] = "reached" /\ strands[s] = None
  /\ cancels' = [cancels EXCEPT ![c] = "no"]
  /\ Ask(s, c)
  /\ UNCHANGED <<job, current, shown, jobs, work, pageTimer, jobPoll, broken>>

CancelFails(c) ==
  /\ MayFail /\ cancels[c] = "posted"
  /\ cancels' = [cancels EXCEPT ![c] = "no"]
  /\ UNCHANGED <<job, current, shown, jobs, work, pageTimer, strands, jobPoll, broken>>

-----------------------------------------------------------------------------
User ==
  \/ \E c \in Cases : OpenCase(c) \/ Cancel(c)
  \/ \E route \in {"case", "table"} : Navigate(route)
  \/ \E text \in Query : Type(text)
  \/ SelectRoot \/ Analyze \/ StartJob

Failures ==
  \/ \E s \in Strands : AskFails(s)
  \/ \E c \in Cases : CancelFails(c)
  \/ OpenFails \/ RequestFails

StrandSteps(s) == Poll(s) \/ Answer(s) \/ Receive(s)
WorkSteps ==
  \/ GotCase \/ GotList \/ Loaded \/ Analyzed
  \/ \E s \in Strands : GotPage(s) \/ JobStarted(s)
JobSteps(c) == Finish(c) \/ CancelReaches(c) \/ \E s \in Strands : CancelAnswered(c, s)

Next ==
  \/ User \/ Failures \/ WorkSteps \/ PageTimer
  \/ \E s \in Strands : StrandSteps(s)
  \/ \E c \in Cases : JobSteps(c)

\* Requests are answered, timers go off, and a job ends; the user may stop.  A
\* step that needs a free strand is fair in the strong sense, for the bound on the
\* strands is not the program's.
Fairness ==
  /\ SF_vars(WorkSteps) /\ WF_vars(RequestFails) /\ WF_vars(PageTimer)
  /\ \A s \in Strands : WF_vars(StrandSteps(s))
  /\ \A c \in Cases : WF_vars(JobSteps(c))

Spec == Init /\ [][Next]_vars /\ Fairness

-----------------------------------------------------------------------------
(* Properties *)

MaybeCase == Cases \cup {None}

\* The types, and that a case is open before anything of one is shown.
TypeOK ==
  /\ job \in [Cases -> Status]
  /\ {current, title, root, analysis} \subseteq MaybeCase
  /\ view \in {"case", "table", "results"} /\ search \in Query
  /\ pageTimer \in BOOLEAN /\ broken \in BOOLEAN
  /\ cancels \in [Cases -> {"no", "posted", "reached"}]
  /\ \A s \in Strands : strands[s] # None =>
       strands[s].case \in Cases /\ strands[s].at \in Place
  /\ current = None => title = None /\ page = None /\ root = None /\ jobs = None

\* Between two actions the header, the table, the selected process, its analysis
\* and the memory jobs belong to the open case, whatever answers of another case
\* arrive late; only a case whose opening failed half-way is excepted.
IdleIsOneCase ==
  ~Busy /\ ~broken =>
    /\ title = current
    /\ {root, analysis} \subseteq {None, current}
    /\ page # None => page.case = current
    /\ jobs # None => jobs.case = current

\* The panel comes to show that a job of the open case has ended.
FinishedJobsAreShown ==
  \A c \in Cases :
    (current = c /\ job[c] = "done")
      ~> (jobs = [case |-> c, status |-> "done"] \/ current # c)

\* A table comes to answer the text of the search field, also when it was typed
\* while another request was under way.
PageFollowsSearch ==
  \A c \in Cases : \A text \in Query :
    (view = "table" /\ current = c /\ search = text)
      ~> (\/ page = [case |-> c, query |-> text]
          \/ view # "table" \/ current # c \/ search # text)

\* What is shown is of one case, and no state of a case is kept without one
\* (openCase).
WindowIsConsistent == TypeOK /\ IdleIsOneCase

\* The window catches up with the server and with what was typed
\* (refreshMemoryJobs, refreshPagedView).
WindowCatchesUp == FinishedJobsAreShown /\ PageFollowsSearch
=============================================================================
