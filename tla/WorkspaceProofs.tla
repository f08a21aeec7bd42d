--------------------------- MODULE WorkspaceProofs ---------------------------
(***************************************************************************)
(* Proofs about Workspace for every set of cases, every number of pending  *)
(* calls of refreshMemoryJobs, and with or without failing requests.       *)
(***************************************************************************)
EXTENDS Workspace, TLAPS

\* The types of what the steps use, and that a table is shown of an open case.
Types ==
  /\ strands = [s \in Strands |-> strands[s]]
  /\ view # "case" => current # None
  /\ work # None =>
       /\ work.step \in Step
       /\ work.case \in Cases
       /\ work.query \in Query
       /\ work.strand \in IF work.step \in {"jobs", "started"} THEN Strands ELSE {None}

\* The action under way is about the open case, but for the one that opens it.
WorkIsOfCase == Busy /\ work.step # "case" => work.case = current

\* The table is of the open case, also while another one is loaded.
PageIsOfCase == page # None => page.case = current

\* The call of refreshMemoryJobs that openCase waits for is of the case that is
\* opened: whatever it is answered then replaces the jobs of the case before.
JobsAreUnderWay ==
  At("jobs") => /\ strands[work.strand] # None
                /\ strands[work.strand].case = current
                /\ strands[work.strand].at # "waiting"

\* The open case and what is shown of it agree.
OneCase ==
  /\ title = current
  /\ {root, analysis} \subseteq {None, current}
  /\ jobs # None => jobs.case = current

\* They agree but while a case is being opened, and after that has failed.
ShownIsOneCase ==
  /\ ~broken /\ ~At("page") /\ ~At("jobs") => OneCase
  /\ At("list") => OneCase

IInv ==
  /\ TypeOK
  /\ Types
  /\ WorkIsOfCase
  /\ PageIsOfCase
  /\ JobsAreUnderWay
  /\ ShownIsOneCase
-----------------------------------------------------------------------------
(***************************************************************************)
(* What the renderer waits for is never null.                              *)
(***************************************************************************)

LEMMA WaitIsWork ==
  ASSUME NEW step \in Step, NEW case \in Cases, NEW query \in Query,
         NEW strand \in Strands \cup {None}
  PROVE  Wait(step, case, query, strand) # None
<1>1. Wait(step, case, query, strand)
        \in [step : Step, case : Cases, query : Query, strand : Strands \cup {None}]
  BY DEF Wait
<1> QED
  BY <1>1, NoneAssumption

LEMMA StrandIsCall ==
  ASSUME NEW case \in Cases, NEW at \in Place, NEW answer \in Status \cup {None}
  PROVE  Strand(case, at, answer) # None
<1>1. Strand(case, at, answer) \in [case : Cases, at : Place, answer : Status \cup {None}]
  BY DEF Strand
<1> QED
  BY <1>1, NoneAssumption

-----------------------------------------------------------------------------
(***************************************************************************)
(* Every step keeps the invariant.                                         *)
(***************************************************************************)

LEMMA PollKeeps ==
  ASSUME IInv, NEW s \in Strands, Poll(s)
  PROVE  IInv'
<1> USE NoneAssumption DEF IInv, Step, Query, Status, Place, Poll, Ask, Cleared,
        shown, polls, Busy, At, Is, Wait, Strand
<1>1. TypeOK'
  BY DEF TypeOK, MaybeCase, Types, ShownIsOneCase, OneCase, PageIsOfCase, WorkIsOfCase
<1>2. Types'
  BY DEF TypeOK, MaybeCase, Types
<1>3. WorkIsOfCase'
  BY DEF WorkIsOfCase, TypeOK, Types
<1>4. PageIsOfCase'
  BY DEF PageIsOfCase, WorkIsOfCase, TypeOK, Types
<1>5. JobsAreUnderWay'
  BY DEF JobsAreUnderWay, WorkIsOfCase, TypeOK, Types
<1>6. ShownIsOneCase'
  BY DEF ShownIsOneCase, OneCase, PageIsOfCase, JobsAreUnderWay, WorkIsOfCase, TypeOK, Types
<1> QED
  BY <1>1, <1>2, <1>3, <1>4, <1>5, <1>6

LEMMA AnswerKeeps ==
  ASSUME IInv, NEW s \in Strands, Answer(s)
  PROVE  IInv'
<1> USE NoneAssumption DEF IInv, Step, Query, Status, Place, Answer,
        shown, polls, Busy, At, Is, Wait, Strand
<1>1. TypeOK'
  BY DEF TypeOK, MaybeCase, Types
<1>2. Types'
  BY DEF TypeOK, MaybeCase, Types
<1>3. WorkIsOfCase' /\ PageIsOfCase' /\ ShownIsOneCase'
  BY DEF WorkIsOfCase, PageIsOfCase, ShownIsOneCase, OneCase
<1>4. strands'[s] = [case |-> strands[s].case, at |-> "answered", answer |-> job[strands[s].case]]
  BY DEF Types
<1>5. strands'[s] # None
  <2>1. /\ strands[s].case \in Cases /\ job[strands[s].case] \in Status
        /\ strands'[s] = Strand(strands[s].case, "answered", job[strands[s].case])
    BY <1>4 DEF Types, TypeOK
  <2> QED
    BY <2>1, StrandIsCall
<1>6. \A t \in Strands \ {s} : strands'[t] = strands[t]
  BY DEF Types
<1>7. JobsAreUnderWay'
  BY <1>4, <1>5, <1>6 DEF JobsAreUnderWay, Types
<1> QED
  BY <1>1, <1>2, <1>3, <1>7

LEMMA ReceiveKeeps ==
  ASSUME IInv, NEW s \in Strands, Receive(s)
  PROVE  IInv'
<1>1. /\ strands[s] # None /\ strands[s].at = "answered" /\ strands[s].case \in Cases
      /\ UNCHANGED <<job, current, page, view, search, pageTimer, cancels, broken>>
  BY DEF Receive, Is, IInv, TypeOK
<1>2. /\ strands' = [t \in Strands |-> strands'[t]]
      /\ \A t \in Strands \ {s} : strands'[t] = strands[t]
      /\ strands'[s] \in {None, Strand(strands[s].case, "waiting", None)}
  BY DEF Receive, IInv, Types
<1>3. strands'[s] # None => strands'[s].case = strands[s].case /\ strands'[s].at = "waiting"
  BY <1>2 DEF Strand
<1>4. IF current # strands[s].case THEN jobs' = jobs ELSE jobs'.case = current
  BY DEF Receive
<1>5. CASE At("jobs") /\ work.strand = s
  <2>1. work' = Wait("list", work.case, "", None) /\ root' = None /\ analysis' = None
        /\ title' = work.case
    BY <1>5 DEF Receive, Resume, Returns, At
  <2>2. work.case = current /\ current \in Cases /\ work' # None
    BY <1>5, <2>1, WaitIsWork
    DEF IInv, Types, WorkIsOfCase, At, Busy, Step, Query
  <2>3. work'.step = "list" /\ work'.case = current /\ work'.query = "" /\ work'.strand = None
    BY <2>1, <2>2 DEF Wait
  <2>4. jobs'.case = current
    BY <1>4, <1>5 DEF IInv, JobsAreUnderWay
  <2>5. TypeOK'
    BY <1>1, <1>2, <1>3, <2>1, <2>2, NoneAssumption DEF IInv, TypeOK, MaybeCase, Place
  <2>6. Types'
    BY <1>1, <1>2, <2>2, <2>3 DEF IInv, Types, Query, Step
  <2>7. WorkIsOfCase' /\ PageIsOfCase' /\ JobsAreUnderWay' /\ ShownIsOneCase'
    BY <1>1, <2>1, <2>2, <2>3, <2>4
    DEF IInv, WorkIsOfCase, PageIsOfCase, JobsAreUnderWay, ShownIsOneCase, OneCase, At, Busy
  <2> QED
    BY <2>5, <2>6, <2>7 DEF IInv
<1>6. CASE ~(At("jobs") /\ work.strand = s)
  <2>1. /\ UNCHANGED <<title, root, analysis>>
        /\ work' = work \/ (work' = None /\ ~At("page") /\ ~At("jobs"))
    BY <1>6 DEF Receive, Resume, Returns, At
  <2>2. TypeOK'
    BY <1>1, <1>2, <1>3, <1>4, <2>1, NoneAssumption DEF IInv, TypeOK, MaybeCase, Place
  <2>3. Types'
    BY <1>1, <1>2, <2>1 DEF IInv, Types
  <2>4. WorkIsOfCase' /\ PageIsOfCase'
    BY <1>1, <2>1 DEF IInv, WorkIsOfCase, PageIsOfCase, Busy
  <2>5. JobsAreUnderWay'
    BY <1>1, <1>2, <1>6, <2>1 DEF IInv, JobsAreUnderWay, Types, At, Busy
  <2>6. ShownIsOneCase'
    BY <1>1, <1>4, <2>1 DEF IInv, ShownIsOneCase, OneCase, At, Busy
  <2> QED
    BY <2>2, <2>3, <2>4, <2>5, <2>6 DEF IInv
<1> QED
  BY <1>5, <1>6

LEMMA AskFailsKeeps ==
  ASSUME IInv, NEW s \in Strands, AskFails(s)
  PROVE  IInv'
<1> USE NoneAssumption DEF IInv, Step, Query, Status, Place, AskFails, Returns,
        shown, polls, Busy, At, Is, Wait, Strand
<1>1. TypeOK'
  BY DEF TypeOK, MaybeCase, Types, ShownIsOneCase, OneCase, PageIsOfCase, WorkIsOfCase
<1>2. Types'
  BY DEF TypeOK, MaybeCase, Types
<1>3. WorkIsOfCase'
  BY DEF WorkIsOfCase, TypeOK, Types
<1>4. PageIsOfCase'
  BY DEF PageIsOfCase, WorkIsOfCase, TypeOK, Types
<1>5. JobsAreUnderWay'
  BY DEF JobsAreUnderWay, WorkIsOfCase, TypeOK, Types
<1>6. ShownIsOneCase'
  BY ZenonT(60)
  DEF ShownIsOneCase, OneCase, PageIsOfCase, JobsAreUnderWay, WorkIsOfCase, TypeOK, Types
<1> QED
  BY <1>1, <1>2, <1>3, <1>4, <1>5, <1>6

LEMMA OpenCaseKeeps ==
  ASSUME IInv, NEW c \in Cases, OpenCase(c)
  PROVE  IInv'
<1> USE NoneAssumption DEF IInv, Step, Query, Status, Place, OpenCase,
        shown, polls, Busy, At, Is, Wait, Strand
<1>1. TypeOK'
  BY DEF TypeOK, MaybeCase, Types, ShownIsOneCase, OneCase, PageIsOfCase, WorkIsOfCase
<1>2. Types'
  BY DEF TypeOK, MaybeCase, Types
<1>3. WorkIsOfCase'
  BY DEF WorkIsOfCase, TypeOK, Types
<1>4. PageIsOfCase'
  BY DEF PageIsOfCase, WorkIsOfCase, TypeOK, Types
<1>5. JobsAreUnderWay'
  BY DEF JobsAreUnderWay, WorkIsOfCase, TypeOK, Types
<1>6. ShownIsOneCase'
  BY DEF ShownIsOneCase, OneCase, PageIsOfCase, JobsAreUnderWay, WorkIsOfCase, TypeOK, Types
<1> QED
  BY <1>1, <1>2, <1>3, <1>4, <1>5, <1>6

LEMMA GotCaseKeeps ==
  ASSUME IInv, GotCase
  PROVE  IInv'
<1>1. /\ work # None /\ work.step = "case"
      /\ current' = work.case /\ page' = None /\ search' = ""
      /\ work' = Wait("page", work.case, "", None)
      /\ UNCHANGED <<job, title, root, analysis, jobs, view, pageTimer, strands, cancels, broken>>
  BY DEF GotCase, At, Busy, polls
<1>2. /\ work.case \in Cases
      /\ work' # None
  BY <1>1, WaitIsWork DEF Types, IInv, Step, Query
<1>3. work'.step = "page" /\ work'.case = current' /\ work'.query = "" /\ work'.strand = None
  BY <1>1 DEF Wait
<1>4. TypeOK'
  BY <1>1, <1>2, NoneAssumption DEF IInv, TypeOK, MaybeCase, Query
<1>5. Types'
  BY <1>1, <1>2, <1>3, NoneAssumption DEF IInv, Types, TypeOK, Query, Step
<1>6. WorkIsOfCase' /\ PageIsOfCase' /\ JobsAreUnderWay' /\ ShownIsOneCase'
  BY <1>1, <1>2, <1>3
  DEF IInv, WorkIsOfCase, PageIsOfCase, JobsAreUnderWay, ShownIsOneCase, At, Busy
<1> QED
  BY <1>4, <1>5, <1>6 DEF IInv

LEMMA GotPageKeeps ==
  ASSUME IInv, NEW s \in Strands, GotPage(s)
  PROVE  IInv'
<1>1. /\ work # None /\ work.step = "page" /\ strands[s] = None
      /\ page' = [case |-> work.case, query |-> work.query]
      /\ work' = Wait("jobs", work.case, "", s)
      /\ strands' = [Cleared EXCEPT ![s] = Strand(work.case, "asking", None)]
      /\ UNCHANGED <<job, current, title, root, analysis, view, search, jobs, pageTimer,
                     cancels, broken>>
  BY DEF GotPage, At, Busy, Ask
<1>2. /\ work.case = current /\ current \in Cases
      /\ work' # None
  BY <1>1, WaitIsWork DEF Types, IInv, Step, Query, WorkIsOfCase, Busy
<1>3. work'.step = "jobs" /\ work'.case = current /\ work'.query = "" /\ work'.strand = s
  BY <1>1, <1>2 DEF Wait
<1>4. /\ strands' = [t \in Strands |-> strands'[t]]
      /\ strands'[s] = Strand(current, "asking", None)
      /\ strands'[s] # None
      /\ \A t \in Strands \ {s} : strands'[t] \in {strands[t], None}
  BY <1>1, <1>2, StrandIsCall DEF Cleared, Place
<1>5. strands'[s].case = current /\ strands'[s].at = "asking"
  BY <1>4 DEF Strand
<1>6. page'.case = current'
  BY <1>1, <1>2
<1>7. TypeOK'
  BY <1>1, <1>2, <1>4, <1>5, NoneAssumption DEF IInv, TypeOK, MaybeCase, Query, Place
<1>8. Types'
  BY <1>1, <1>2, <1>3, <1>4 DEF IInv, Types, Query, Step
<1>9. WorkIsOfCase' /\ PageIsOfCase' /\ JobsAreUnderWay' /\ ShownIsOneCase'
  BY <1>1, <1>2, <1>3, <1>4, <1>5, <1>6
  DEF IInv, WorkIsOfCase, PageIsOfCase, JobsAreUnderWay, ShownIsOneCase, At, Busy
<1> QED
  BY <1>7, <1>8, <1>9 DEF IInv

LEMMA GotListKeeps ==
  ASSUME IInv, GotList
  PROVE  IInv'
<1> USE NoneAssumption DEF IInv, Step, Query, Status, Place, GotList,
        shown, polls, Busy, At, Is, Wait, Strand
<1>1. TypeOK'
  BY DEF TypeOK, MaybeCase, Types, ShownIsOneCase, OneCase, PageIsOfCase, WorkIsOfCase
<1>2. Types'
  BY DEF TypeOK, MaybeCase, Types
<1>3. WorkIsOfCase'
  BY DEF WorkIsOfCase, TypeOK, Types
<1>4. PageIsOfCase'
  BY DEF PageIsOfCase, WorkIsOfCase, TypeOK, Types
<1>5. JobsAreUnderWay'
  BY DEF JobsAreUnderWay, WorkIsOfCase, TypeOK, Types
<1>6. ShownIsOneCase'
  BY DEF ShownIsOneCase, OneCase, PageIsOfCase, JobsAreUnderWay, WorkIsOfCase, TypeOK, Types
<1> QED
  BY <1>1, <1>2, <1>3, <1>4, <1>5, <1>6

LEMMA OpenFailsKeeps ==
  ASSUME IInv, OpenFails
  PROVE  IInv'
<1> USE NoneAssumption DEF IInv, Step, Query, Status, Place, OpenFails,
        shown, polls, Busy, At, Is, Wait, Strand
<1>1. TypeOK'
  BY DEF TypeOK, MaybeCase, Types, ShownIsOneCase, OneCase, PageIsOfCase, WorkIsOfCase
<1>2. Types'
  BY DEF TypeOK, MaybeCase, Types
<1>3. WorkIsOfCase'
  BY DEF WorkIsOfCase, TypeOK, Types
<1>4. PageIsOfCase'
  BY DEF PageIsOfCase, WorkIsOfCase, TypeOK, Types
<1>5. JobsAreUnderWay'
  BY DEF JobsAreUnderWay, WorkIsOfCase, TypeOK, Types
<1>6. ShownIsOneCase'
  BY DEF ShownIsOneCase, OneCase, PageIsOfCase, JobsAreUnderWay, WorkIsOfCase, TypeOK, Types
<1> QED
  BY <1>1, <1>2, <1>3, <1>4, <1>5, <1>6

LEMMA NavigateKeeps ==
  ASSUME IInv, NEW route \in {"case", "table"}, Navigate(route)
  PROVE  IInv'
<1> USE NoneAssumption DEF IInv, Step, Query, Status, Place, Navigate, Load,
        shown, polls, Busy, At, Is, Wait, Strand
<1>1. TypeOK'
  BY DEF TypeOK, MaybeCase, Types
<1>2. CASE route = "table"
  <2>1. current \in Cases
    BY DEF TypeOK, MaybeCase
  <2>2. /\ work' = [step |-> "load", case |-> current, query |-> "", strand |-> None]
        /\ work' # None
    BY <1>2, <2>1, WaitIsWork
  <2>3. Types'
    BY <2>1, <2>2 DEF Types
  <2>4. WorkIsOfCase' /\ PageIsOfCase' /\ JobsAreUnderWay' /\ ShownIsOneCase'
    BY <2>2 DEF WorkIsOfCase, PageIsOfCase, JobsAreUnderWay, ShownIsOneCase, OneCase
  <2> QED
    BY <1>1, <2>3, <2>4
<1>3. CASE route # "table"
  <2>1. UNCHANGED <<work, pageTimer>>
    BY <1>3
  <2>2. Types'
    BY <2>1 DEF Types
  <2>3. WorkIsOfCase' /\ PageIsOfCase' /\ JobsAreUnderWay' /\ ShownIsOneCase'
    BY <2>1 DEF WorkIsOfCase, PageIsOfCase, JobsAreUnderWay, ShownIsOneCase, OneCase
  <2> QED
    BY <1>1, <2>2, <2>3
<1> QED
  BY <1>2, <1>3

LEMMA TypeKeeps ==
  ASSUME IInv, NEW text \in Query, Type(text)
  PROVE  IInv'
<1> USE NoneAssumption DEF IInv, Step, Query, Status, Place, Type,
        shown, polls, Busy, At, Is, Wait, Strand
<1>1. TypeOK'
  BY DEF TypeOK, MaybeCase, Types, ShownIsOneCase, OneCase, PageIsOfCase, WorkIsOfCase
<1>2. Types'
  BY DEF TypeOK, MaybeCase, Types
<1>3. WorkIsOfCase'
  BY DEF WorkIsOfCase, TypeOK, Types
<1>4. PageIsOfCase'
  BY DEF PageIsOfCase, WorkIsOfCase, TypeOK, Types
<1>5. JobsAreUnderWay'
  BY DEF JobsAreUnderWay, WorkIsOfCase, TypeOK, Types
<1>6. ShownIsOneCase'
  BY DEF ShownIsOneCase, OneCase, PageIsOfCase, JobsAreUnderWay, WorkIsOfCase, TypeOK, Types
<1> QED
  BY <1>1, <1>2, <1>3, <1>4, <1>5, <1>6

LEMMA PageTimerKeeps ==
  ASSUME IInv, PageTimer
  PROVE  IInv'
<1> USE NoneAssumption DEF IInv, Step, Query, Status, Place, PageTimer, Load,
        shown, polls, Busy, At, Is, Wait, Strand
<1>1. TypeOK'
  BY DEF TypeOK, MaybeCase, Types
<1>2. CASE view = "table"
  <2>1. current \in Cases /\ search \in Query
    BY <1>2 DEF TypeOK, MaybeCase, Types
  <2>2. /\ work' = [step |-> "load", case |-> current, query |-> search, strand |-> None]
        /\ work' # None
    BY <1>2, <2>1, WaitIsWork
  <2>3. Types'
    BY <2>1, <2>2 DEF Types
  <2>4. WorkIsOfCase' /\ PageIsOfCase' /\ JobsAreUnderWay' /\ ShownIsOneCase'
    BY <2>2 DEF WorkIsOfCase, PageIsOfCase, JobsAreUnderWay, ShownIsOneCase, OneCase
  <2> QED
    BY <1>1, <2>3, <2>4
<1>3. CASE view # "table"
  <2>1. UNCHANGED work
    BY <1>3
  <2>2. Types'
    BY <2>1 DEF Types
  <2>3. WorkIsOfCase' /\ PageIsOfCase' /\ JobsAreUnderWay' /\ ShownIsOneCase'
    BY <2>1 DEF WorkIsOfCase, PageIsOfCase, JobsAreUnderWay, ShownIsOneCase, OneCase
  <2> QED
    BY <1>1, <2>2, <2>3
<1> QED
  BY <1>2, <1>3

LEMMA LoadedKeeps ==
  ASSUME IInv, Loaded
  PROVE  IInv'
<1> USE NoneAssumption DEF IInv, Step, Query, Status, Place, Loaded,
        shown, polls, Busy, At, Is, Wait, Strand
<1>1. TypeOK'
  BY ZenonT(60) DEF TypeOK, MaybeCase, Types, ShownIsOneCase, OneCase, PageIsOfCase, WorkIsOfCase
<1>2. Types'
  BY DEF TypeOK, MaybeCase, Types
<1>3. WorkIsOfCase'
  BY DEF WorkIsOfCase, TypeOK, Types
<1>4. PageIsOfCase'
  BY DEF PageIsOfCase, WorkIsOfCase, TypeOK, Types
<1>5. JobsAreUnderWay'
  BY DEF JobsAreUnderWay, WorkIsOfCase, TypeOK, Types
<1>6. ShownIsOneCase'
  BY DEF ShownIsOneCase, OneCase, PageIsOfCase, JobsAreUnderWay, WorkIsOfCase, TypeOK, Types
<1> QED
  BY <1>1, <1>2, <1>3, <1>4, <1>5, <1>6

LEMMA SelectRootKeeps ==
  ASSUME IInv, SelectRoot
  PROVE  IInv'
<1> USE NoneAssumption DEF IInv, Step, Query, Status, Place, SelectRoot,
        shown, polls, Busy, At, Is, Wait, Strand
<1>1. /\ root' = current /\ analysis' \in {analysis, None}
      /\ root = current => analysis' = analysis
      /\ root # current => analysis' = None
      /\ current \in Cases
  BY DEF TypeOK, MaybeCase, Types, PageIsOfCase
<1>2. TypeOK'
  BY <1>1 DEF TypeOK, MaybeCase, Types
<1>3. Types'
  BY DEF Types
<1>4. WorkIsOfCase' /\ PageIsOfCase' /\ JobsAreUnderWay'
  BY DEF WorkIsOfCase, PageIsOfCase, JobsAreUnderWay
<1>5. ShownIsOneCase'
  BY <1>1 DEF ShownIsOneCase, OneCase
<1> QED
  BY <1>2, <1>3, <1>4, <1>5

LEMMA AnalyzeKeeps ==
  ASSUME IInv, Analyze
  PROVE  IInv'
<1> USE NoneAssumption DEF IInv, Step, Query, Status, Place, Analyze,
        shown, polls, Busy, At, Is, Wait, Strand
<1>1. TypeOK'
  BY ZenonT(60) DEF TypeOK, MaybeCase, Types, ShownIsOneCase, OneCase, PageIsOfCase, WorkIsOfCase
<1>2. Types'
  BY DEF TypeOK, MaybeCase, Types
<1>3. WorkIsOfCase'
  BY DEF WorkIsOfCase, TypeOK, Types
<1>4. PageIsOfCase'
  BY DEF PageIsOfCase, WorkIsOfCase, TypeOK, Types
<1>5. JobsAreUnderWay'
  BY DEF JobsAreUnderWay, WorkIsOfCase, TypeOK, Types
<1>6. ShownIsOneCase'
  BY DEF ShownIsOneCase, OneCase, PageIsOfCase, JobsAreUnderWay, WorkIsOfCase, TypeOK, Types
<1> QED
  BY <1>1, <1>2, <1>3, <1>4, <1>5, <1>6

LEMMA AnalyzedKeeps ==
  ASSUME IInv, Analyzed
  PROVE  IInv'
<1> USE NoneAssumption DEF IInv, Step, Query, Status, Place, Analyzed,
        shown, polls, Busy, At, Is, Wait, Strand
<1>1. TypeOK'
  BY ZenonT(60) DEF TypeOK, MaybeCase, Types, ShownIsOneCase, OneCase, PageIsOfCase, WorkIsOfCase
<1>2. Types'
  BY DEF TypeOK, MaybeCase, Types
<1>3. WorkIsOfCase'
  BY DEF WorkIsOfCase, TypeOK, Types
<1>4. PageIsOfCase'
  BY DEF PageIsOfCase, WorkIsOfCase, TypeOK, Types
<1>5. JobsAreUnderWay'
  BY DEF JobsAreUnderWay, WorkIsOfCase, TypeOK, Types
<1>6. ShownIsOneCase'
  BY DEF ShownIsOneCase, OneCase, PageIsOfCase, JobsAreUnderWay, WorkIsOfCase, TypeOK, Types
<1> QED
  BY <1>1, <1>2, <1>3, <1>4, <1>5, <1>6

LEMMA RequestFailsKeeps ==
  ASSUME IInv, RequestFails
  PROVE  IInv'
<1> USE NoneAssumption DEF IInv, Step, Query, Status, Place, RequestFails,
        shown, polls, Busy, At, Is, Wait, Strand
<1>1. TypeOK'
  BY DEF TypeOK, MaybeCase, Types, ShownIsOneCase, OneCase, PageIsOfCase, WorkIsOfCase
<1>2. Types'
  BY DEF TypeOK, MaybeCase, Types
<1>3. WorkIsOfCase'
  BY DEF WorkIsOfCase, TypeOK, Types
<1>4. PageIsOfCase'
  BY DEF PageIsOfCase, WorkIsOfCase, TypeOK, Types
<1>5. JobsAreUnderWay'
  BY DEF JobsAreUnderWay, WorkIsOfCase, TypeOK, Types
<1>6. ShownIsOneCase'
  BY DEF ShownIsOneCase, OneCase, PageIsOfCase, JobsAreUnderWay, WorkIsOfCase, TypeOK, Types
<1> QED
  BY <1>1, <1>2, <1>3, <1>4, <1>5, <1>6

LEMMA FinishKeeps ==
  ASSUME IInv, NEW c \in Cases, Finish(c)
  PROVE  IInv'
<1> USE NoneAssumption DEF IInv, Step, Query, Status, Place, Finish,
        shown, polls, Busy, At, Is, Wait, Strand
<1>1. TypeOK'
  BY DEF TypeOK, MaybeCase, Types, ShownIsOneCase, OneCase, PageIsOfCase, WorkIsOfCase
<1>2. Types'
  BY DEF TypeOK, MaybeCase, Types
<1>3. WorkIsOfCase'
  BY DEF WorkIsOfCase, TypeOK, Types
<1>4. PageIsOfCase'
  BY DEF PageIsOfCase, WorkIsOfCase, TypeOK, Types
<1>5. JobsAreUnderWay'
  BY DEF JobsAreUnderWay, WorkIsOfCase, TypeOK, Types
<1>6. ShownIsOneCase'
  BY DEF ShownIsOneCase, OneCase, PageIsOfCase, JobsAreUnderWay, WorkIsOfCase, TypeOK, Types
<1> QED
  BY <1>1, <1>2, <1>3, <1>4, <1>5, <1>6

LEMMA StartJobKeeps ==
  ASSUME IInv, StartJob
  PROVE  IInv'
<1> USE NoneAssumption DEF IInv, Step, Query, Status, Place, StartJob,
        shown, polls, Busy, At, Is, Wait, Strand
<1>1. TypeOK'
  BY DEF TypeOK, MaybeCase, Types, ShownIsOneCase, OneCase, PageIsOfCase, WorkIsOfCase
<1>2. Types'
  BY DEF TypeOK, MaybeCase, Types
<1>3. WorkIsOfCase'
  BY DEF WorkIsOfCase, TypeOK, Types
<1>4. PageIsOfCase'
  BY DEF PageIsOfCase, WorkIsOfCase, TypeOK, Types
<1>5. JobsAreUnderWay'
  BY DEF JobsAreUnderWay, WorkIsOfCase, TypeOK, Types
<1>6. ShownIsOneCase'
  BY DEF ShownIsOneCase, OneCase, PageIsOfCase, JobsAreUnderWay, WorkIsOfCase, TypeOK, Types
<1> QED
  BY <1>1, <1>2, <1>3, <1>4, <1>5, <1>6

LEMMA JobStartedKeeps ==
  ASSUME IInv, NEW s \in Strands, JobStarted(s)
  PROVE  IInv'
<1> USE NoneAssumption DEF IInv, Step, Query, Status, Place, JobStarted, Ask, Cleared,
        shown, polls, Busy, At, Is, Wait, Strand
<1>1. TypeOK'
  BY DEF TypeOK, MaybeCase, Types, ShownIsOneCase, OneCase, PageIsOfCase, WorkIsOfCase
<1>2. Types'
  BY DEF TypeOK, MaybeCase, Types
<1>3. WorkIsOfCase'
  BY DEF WorkIsOfCase, TypeOK, Types
<1>4. PageIsOfCase'
  BY DEF PageIsOfCase, WorkIsOfCase, TypeOK, Types
<1>5. JobsAreUnderWay'
  BY DEF JobsAreUnderWay, WorkIsOfCase, TypeOK, Types
<1>6. ShownIsOneCase'
  BY DEF ShownIsOneCase, OneCase, PageIsOfCase, JobsAreUnderWay, WorkIsOfCase, TypeOK, Types
<1> QED
  BY <1>1, <1>2, <1>3, <1>4, <1>5, <1>6

LEMMA CancelKeeps ==
  ASSUME IInv, NEW c \in Cases, Cancel(c)
  PROVE  IInv'
<1> USE NoneAssumption DEF IInv, Step, Query, Status, Place, Cancel,
        shown, polls, Busy, At, Is, Wait, Strand
<1>1. TypeOK'
  BY DEF TypeOK, MaybeCase, Types, ShownIsOneCase, OneCase, PageIsOfCase, WorkIsOfCase
<1>2. Types'
  BY DEF TypeOK, MaybeCase, Types
<1>3. WorkIsOfCase'
  BY DEF WorkIsOfCase, TypeOK, Types
<1>4. PageIsOfCase'
  BY DEF PageIsOfCase, WorkIsOfCase, TypeOK, Types
<1>5. JobsAreUnderWay'
  BY DEF JobsAreUnderWay, WorkIsOfCase, TypeOK, Types
<1>6. ShownIsOneCase'
  BY DEF ShownIsOneCase, OneCase, PageIsOfCase, JobsAreUnderWay, WorkIsOfCase, TypeOK, Types
<1> QED
  BY <1>1, <1>2, <1>3, <1>4, <1>5, <1>6

LEMMA CancelReachesKeeps ==
  ASSUME IInv, NEW c \in Cases, CancelReaches(c)
  PROVE  IInv'
<1> USE NoneAssumption DEF IInv, Step, Query, Status, Place, CancelReaches,
        shown, polls, Busy, At, Is, Wait, Strand
<1>1. TypeOK'
  BY DEF TypeOK, MaybeCase, Types, ShownIsOneCase, OneCase, PageIsOfCase, WorkIsOfCase
<1>2. Types'
  BY DEF TypeOK, MaybeCase, Types
<1>3. WorkIsOfCase'
  BY DEF WorkIsOfCase, TypeOK, Types
<1>4. PageIsOfCase'
  BY DEF PageIsOfCase, WorkIsOfCase, TypeOK, Types
<1>5. JobsAreUnderWay'
  BY DEF JobsAreUnderWay, WorkIsOfCase, TypeOK, Types
<1>6. ShownIsOneCase'
  BY DEF ShownIsOneCase, OneCase, PageIsOfCase, JobsAreUnderWay, WorkIsOfCase, TypeOK, Types
<1> QED
  BY <1>1, <1>2, <1>3, <1>4, <1>5, <1>6

LEMMA CancelAnsweredKeeps ==
  ASSUME IInv, NEW c \in Cases, NEW s \in Strands, CancelAnswered(c, s)
  PROVE  IInv'
<1> USE NoneAssumption DEF IInv, Step, Query, Status, Place, CancelAnswered, Ask, Cleared,
        shown, polls, Busy, At, Is, Wait, Strand
<1>1. TypeOK'
  BY DEF TypeOK, MaybeCase, Types, ShownIsOneCase, OneCase, PageIsOfCase, WorkIsOfCase
<1>2. Types'
  BY DEF TypeOK, MaybeCase, Types
<1>3. WorkIsOfCase'
  BY DEF WorkIsOfCase, TypeOK, Types
<1>4. PageIsOfCase'
  BY DEF PageIsOfCase, WorkIsOfCase, TypeOK, Types
<1>5. JobsAreUnderWay'
  BY DEF JobsAreUnderWay, WorkIsOfCase, TypeOK, Types
<1>6. ShownIsOneCase'
  BY DEF ShownIsOneCase, OneCase, PageIsOfCase, JobsAreUnderWay, WorkIsOfCase, TypeOK, Types
<1> QED
  BY <1>1, <1>2, <1>3, <1>4, <1>5, <1>6

LEMMA CancelFailsKeeps ==
  ASSUME IInv, NEW c \in Cases, CancelFails(c)
  PROVE  IInv'
<1> USE NoneAssumption DEF IInv, Step, Query, Status, Place, CancelFails,
        shown, polls, Busy, At, Is, Wait, Strand
<1>1. TypeOK'
  BY DEF TypeOK, MaybeCase, Types, ShownIsOneCase, OneCase, PageIsOfCase, WorkIsOfCase
<1>2. Types'
  BY DEF TypeOK, MaybeCase, Types
<1>3. WorkIsOfCase'
  BY DEF WorkIsOfCase, TypeOK, Types
<1>4. PageIsOfCase'
  BY DEF PageIsOfCase, WorkIsOfCase, TypeOK, Types
<1>5. JobsAreUnderWay'
  BY DEF JobsAreUnderWay, WorkIsOfCase, TypeOK, Types
<1>6. ShownIsOneCase'
  BY DEF ShownIsOneCase, OneCase, PageIsOfCase, JobsAreUnderWay, WorkIsOfCase, TypeOK, Types
<1> QED
  BY <1>1, <1>2, <1>3, <1>4, <1>5, <1>6

-----------------------------------------------------------------------------
(***************************************************************************)
(* The inductive invariant.                                                *)
(***************************************************************************)

LEMMA InitHolds == Init => IInv
BY NoneAssumption
DEF Init, IInv, TypeOK, MaybeCase, Types, WorkIsOfCase, PageIsOfCase, JobsAreUnderWay,
    ShownIsOneCase, OneCase, At, Busy, Status, Query

LEMMA StutterKeeps ==
  ASSUME IInv, UNCHANGED vars
  PROVE  IInv'
BY DEF vars, IInv, TypeOK, Types, WorkIsOfCase, PageIsOfCase, JobsAreUnderWay,
       ShownIsOneCase, OneCase, At, Busy

LEMMA StepHolds == IInv /\ [Next]_vars => IInv'
<1> SUFFICES ASSUME IInv, [Next]_vars PROVE IInv'
  OBVIOUS
<1>1. CASE UNCHANGED vars
  BY <1>1, StutterKeeps
<1>2. CASE User
  BY <1>2, OpenCaseKeeps, CancelKeeps, NavigateKeeps, TypeKeeps, SelectRootKeeps,
     AnalyzeKeeps, StartJobKeeps
  DEF User
<1>3. CASE Failures
  BY <1>3, AskFailsKeeps, CancelFailsKeeps, OpenFailsKeeps, RequestFailsKeeps DEF Failures
<1>4. CASE WorkSteps
  BY <1>4, GotCaseKeeps, GotListKeeps, LoadedKeeps, AnalyzedKeeps, GotPageKeeps,
     JobStartedKeeps
  DEF WorkSteps
<1>5. CASE PageTimer
  BY <1>5, PageTimerKeeps
<1>6. CASE \E s \in Strands : StrandSteps(s)
  BY <1>6, PollKeeps, AnswerKeeps, ReceiveKeeps DEF StrandSteps
<1>7. CASE \E c \in Cases : JobSteps(c)
  BY <1>7, FinishKeeps, CancelReachesKeeps, CancelAnsweredKeeps DEF JobSteps
<1> QED
  BY <1>1, <1>2, <1>3, <1>4, <1>5, <1>6, <1>7 DEF Next

\* Between two actions everything the window shows is of the open case, however
\* late the polls of another case are answered (openCase, refreshMemoryJobs).
THEOREM WindowStaysConsistent == Spec => []WindowIsConsistent
<1>1. IInv => WindowIsConsistent
  BY DEF IInv, WindowIsConsistent, IdleIsOneCase, ShownIsOneCase, OneCase, PageIsOfCase,
         At, Busy
<1> QED
  BY <1>1, InitHolds, StepHolds, PTL DEF Spec
=============================================================================
