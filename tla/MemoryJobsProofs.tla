-------------------------- MODULE MemoryJobsProofs --------------------------
(***************************************************************************)
(* Proofs about MemoryJobs for every number of jobs and plugins, every     *)
(* request, and any number of failed saves and writes to the image.        *)
(***************************************************************************)
EXTENDS MemoryJobs, SequenceTheorems, TLAPS

-----------------------------------------------------------------------------
(***************************************************************************)
(* The invariant, in parts.                                                *)
(***************************************************************************)

\* The jobs the executor has not begun.
Waiting == {queue[k] : k \in DOMAIN queue}

Rows(j) == {row \in stored : row.job = j}

\* A job is in the queue once, or in the worker, or neither, and only jobs
\* that were asked for are.  Nothing is known of a job before it is asked for.
Scheduled ==
  /\ \A k, l \in DOMAIN queue : queue[k] = queue[l] => k = l
  /\ Waiting \cap running = {}
  /\ \A i, j \in running : i = j
  /\ session = "down" => queue = <<>> /\ running = {}
  /\ \A j \in Job : asked[j] = NoRequest =>
       /\ j \notin Waiting \cup running
       /\ jobs[j] = NoJob /\ disk[j] = NoJob
       /\ Rows(j) = {}

\* The worker is at a place that its plugin runs agree with, and what it has
\* exported is there to be read.
Placed ==
  \A j \in running :
    /\ worker.at # "idle"
    /\ worker.at = "hash" => worker.runs = <<>>
    /\ worker.at \in {"plugin", "child", "keep"} =>
         Len(worker.runs) < Len(asked[j].plugins)
    /\ worker.at = "done" => Len(worker.runs) \in 1..Len(asked[j].plugins)
    /\ worker.at \in {"import", "publish"} =>
         Len(worker.runs) = Len(asked[j].plugins)
    /\ worker.at \notin {"publish", "fail"} => worker.published = 0
    /\ worker.published <= Len(worker.runs)
    /\ \A export \in worker.exports : output[export[2]][export[1]] # {}

\* A status that a report may give a job with these plugin states and rows.
Truthful(status, states, found) ==
  /\ status = "SUCCESS" <=> states = {"SUCCESS"}
  /\ status = "PARTIAL" => found # {}
  /\ status \in {"FAILED", "CANCELLED", "UNAVAILABLE"} => found = {}

StatesOf(sequence) == {sequence[k] : k \in DOMAIN sequence}

\* A job on its way has no outcome on disk, and one that has not come to the
\* except clause has none in the dictionary either.
OnTheWay(j) ==
  /\ disk[j].status \notin Terminal
  /\ disk[j].report = {}
  /\ Len(jobs[j].plugins) = Len(asked[j].plugins)

Undecided(j) == jobs[j].status \notin Terminal /\ jobs[j].report = {}

\* The job in the worker has stored nothing before its import, and what it will
\* report then is true of its plugin runs and its rows.
InHand(j) ==
  /\ OnTheWay(j)
  /\ worker.at # "fail" => Undecided(j)
  /\ worker.at \notin {"publish", "fail"} => Rows(j) = {}
  /\ worker.at = "fail" /\ faults = 0 => Rows(j) = {}
  /\ worker.at = "publish" =>
       /\ \A k \in 1..worker.published : jobs[j].plugins[k] = worker.runs[k]
       /\ \E status \in Status :
            /\ worker.outcome = {status}
            /\ Truthful(status, StatesOf(worker.runs), Rows(j))

Unfinished ==
  /\ \A j \in Waiting : OnTheWay(j) /\ Undecided(j) /\ Rows(j) = {}
  /\ \A j \in running : InHand(j)

\* What a record reports is true.
RecordTrue(record, j) ==
  /\ ReportMatchesPlugins(record)
  /\ \A status \in record.report :
       Truthful(status, StatesOf(record.plugins), Rows(j))

Recorded(j) ==
  /\ RecordTrue(jobs[j], j)
  /\ RecordTrue(disk[j], j)
  /\ disk[j].status \in {"FAILED", "UNAVAILABLE"} /\ faults = 0 => Rows(j) = {}

RecordsTrue == \A j \in Job : Recorded(j)

\* An earlier and a later content of the image, for a ranking of its contents
\* that every write to it raises.
Before(rank, x, y) == x = y \/ rank[x] < rank[y]

\* While the image keeps the time stamp it had when the job began, everything
\* the job has read is its content, and so is what it took from the cache.
ReadAsHashed(j) ==
  worker.before = image.mtime =>
    /\ worker.digest \cup worker.seen \subseteq {image.content}
    /\ \A export \in worker.exports : \A file \in output[export[2]][export[1]] :
         file = [from |-> worker.digest, made |-> worker.version]

\* Whatever was read later than the hash is of the same or a later content.
ReadInOrder(rank, j) ==
  /\ worker.before <= image.mtime
  /\ \A x \in worker.digest \cup worker.seen : Before(rank, x, image.content)
  /\ \A x \in worker.digest, y \in worker.seen : Before(rank, x, y)
  /\ worker.at \notin {"hash", "fail"} => worker.digest # {}
  /\ worker.at = "hash" => worker.digest = {} /\ worker.exports = {}

\* An output that is about to enter the cache.
KeptInOrder(rank, j) ==
  worker.at = "keep" =>
    \A file \in output[j][Current(j)] :
      /\ file.made = worker.version
      /\ file.from # {}
      /\ \A y \in file.from : Before(rank, y, image.content)
      /\ \A x \in worker.digest, y \in file.from : Before(rank, x, y)
      /\ worker.before = image.mtime => file.from = worker.digest

OwnExports(j) ==
  asked[j].rerun => \A export \in worker.exports : export[2] = j

\* The cache may hold an output of other content than the hash it is filed under,
\* but then the image has moved on and will not have that hash again.
CacheTraced(rank) ==
  \A c \in Content, p \in Plugin : \A entry \in manifest[{c}][p] :
    \/ entry.sum = [from |-> {c}, made |-> entry.fingerprint]
    \/ rank[c] < rank[image.content]

Traces(rank, j) ==
  /\ ReadAsHashed(j)
  /\ ReadInOrder(rank, j)
  /\ KeptInOrder(rank, j)
  /\ OwnExports(j)

Traced(rank) ==
  /\ \A j \in running : Traces(rank, j)
  /\ CacheTraced(rank)

-----------------------------------------------------------------------------
(***************************************************************************)
(* Type correctness.                                                       *)
(***************************************************************************)

WorkerState ==
  [at : {"idle", "hash", "plugin", "child", "keep", "done", "import", "publish", "fail"},
   before : Nat, seen : SUBSET Content, digest : SUBSET Content,
   version : Fingerprint \cup {None}, runs : Seq(RunStatus),
   exports : SUBSET (Plugin \X Job), outcome : SUBSET Status,
   published : Nat]

LEMMA IdleType == Idle \in WorkerState
BY EmptySeq DEF Idle, WorkerState

LEMMA NoJobType == NoJob \in JobRecord
BY EmptySeq DEF NoJob, JobRecord, JobStatus, Terminal, Status

\* A request that was made names a plugin; none at all names no plugin.
LEMMA RequestType ==
  /\ NoRequest \notin JobRequest
  /\ \A request \in JobRequest :
       /\ request.plugins \in Seq(Plugin)
       /\ Len(request.plugins) > 0
       /\ request.rerun \in BOOLEAN
BY JobsAssumption, EmptySeq DEF NoRequest

\* A job that is given a status, a report, or the state of a plugin.
LEMMA RecordType ==
  ASSUME NEW record \in JobRecord
  PROVE  /\ \A status \in JobStatus : [record EXCEPT !.status = status] \in JobRecord
         /\ \A status \in JobStatus, report \in SUBSET Status :
              [record EXCEPT !.status = status, !.report = report] \in JobRecord
         /\ \A k \in Nat, state \in PluginStatus :
              /\ [record EXCEPT !.plugins[k] = state] \in JobRecord
              /\ Len([record EXCEPT !.plugins[k] = state].plugins) = Len(record.plugins)
              /\ [record EXCEPT !.plugins[k] = state].status = record.status
              /\ [record EXCEPT !.plugins[k] = state].report = record.report
<1>1. ASSUME NEW k \in Nat, NEW state \in PluginStatus
      PROVE  /\ [record.plugins EXCEPT ![k] = state] \in Seq(PluginStatus)
             /\ Len([record.plugins EXCEPT ![k] = state]) = Len(record.plugins)
  <2>1. record.plugins \in Seq(PluginStatus)
    BY DEF JobRecord
  <2>2. CASE k \in 1..Len(record.plugins)
    BY <2>1, <2>2, ExceptSeq
  <2>3. CASE k \notin 1..Len(record.plugins)
    <3>1. [record.plugins EXCEPT ![k] = state] = record.plugins
      BY <2>1, <2>3
    <3> QED
      BY <2>1, <3>1
  <2> QED
    BY <2>2, <2>3
<1> QED
  BY <1>1 DEF JobRecord

\* Whether its manifest is saved or not, a job keeps its type.
LEMMA SaveType ==
  ASSUME TypeOK, NEW j \in Job, NEW record \in JobRecord,
         Saved(j, record) \/ Unsaved(j, record)
  PROVE  /\ jobs' \in [Job -> JobRecord]
         /\ disk' \in [Job -> JobRecord]
         /\ faults' \in Nat
<1>1. jobs \in [Job -> JobRecord] /\ disk \in [Job -> JobRecord] /\ faults \in Nat
  BY DEF TypeOK
<1> QED
  BY <1>1 DEF Saved, Unsaved

LEMMA UpdateType ==
  ASSUME TypeOK, NEW j \in Job, NEW record \in JobRecord, NEW next \in WorkerState,
         Update(j, record, next)
  PROVE  /\ jobs' \in [Job -> JobRecord]
         /\ disk' \in [Job -> JobRecord]
         /\ faults' \in Nat
         /\ worker' \in WorkerState
         /\ running' = running
BY SaveType DEF Update, Raised, TypeOK, WorkerState

LEMMA ReturnType ==
  ASSUME TypeOK, NEW j \in Job, NEW record \in JobRecord, Return(j, record)
  PROVE  /\ jobs' \in [Job -> JobRecord]
         /\ disk' \in [Job -> JobRecord]
         /\ faults' \in Nat
         /\ worker' \in WorkerState
         /\ running' \subseteq running
BY SaveType, IdleType DEF Return, Leave, Raised, TypeOK, WorkerState

\* The plugin whose turn it is.
LEMMA CurrentType ==
  ASSUME TypeOK, Placed, NEW j \in running,
         worker.at \in {"plugin", "child", "keep"}
  PROVE  /\ Turn \in 1..Len(asked[j].plugins)
         /\ Current(j) \in Plugin
<1>1. /\ worker.runs \in Seq(RunStatus)
      /\ asked[j] \in JobRequest \cup {NoRequest}
      /\ Len(worker.runs) < Len(asked[j].plugins)
  BY DEF TypeOK, Placed
<1>2. asked[j].plugins \in Seq(Plugin)
  BY <1>1, RequestType, EmptySeq DEF NoRequest
<1> QED
  BY <1>1, <1>2 DEF Turn, Current

\* Import, once it is known which exports cannot be read and which yield events.
Imported(j, unread, fruitful) ==
  LET verdicts == Verdicts(j, {export[1] : export \in unread})
      batch == [events |-> fruitful,
                states |-> {verdicts[k] : k \in DOMAIN verdicts}]
  IN  \/ /\ stored' = stored \cup UNION {Seen(j, export) : export \in fruitful}
         /\ Advance([worker EXCEPT !.at = "publish", !.runs = verdicts,
                                   !.outcome = {ImportStatus(batch)}])
      \/ /\ Advance([worker EXCEPT
                       !.at = "publish", !.outcome = {"FAILED"},
                       !.runs = [k \in DOMAIN verdicts |-> Refused(verdicts[k])]])
         /\ UNCHANGED stored

\* The states of the runs as the adapter, and as a refusal, leave them.
LEMMA VerdictsType ==
  ASSUME TypeOK, NEW j \in Job, NEW unread
  PROVE  LET verdicts == Verdicts(j, unread)
             refused == [k \in DOMAIN verdicts |-> Refused(verdicts[k])]
         IN  /\ verdicts \in Seq(RunStatus)
             /\ refused \in Seq(RunStatus)
             /\ Len(verdicts) = Len(worker.runs)
             /\ Len(refused) = Len(worker.runs)
             /\ DOMAIN verdicts = 1..Len(worker.runs)
             /\ DOMAIN refused = 1..Len(worker.runs)
<1> DEFINE verdicts == Verdicts(j, unread)
           refused == [k \in DOMAIN verdicts |-> Refused(verdicts[k])]
<1>1. /\ worker.runs \in Seq(RunStatus)
      /\ Len(worker.runs) \in Nat
  BY DEF TypeOK
<1>2. verdicts \in [1..Len(worker.runs) -> RunStatus]
  BY <1>1 DEF Verdicts, RunStatus
<1>3. refused \in [1..Len(worker.runs) -> RunStatus]
  BY <1>2 DEF Refused, RunStatus
<1> QED
  BY <1>1, <1>2, <1>3

\* What an import leaves: a status that is SUCCESS exactly if every run is, that
\* speaks of evidence only if some was stored, and of none only if none was.
LEMMA ImportedResult ==
  ASSUME TypeOK, NEW j \in Job, NEW unread, NEW fruitful, Imported(j, unread, fruitful)
  PROVE  /\ running' = running /\ UNCHANGED <<jobs, disk, faults>>
         /\ \E runs \in Seq(RunStatus), status \in Status :
              /\ worker' = [worker EXCEPT !.at = "publish", !.runs = runs,
                                          !.outcome = {status}]
              /\ Len(runs) = Len(worker.runs)
              /\ status = "SUCCESS" <=> StatesOf(runs) = {"SUCCESS"}
              /\ status = "PARTIAL" =>
                   /\ fruitful # {}
                   /\ stored' = stored \cup UNION {Seen(j, export) : export \in fruitful}
              /\ status \in {"FAILED", "CANCELLED", "UNAVAILABLE"} => stored' = stored
<1> DEFINE verdicts == Verdicts(j, {export[1] : export \in unread})
           refused == [k \in DOMAIN verdicts |-> Refused(verdicts[k])]
           batch == [events |-> fruitful, states |-> {verdicts[k] : k \in DOMAIN verdicts}]
<1>1. /\ verdicts \in Seq(RunStatus) /\ Len(verdicts) = Len(worker.runs)
      /\ refused \in Seq(RunStatus) /\ Len(refused) = Len(worker.runs)
  BY VerdictsType
<1>2. batch.states = StatesOf(verdicts)
  BY DEF StatesOf
<1>3. "SUCCESS" \notin StatesOf(refused)
  BY DEF StatesOf, Refused
<1>4. CASE /\ stored' = stored \cup UNION {Seen(j, export) : export \in fruitful}
           /\ Advance([worker EXCEPT !.at = "publish", !.runs = verdicts,
                                     !.outcome = {ImportStatus(batch)}])
  <2>1. /\ ImportStatus(batch) \in Status
        /\ ImportStatus(batch) = "SUCCESS" <=> batch.states = {"SUCCESS"}
        /\ ImportStatus(batch) = "PARTIAL" => fruitful # {}
        /\ ImportStatus(batch) \in {"FAILED", "CANCELLED", "UNAVAILABLE"} => fruitful = {}
    BY DEF ImportStatus, Status
  <2>2. fruitful = {} => stored' = stored
    BY <1>4
  <2> HIDE DEF verdicts, batch
  <2> QED
    BY <1>1, <1>2, <1>4, <2>1, <2>2 DEF Advance
<1>5. CASE /\ Advance([worker EXCEPT !.at = "publish", !.outcome = {"FAILED"},
                                     !.runs = refused])
           /\ UNCHANGED stored
  <2> HIDE DEF refused
  <2> QED
    BY <1>1, <1>3, <1>5 DEF Advance, Status
<1> QED
  BY <1>4, <1>5 DEF Imported

LEMMA SeenType ==
  ASSUME TypeOK, NEW j \in Job, NEW export \in worker.exports
  PROVE  Seen(j, export) \subseteq Observation
<1>1. export[1] \in Plugin /\ export[2] \in Job
  BY DEF TypeOK
<1>2. output[export[2]][export[1]] \subseteq Output
  BY <1>1 DEF TypeOK
<1>3. worker.digest \in SUBSET Content /\ worker.version \in Fingerprint \cup {None}
  BY DEF TypeOK
<1> QED
  BY <1>1, <1>2, <1>3 DEF Seen, Observation

LEMMA InitTypeOK == Init => TypeOK
<1> SUFFICES ASSUME Init PROVE TypeOK
  OBVIOUS
<1>1. worker \in WorkerState
  BY IdleType DEF Init
<1>2. jobs \in [Job -> JobRecord] /\ disk \in [Job -> JobRecord]
  BY NoJobType DEF Init
<1>3. queue \in Seq(Job)
  BY EmptySeq DEF Init
<1> QED
  BY <1>1, <1>2, <1>3, JobsAssumption DEF Init, TypeOK, WorkerState

LEMMA NextTypeOK == TypeOK /\ Placed /\ [Next]_vars => TypeOK'
<1> SUFFICES ASSUME TypeOK, Placed, [Next]_vars PROVE TypeOK'
  OBVIOUS
<1> USE DEF TypeOK
<1>1. ASSUME NEW j \in Job, NEW request \in JobRequest, Begin(j, request)
      PROVE  TypeOK'
  <2>1. Pending(request) \in JobRecord
    <3>1. Len(request.plugins) \in Nat
      BY RequestType, LenProperties
    <3>2. [k \in 1..Len(request.plugins) |-> "PENDING"] \in Seq(PluginStatus)
      BY <3>1, IsASeq DEF PluginStatus
    <3> QED
      BY <3>2 DEF Pending, NoJob, JobRecord, JobStatus
  <2>2. /\ jobs' \in [Job -> JobRecord]
        /\ disk' \in [Job -> JobRecord]
        /\ faults' \in Nat
    BY <1>1, <2>1, SaveType DEF Begin
  <2>3. queue' \in Seq(Job)
    <3>1. queue \in Seq(Job)
      OBVIOUS
    <3>2. Append(queue, j) \in Seq(Job)
      BY <3>1, AppendProperties
    <3> QED
      BY <1>1, <3>1, <3>2 DEF Begin
  <2> QED
    BY <1>1, <2>2, <2>3 DEF Begin, results
<1>2. ASSUME NEW j \in Job, Cancel(j)
      PROVE  TypeOK'
  BY <1>2 DEF Cancel, results
<1>3. CASE Close
  BY <1>3 DEF Close, results
<1>4. CASE Exit \/ Crash
  <2>1. Vanish
    BY <1>4 DEF Exit, Crash
  <2>2. worker' \in WorkerState /\ running' \subseteq Job
    BY <2>1, IdleType DEF Vanish, Leave
  <2>3. jobs' \in [Job -> JobRecord]
    BY <2>1, NoJobType DEF Vanish
  <2>4. queue' \in Seq(Job)
    BY <2>1, EmptySeq DEF Vanish
  <2> QED
    BY <2>1, <2>2, <2>3, <2>4 DEF Vanish, WorkerState, results
<1>5. CASE Open
  <2>1. \A record \in JobRecord : Reopen(record) \in JobRecord
    BY RecordType DEF Reopen, JobStatus, Terminal, Status
  <2> QED
    BY <1>5, <2>1 DEF Open, results
<1>6. CASE ModifyImage
  <2>1. PICK edit \in Edit :
          /\ image' = [content |-> edit[2], mtime |-> image.mtime + 1]
          /\ worker' = IF worker.at \in {"hash", "child"}
                       THEN [worker EXCEPT !.seen = @ \cup {edit[2]}]
                       ELSE worker
    BY <1>6 DEF ModifyImage
  <2>2. edit[2] \in Content
    BY JobsAssumption
  <2>3. worker \in WorkerState
    BY DEF WorkerState
  <2>4. worker' \in WorkerState
    BY <2>1, <2>2, <2>3 DEF WorkerState
  <2>5. image' \in [content : Content, mtime : Nat]
    BY <2>1, <2>2
  <2> QED
    BY <1>6, <2>4, <2>5 DEF ModifyImage, results, WorkerState
<1>7. ASSUME NEW j \in Job, NEW p \in Plugin, DamageOutput(j, p)
      PROVE  TypeOK'
  BY <1>7 DEF DamageOutput
<1>8. ASSUME NEW j \in Job, BeginHash(j)
      PROVE  TypeOK'
  <2>1. [jobs[j] EXCEPT !.status = "HASHING"] \in JobRecord
    BY RecordType DEF JobStatus
  <2>2. /\ jobs' \in [Job -> JobRecord]
        /\ disk' \in [Job -> JobRecord]
        /\ faults' \in Nat
    BY <1>8, <2>1, SaveType DEF BeginHash
  <2>3. worker' \in WorkerState
    <3>1. image.mtime \in Nat /\ {image.content} \in SUBSET Content
      OBVIOUS
    <3>2. /\ [Idle EXCEPT !.at = "hash", !.before = image.mtime,
                          !.seen = {image.content}] \in WorkerState
          /\ [Idle EXCEPT !.at = "fail"] \in WorkerState
      BY <3>1, IdleType DEF WorkerState
    <3> QED
      BY <1>8, <3>2 DEF BeginHash
  <2>4. queue' \in Seq(Job)
    BY <1>8, HeadTailProperties DEF BeginHash
  <2> QED
    BY <1>8, <2>2, <2>3, <2>4 DEF BeginHash, Outside, results, WorkerState
<1>9. ASSUME NEW j \in Job, HashCancelled(j)
      PROVE  TypeOK'
  <2>1. [jobs[j] EXCEPT !.status = "CANCELLED"] \in JobRecord
    BY RecordType DEF JobStatus, Terminal, Status
  <2> QED
    BY <1>9, <2>1, ReturnType DEF HashCancelled, At, Outside, results, WorkerState
<1>10. ASSUME NEW j \in Job, Prepare(j)
       PROVE  TypeOK'
  <2>1. [jobs[j] EXCEPT !.status = "RUNNING"] \in JobRecord
    BY RecordType DEF JobStatus
  <2>2. PICK digest \in (SUBSET worker.seen) \ {{}}, version \in Fingerprint \cup {None} :
          Update(j, [jobs[j] EXCEPT !.status = "RUNNING"],
                 [worker EXCEPT !.at = "plugin", !.digest = digest, !.seen = {},
                                !.version = version])
    BY <1>10 DEF Prepare
  <2>3. [worker EXCEPT !.at = "plugin", !.digest = digest, !.seen = {},
                       !.version = version] \in WorkerState
    BY DEF WorkerState
  <2> QED
    BY <1>10, <2>1, <2>2, <2>3, UpdateType DEF Prepare, At, Outside, results, WorkerState
<1>11. ASSUME NEW j \in Job, PluginSkipped(j)
       PROVE  TypeOK'
  <2>1. PICK status \in {"CANCELLED", "UNAVAILABLE"} :
          LET runs == Append(worker.runs, status)
          IN  Update(j, [jobs[j] EXCEPT !.plugins[Turn] = status],
                     [worker EXCEPT !.at = Loop(j, runs), !.runs = runs])
    BY <1>11 DEF PluginSkipped
  <2>2. Turn \in Nat
    BY DEF Turn
  <2>3. [jobs[j] EXCEPT !.plugins[Turn] = status] \in JobRecord
    BY <2>2, RecordType DEF PluginStatus, RunStatus
  <2>4. Append(worker.runs, status) \in Seq(RunStatus)
    BY AppendProperties DEF RunStatus
  <2>5. [worker EXCEPT !.at = Loop(j, Append(worker.runs, status)),
                       !.runs = Append(worker.runs, status)] \in WorkerState
    BY <2>4 DEF WorkerState, Loop
  <2> QED
    BY <1>11, <2>1, <2>3, <2>5, UpdateType DEF PluginSkipped, At, Outside, results, WorkerState
<1>12. ASSUME NEW j \in Job, PluginReused(j)
       PROVE  TypeOK'
  <2>1. j \in running /\ worker.at = "plugin"
    BY <1>12 DEF PluginReused, At
  <2>2. Turn \in Nat /\ Current(j) \in Plugin
    BY <2>1, CurrentType
  <2>3. PICK entry \in manifest[worker.digest][Current(j)] :
          Update(j, [jobs[j] EXCEPT !.plugins[Turn] = "RUNNING"],
                 [worker EXCEPT !.at = "done",
                                !.runs = Append(@, "SUCCESS"),
                                !.exports = @ \cup {<<Current(j), entry.owner>>}])
    BY <1>12 DEF PluginReused
  <2>4. entry.owner \in Job
    BY <2>2 DEF Entry
  <2>5. [jobs[j] EXCEPT !.plugins[Turn] = "RUNNING"] \in JobRecord
    BY <2>2, RecordType DEF PluginStatus
  <2>6. Append(worker.runs, "SUCCESS") \in Seq(RunStatus)
    BY AppendProperties DEF RunStatus
  <2>7. [worker EXCEPT !.at = "done", !.runs = Append(@, "SUCCESS"),
                       !.exports = @ \cup {<<Current(j), entry.owner>>}] \in WorkerState
    <3>1. <<Current(j), entry.owner>> \in Plugin \X Job
      BY <2>2, <2>4
    <3>2. worker.exports \cup {<<Current(j), entry.owner>>} \in SUBSET (Plugin \X Job)
      BY <3>1
    <3> QED
      BY <2>6, <3>2 DEF WorkerState
  <2> QED
    BY <1>12, <2>3, <2>5, <2>7, UpdateType DEF PluginReused, At, Outside, results, WorkerState
<1>13. ASSUME NEW j \in Job, PluginInvoked(j)
       PROVE  TypeOK'
  <2>1. Turn \in Nat
    BY DEF Turn
  <2>2. [jobs[j] EXCEPT !.plugins[Turn] = "RUNNING"] \in JobRecord
    BY <2>1, RecordType DEF PluginStatus
  <2>3. [worker EXCEPT !.at = "child", !.seen = {image.content}] \in WorkerState
    BY DEF WorkerState
  <2> QED
    BY <1>13, <2>2, <2>3, UpdateType DEF PluginInvoked, At, Outside, results, WorkerState
<1>14. ASSUME NEW j \in Job, ChildFails(j)
       PROVE  TypeOK'
  <2>1. PICK status \in {"FAILED", "TIMEOUT", "CANCELLED"} :
          Advance([worker EXCEPT !.at = "done", !.seen = {}, !.runs = Append(@, status)])
    BY <1>14 DEF ChildFails
  <2>2. Append(worker.runs, status) \in Seq(RunStatus)
    BY AppendProperties DEF RunStatus
  <2> QED
    BY <1>14, <2>1, <2>2 DEF ChildFails, Advance, At, Outside, results
<1>15. ASSUME NEW j \in Job, ChildSucceeds(j)
       PROVE  TypeOK'
  <2>1. PICK from \in (SUBSET worker.seen) \ {{}} :
          output' = [output EXCEPT ![j][Current(j)] =
                       {[from |-> from, made |-> worker.version]}]
    BY <1>15 DEF ChildSucceeds
  <2>2. {[from |-> from, made |-> worker.version]} \in SUBSET Output
    BY DEF Output
  <2>3. output' \in [Job -> [Plugin -> SUBSET Output]]
    BY <2>1, <2>2
  <2> QED
    BY <1>15, <2>3 DEF ChildSucceeds, Advance, At, Outside
<1>16. ASSUME NEW j \in Job, KeepOutput(j)
       PROVE  TypeOK'
  <2>1. j \in running /\ worker.at = "keep"
    BY <1>16 DEF KeepOutput, At
  <2>2. Current(j) \in Plugin
    BY <2>1, CurrentType
  <2>3. PICK sum \in output[j][Current(j)] :
          manifest' = [manifest EXCEPT ![worker.digest][Current(j)] =
                         {[owner |-> j, fingerprint |-> worker.version, sum |-> sum]}]
    BY <1>16 DEF KeepOutput
  <2>4. {[owner |-> j, fingerprint |-> worker.version, sum |-> sum]} \in SUBSET Entry
    BY <2>2 DEF Entry
  <2>5. manifest' \in [SUBSET Content -> [Plugin -> SUBSET Entry]]
    BY <2>3, <2>4
  <2>6. Append(worker.runs, "SUCCESS") \in Seq(RunStatus)
    BY AppendProperties DEF RunStatus
  <2>7. worker' \in WorkerState
    <3>1. <<Current(j), j>> \in Plugin \X Job
      BY <2>2
    <3>2. worker.exports \cup {<<Current(j), j>>} \in SUBSET (Plugin \X Job)
      BY <3>1
    <3> QED
      BY <1>16, <2>6, <3>2 DEF KeepOutput, Advance, WorkerState
  <2> QED
    BY <1>16, <2>5, <2>7 DEF KeepOutput, Advance, At, Outside, WorkerState
<1>17. ASSUME NEW j \in Job, PluginDone(j)
       PROVE  TypeOK'
  <2>1. j \in running /\ worker.at = "done"
    BY <1>17 DEF PluginDone, At
  <2> DEFINE k == Len(worker.runs)
             state == worker.runs[k]
  <2>2. k \in 1..Len(worker.runs) /\ k \in Nat
    BY <2>1 DEF Placed
  <2>3. state \in PluginStatus
    BY <2>2 DEF PluginStatus
  <2>4. [jobs[j] EXCEPT !.plugins[k] = state] \in JobRecord
    <3> HIDE DEF k, state
    <3>1. jobs[j] \in JobRecord
      OBVIOUS
    <3> QED
      BY <2>2, <2>3, <3>1, RecordType
  <2>5. [worker EXCEPT !.at = Loop(j, worker.runs)] \in WorkerState
    BY DEF WorkerState, Loop
  <2> QED
    BY <1>17, <2>4, <2>5, UpdateType DEF PluginDone, At, Outside, results, WorkerState
<1>18. ASSUME NEW j \in Job, Import(j)
       PROVE  TypeOK'
  <2>1. PICK unread \in SUBSET worker.exports, fruitful \in SUBSET worker.exports :
               Imported(j, unread, fruitful)
    BY <1>18 DEF Import, Imported
  <2>2. PICK runs \in Seq(RunStatus), status \in Status :
          worker' = [worker EXCEPT !.at = "publish", !.runs = runs, !.outcome = {status}]
    BY <2>1, ImportedResult
  <2>3. worker' \in WorkerState
    BY <2>2 DEF WorkerState
  <2>4. running' = running /\ UNCHANGED <<jobs, disk, faults>>
    BY <2>1, ImportedResult
  <2>5. stored' \subseteq Observation
    <3>1. \A export \in fruitful : Seen(j, export) \subseteq Observation
      BY SeenType
    <3> QED
      BY <2>1, <3>1 DEF Imported
  <2> QED
    BY <1>18, <2>3, <2>4, <2>5 DEF Import, At, Outside, WorkerState
<1>19. ASSUME NEW j \in Job, Publish(j)
       PROVE  TypeOK'
  <2> DEFINE k == worker.published + 1
             state == worker.runs[k]
  <2>1. k \in 1..Len(worker.runs) /\ k \in Nat
    BY <1>19 DEF Publish
  <2>2. state \in PluginStatus
    BY <2>1 DEF PluginStatus
  <2>3. [jobs[j] EXCEPT !.plugins[k] = state] \in JobRecord
    <3> HIDE DEF k, state
    <3>1. jobs[j] \in JobRecord
      OBVIOUS
    <3> QED
      BY <2>1, <2>2, <3>1, RecordType
  <2>4. [worker EXCEPT !.published = k] \in WorkerState
    BY <2>1 DEF WorkerState
  <2> QED
    BY <1>19, <2>3, <2>4, UpdateType DEF Publish, At, Outside, results, WorkerState
<1>20. ASSUME NEW j \in Job, Finish(j)
       PROVE  TypeOK'
  <2>1. PICK status \in worker.outcome :
          Return(j, [jobs[j] EXCEPT
                       !.status = IF j \in cancelled THEN "CANCELLED" ELSE status,
                       !.report = worker.outcome])
    BY <1>20 DEF Finish
  <2>2. (IF j \in cancelled THEN "CANCELLED" ELSE status) \in JobStatus
    BY DEF JobStatus, Terminal, Status
  <2>3. [jobs[j] EXCEPT
           !.status = IF j \in cancelled THEN "CANCELLED" ELSE status,
           !.report = worker.outcome] \in JobRecord
    BY <2>2, RecordType
  <2> QED
    BY <1>20, <2>1, <2>3, ReturnType DEF Finish, At, Outside, results, WorkerState
<1>21. ASSUME NEW j \in Job, Raise(j)
       PROVE  TypeOK'
  BY <1>21 DEF Raise, Advance, At, Outside, results
<1>22. ASSUME NEW j \in Job, Fail(j)
       PROVE  TypeOK'
  <2>1. [jobs[j] EXCEPT !.status = "FAILED"] \in JobRecord
    BY RecordType DEF JobStatus, Terminal, Status
  <2>2. /\ jobs' \in [Job -> JobRecord]
        /\ disk' \in [Job -> JobRecord]
        /\ faults' \in Nat
    BY <1>22, <2>1, SaveType DEF Fail
  <2>3. worker' \in WorkerState /\ running' \subseteq Job
    BY <1>22, IdleType DEF Fail, Leave
  <2> QED
    BY <1>22, <2>2, <2>3 DEF Fail, At, Outside, results, WorkerState
<1>23. CASE UNCHANGED vars
  BY <1>23 DEF vars, results
<1> QED
  BY <1>1, <1>2, <1>3, <1>4, <1>5, <1>6, <1>7, <1>8, <1>9, <1>10, <1>11, <1>12, <1>13,
     <1>14, <1>15, <1>16, <1>17, <1>18, <1>19, <1>20, <1>21, <1>22, <1>23
  DEF Next, Execute

-----------------------------------------------------------------------------
(***************************************************************************)
(* What a step can touch.                                                  *)
(***************************************************************************)

\* Saving one job leaves the others alone; the manifest is the record or stays
\* as it was, and then a save has failed.
LEMMA SaveFrame ==
  ASSUME TypeOK, NEW j \in Job, NEW record, Saved(j, record) \/ Unsaved(j, record)
  PROVE  /\ \A i \in Job \ {j} : jobs'[i] = jobs[i] /\ disk'[i] = disk[i]
         /\ jobs'[j] = record
         /\ \/ disk'[j] = record /\ faults' = faults
            \/ disk'[j] = disk[j] /\ faults' = faults + 1 /\ faults' # 0
<1>1. jobs \in [Job -> JobRecord] /\ disk \in [Job -> JobRecord] /\ faults \in Nat
  BY DEF TypeOK
<1> QED
  BY <1>1 DEF Saved, Unsaved

\* The steps of the worker after it has taken its job.
Move(j) ==
  \/ HashCancelled(j) \/ Prepare(j)
  \/ PluginSkipped(j) \/ PluginReused(j) \/ PluginInvoked(j)
  \/ ChildFails(j) \/ ChildSucceeds(j) \/ KeepOutput(j) \/ PluginDone(j)
  \/ Import(j) \/ Publish(j) \/ Finish(j) \/ Raise(j) \/ Fail(j)

\* They touch one job only, add no rows of another one, and never end as anything but
\* the same job or none.
LEMMA MoveFrame ==
  ASSUME TypeOK, NEW j \in Job, Move(j)
  PROVE  /\ j \in running
         /\ UNCHANGED <<session, asked, cancelled, image, queue>>
         /\ \A i \in Job \ {j} :
              /\ jobs'[i] = jobs[i] /\ disk'[i] = disk[i]
              /\ Rows(i)' = Rows(i)
         /\ faults = 0 \/ faults' # 0
         /\ running' = running \/ running' = {}
         /\ Import(j) \/ stored' = stored
<1>1. j \in running /\ UNCHANGED <<session, asked, cancelled, image, queue>>
  BY DEF Move, HashCancelled, Prepare, PluginSkipped, PluginReused, PluginInvoked, ChildFails,
         ChildSucceeds, KeepOutput, PluginDone, Import, Publish, Finish, Raise, Fail, At, Outside
<1>2. \/ \E record : Saved(j, record) \/ Unsaved(j, record)
      \/ UNCHANGED <<jobs, disk, faults>>
  BY DEF Move, HashCancelled, Prepare, PluginSkipped, PluginReused, PluginInvoked, ChildFails,
         ChildSucceeds, KeepOutput, PluginDone, Import, Publish, Finish, Raise, Fail,
         Update, Return, Advance
<1>3. /\ \A i \in Job \ {j} : jobs'[i] = jobs[i] /\ disk'[i] = disk[i]
      /\ faults = 0 \/ faults' # 0
  BY <1>2, SaveFrame DEF TypeOK
<1>4. running' = running \/ running' = {}
  BY DEF Move, HashCancelled, Prepare, PluginSkipped, PluginReused, PluginInvoked, ChildFails,
         ChildSucceeds, KeepOutput, PluginDone, Import, Publish, Finish, Raise, Fail,
         Update, Return, Advance, Raised, Leave
<1>5. \/ stored' = stored
      \/ /\ Import(j)
         /\ \E fruitful \in SUBSET worker.exports :
              stored' = stored \cup UNION {Seen(j, export) : export \in fruitful}
  BY DEF Move, HashCancelled, Prepare, PluginSkipped, PluginReused, PluginInvoked, ChildFails,
         ChildSucceeds, KeepOutput, PluginDone, Import, Publish, Finish, Raise, Fail, results
<1>6. \A i \in Job \ {j} : Rows(i)' = Rows(i)
  BY <1>5 DEF Rows, Seen
<1> QED
  BY <1>1, <1>3, <1>4, <1>5, <1>6

\* Everything else happens before the worker takes a job, or between jobs, or
\* leaves the jobs as they are.
LEMMA OtherSteps ==
  ASSUME [Next]_vars
  PROVE  \/ \E j \in Job, request \in JobRequest : Begin(j, request)
         \/ \E j \in Job : BeginHash(j) \/ Move(j)
         \/ Vanish /\ session # "down"
         \/ Open
         \/ /\ UNCHANGED <<jobs, disk, asked, queue, running, stored, manifest, faults>>
            /\ session' = session \/ (session = "open" /\ session' = "closing")
            /\ \/ ModifyImage /\ UNCHANGED output
               \/ UNCHANGED <<image, worker>> /\ (running = {} \/ UNCHANGED output)
BY DEF Next, Execute, Move, vars, results, Close, Exit, Crash, ModifyImage, Cancel, DamageOutput

-----------------------------------------------------------------------------
(***************************************************************************)
(* The queue.                                                              *)
(***************************************************************************)

Distinct == \A k, l \in DOMAIN queue : queue[k] = queue[l] => k = l

LEMMA QueueGrows ==
  ASSUME queue \in Seq(Job), Distinct, NEW j \in Job, j \notin Waiting,
         queue' = Append(queue, j)
  PROVE  Distinct' /\ Waiting' = Waiting \cup {j}
<1>1. /\ Len(queue) \in Nat /\ DOMAIN queue = 1..Len(queue)
      /\ DOMAIN queue' = 1..Len(queue) + 1
      /\ queue'[Len(queue) + 1] = j
      /\ \A k \in 1..Len(queue) : queue'[k] = queue[k]
  BY LenProperties, AppendProperties
<1> QED
  BY <1>1 DEF Distinct, Waiting

LEMMA QueueShrinks ==
  ASSUME queue \in Seq(Job), Distinct, queue # <<>>, queue' = Tail(queue)
  PROVE  /\ Distinct'
         /\ Head(queue) \in Waiting
         /\ Waiting' = Waiting \ {Head(queue)}
<1>1. /\ Len(queue) \in Nat \ {0} /\ DOMAIN queue = 1..Len(queue)
      /\ queue' \in Seq(Job) /\ Len(queue') = Len(queue) - 1
      /\ DOMAIN queue' = 1..Len(queue) - 1
      /\ \A k \in 1..Len(queue) - 1 : queue'[k] = queue[k + 1]
      /\ Head(queue) = queue[1]
  BY LenProperties, EmptySeq, HeadTailProperties
<1>2. Distinct'
  BY <1>1 DEF Distinct
<1>3. \A k \in 2..Len(queue) : queue[k] # queue[1]
  <2>1. \A k \in 2..Len(queue) : k \in DOMAIN queue /\ 1 \in DOMAIN queue /\ k # 1
    BY <1>1
  <2> QED
    BY <2>1 DEF Distinct
<1>4. Waiting' = {queue[k] : k \in 2..Len(queue)}
  <2>1. \A k \in 2..Len(queue) : k - 1 \in 1..Len(queue) - 1 /\ queue'[k - 1] = queue[k]
    BY <1>1
  <2>2. \A k \in 1..Len(queue) - 1 : k + 1 \in 2..Len(queue)
    BY <1>1
  <2>3. Waiting' = {queue'[k] : k \in 1..Len(queue) - 1}
    BY <1>1 DEF Waiting
  <2>4. Waiting' \subseteq {queue[k] : k \in 2..Len(queue)}
    BY <1>1, <2>2, <2>3
  <2>5. {queue[k] : k \in 2..Len(queue)} \subseteq Waiting'
    BY <2>1, <2>3
  <2> QED
    BY <2>4, <2>5
<1>5. Waiting = {queue[k] : k \in 2..Len(queue)} \cup {queue[1]}
  <2>1. DOMAIN queue = (2..Len(queue)) \cup {1}
    BY <1>1
  <2> QED
    BY <2>1 DEF Waiting
<1> QED
  BY <1>1, <1>2, <1>3, <1>4, <1>5

LEMMA InitScheduled == Init => Scheduled /\ Placed
<1> SUFFICES ASSUME Init PROVE Scheduled /\ Placed
  OBVIOUS
<1>1. queue = <<>> /\ DOMAIN queue = {} /\ running = {}
  BY DEF Init
<1> QED
  BY <1>1 DEF Init, Scheduled, Placed, Waiting, Rows

\* The queue, the worker and the records of jobs that were never asked for agree.
LEMMA NextScheduled == TypeOK /\ Scheduled /\ [Next]_vars => Scheduled'
<1> SUFFICES ASSUME TypeOK, Scheduled, [Next]_vars PROVE Scheduled'
  OBVIOUS
<1>1. /\ Distinct
      /\ queue \in Seq(Job) /\ running \subseteq Job /\ Waiting \subseteq Job
      /\ asked \in [Job -> JobRequest \cup {NoRequest}]
  <2>1. queue \in Seq(Job)
    BY DEF TypeOK
  <2>2. Waiting \subseteq Job
    BY <2>1, LenProperties, ElementOfSeq DEF Waiting
  <2> QED
    BY <2>1, <2>2 DEF TypeOK, Scheduled, Distinct
<1>2. ASSUME NEW j \in Job, NEW request \in JobRequest, Begin(j, request)
      PROVE  Scheduled'
  <2>1. /\ session = "open" /\ session' = session /\ running' = running
        /\ asked[j] = NoRequest /\ asked' = [asked EXCEPT ![j] = request]
        /\ stored' = stored
    BY <1>2 DEF Begin, results
  <2>2. asked'[j] # NoRequest /\ \A i \in Job \ {j} : asked'[i] = asked[i]
    BY <1>1, <2>1, RequestType
  <2>3. \A i \in Job \ {j} : jobs'[i] = jobs[i] /\ disk'[i] = disk[i]
    BY <1>2, SaveFrame DEF Begin
  <2>4. j \notin Waiting \cup running
    BY <2>1 DEF Scheduled
  <2>5. Distinct' /\ Waiting' \subseteq Waiting \cup {j}
    <3>1. CASE queue' = Append(queue, j)
      BY <1>1, <2>4, <3>1, QueueGrows
    <3>2. CASE queue' = queue
      BY <1>1, <3>2 DEF Distinct, Waiting
    <3> QED
      BY <1>2, <3>1, <3>2 DEF Begin
  <2>6. Rows(j)' = Rows(j) /\ \A i \in Job : Rows(i)' = Rows(i)
    BY <2>1 DEF Rows
  <2> QED
    BY <2>1, <2>2, <2>3, <2>4, <2>5, <2>6 DEF Scheduled, Distinct
<1>3. ASSUME NEW j \in Job, BeginHash(j)
      PROVE  Scheduled'
  <2>1. /\ running = {} /\ running' = {j} /\ queue # <<>>
        /\ j = Head(queue) /\ queue' = Tail(queue)
        /\ UNCHANGED <<session, asked, stored>>
    BY <1>3 DEF BeginHash, Outside, results
  <2>2. Distinct' /\ Waiting' = Waiting \ {j} /\ j \in Waiting
    BY <1>1, <2>1, QueueShrinks
  <2>3. \A i \in Job \ {j} : jobs'[i] = jobs[i] /\ disk'[i] = disk[i]
    BY <1>3, SaveFrame DEF BeginHash
  <2>4. \A i \in Job : Rows(i)' = Rows(i)
    BY <2>1 DEF Rows
  <2>5. session' # "down" /\ asked[j] # NoRequest
    BY <2>1, <2>2 DEF Scheduled
  <2> QED
    BY <2>1, <2>2, <2>3, <2>4, <2>5 DEF Scheduled, Distinct
<1>4. ASSUME NEW j \in Job, Move(j)
      PROVE  Scheduled'
  <2>1. /\ j \in running /\ running' \subseteq running
        /\ UNCHANGED <<session, asked, queue>>
        /\ \A i \in Job \ {j} :
             jobs'[i] = jobs[i] /\ disk'[i] = disk[i] /\ Rows(i)' = Rows(i)
    BY <1>4, MoveFrame
  <2>2. Waiting' = Waiting
    BY <2>1 DEF Waiting
  <2>3. asked[j] # NoRequest
    BY <2>1 DEF Scheduled
  <2> QED
    BY <2>1, <2>2, <2>3 DEF Scheduled
<1>5. CASE Vanish
  <2>1. /\ queue' = <<>> /\ DOMAIN queue' = {} /\ running' = {} /\ session' = "down"
        /\ jobs' = [i \in Job |-> NoJob] /\ disk' = disk /\ asked' = asked /\ stored' = stored
    BY <1>5 DEF Vanish, Leave, results
  <2>2. Waiting' = {} /\ \A i \in Job : Rows(i)' = Rows(i)
    BY <2>1 DEF Waiting, Rows
  <2> QED
    BY <2>1, <2>2 DEF Scheduled
<1>6. CASE Open
  <2>1. /\ session = "down" /\ session' = "open"
        /\ disk' = [i \in Job |-> Reopen(disk[i])] /\ jobs' = disk'
        /\ UNCHANGED <<asked, queue, running, stored>>
    BY <1>6 DEF Open, results
  <2>2. Waiting' = Waiting /\ \A i \in Job : Rows(i)' = Rows(i)
    BY <2>1 DEF Waiting, Rows
  <2>3. Reopen(NoJob) = NoJob
    BY DEF Reopen, Ended, NoJob
  <2> QED
    BY <2>1, <2>2, <2>3 DEF Scheduled
<1>7. CASE /\ UNCHANGED <<jobs, disk, asked, queue, running, stored, manifest, faults>>
           /\ session' = session \/ (session = "open" /\ session' = "closing")
  BY <1>7 DEF Scheduled, Waiting, Rows
<1> QED
  BY <1>2, <1>3, <1>4, <1>5, <1>6, <1>7, OtherSteps

-----------------------------------------------------------------------------
(***************************************************************************)
(* The place of the worker.                                                *)
(***************************************************************************)

\* The length of a sequence of states that grows by one.
LEMMA RunsGrow ==
  ASSUME TypeOK, NEW state \in RunStatus
  PROVE  /\ Len(Append(worker.runs, state)) = Len(worker.runs) + 1
         /\ Len(worker.runs) \in Nat
BY AppendProperties, LenProperties DEF TypeOK

\* Saving in the midst of the loop either succeeds, and the worker goes on, or sends
\* it to the except clause.
LEMMA UpdateStep ==
  ASSUME NEW j, NEW record, NEW next, Update(j, record, next)
  PROVE  /\ running' = running
         /\ worker' = next \/ worker' = [worker EXCEPT !.at = "fail"]
BY DEF Update, Raised

LEMMA NextPlaced == TypeOK /\ Scheduled /\ Placed /\ [Next]_vars => Placed'
<1> SUFFICES ASSUME TypeOK, Scheduled, Placed, [Next]_vars PROVE Placed'
  OBVIOUS
<1>1. /\ running \subseteq Job
      /\ worker \in WorkerState
      /\ Len(worker.runs) \in Nat
      /\ \A j \in Job : Len(asked[j].plugins) \in Nat
      /\ output \in [Job -> [Plugin -> SUBSET Output]]
      /\ \A i, j \in running : i = j
  <2>1. \A j \in Job : asked[j] \in JobRequest \cup {NoRequest}
    BY DEF TypeOK
  <2>2. \A j \in Job : Len(asked[j].plugins) \in Nat
    BY <2>1, RequestType, EmptySeq, LenProperties DEF NoRequest
  <2>3. worker.runs \in Seq(RunStatus)
    BY DEF TypeOK
  <2> QED
    BY <2>2, <2>3, LenProperties DEF TypeOK, WorkerState, Scheduled
<1>2. ASSUME NEW j \in Job, NEW request \in JobRequest, Begin(j, request)
      PROVE  Placed'
  <2>1. /\ UNCHANGED <<running, worker, output>>
        /\ \A i \in Job \ {j} : asked'[i] = asked[i]
        /\ j \notin running
    BY <1>1, <1>2 DEF Begin, results, Scheduled, TypeOK
  <2> QED
    BY <1>1, <2>1 DEF Placed
<1>3. ASSUME NEW j \in Job, BeginHash(j)
      PROVE  Placed'
  <2>1. /\ running' = {j}
        /\ \/ worker' = [Idle EXCEPT !.at = "hash", !.before = image.mtime,
                                     !.seen = {image.content}]
           \/ worker' = [Idle EXCEPT !.at = "fail"]
    BY <1>3 DEF BeginHash
  <2>2. /\ worker'.at \in {"hash", "fail"} /\ worker'.runs = <<>> /\ Len(<<>>) = 0
        /\ worker'.exports = {} /\ worker'.published = 0
    BY <2>1, EmptySeq DEF Idle
  <2> QED
    BY <2>1, <2>2 DEF Placed
<1>4. ASSUME NEW j \in Job, Move(j)
      PROVE  Placed'
  <2>1. /\ j \in running /\ running = {j}
        /\ running' \subseteq running
        /\ asked' = asked
    BY <1>1, <1>4, MoveFrame
  <2>2. CASE worker' = [worker EXCEPT !.at = "fail"] /\ output' = output
    BY <1>1, <2>1, <2>2 DEF Placed, WorkerState
  <2>3. CASE HashCancelled(j) \/ Finish(j) \/ Raise(j) \/ Fail(j)
    <3>1. running' = {} \/ (worker' = [worker EXCEPT !.at = "fail"] /\ output' = output)
      BY <2>3 DEF HashCancelled, Finish, Raise, Fail, Return, Leave, Raised, Advance, results
    <3> QED
      BY <2>2, <3>1 DEF Placed
  <2>4. CASE Prepare(j)
    <3>1. worker.at = "hash" /\ output' = output
      BY <2>4 DEF Prepare, At, results
    <3>2. \E digest, version :
            \/ worker' = [worker EXCEPT !.at = "plugin", !.digest = digest, !.seen = {},
                                        !.version = version]
            \/ worker' = [worker EXCEPT !.at = "fail"]
      <4>1. PICK digest, version :
              Update(j, [jobs[j] EXCEPT !.status = "RUNNING"],
                     [worker EXCEPT !.at = "plugin", !.digest = digest, !.seen = {},
                                    !.version = version])
        BY <2>4 DEF Prepare
      <4>2. \/ worker' = [worker EXCEPT !.at = "plugin", !.digest = digest, !.seen = {},
                                        !.version = version]
            \/ worker' = [worker EXCEPT !.at = "fail"]
        BY <4>1, UpdateStep
      <4> QED
        BY <4>2
    <3>3. Len(worker.runs) = 0 /\ Len(asked[j].plugins) > 0
      <4>1. asked[j] \in JobRequest
        <5>1. asked[j] # NoRequest /\ j \in Job
          BY <1>1, <2>1 DEF Scheduled
        <5> QED
          BY <5>1 DEF TypeOK
      <4>2. worker.runs = <<>>
        BY <2>1, <3>1 DEF Placed
      <4> QED
        BY <4>1, <4>2, RequestType, EmptySeq
    <3>4. CASE \E digest, version :
                 worker' = [worker EXCEPT !.at = "plugin", !.digest = digest, !.seen = {},
                                          !.version = version]
      <4>1. /\ worker'.at = "plugin" /\ worker'.runs = worker.runs
            /\ worker'.exports = worker.exports /\ worker'.published = worker.published
        BY <1>1, <3>4 DEF WorkerState
      <4> QED
        BY <1>1, <2>1, <3>1, <3>3, <4>1 DEF Placed
    <3> QED
      BY <2>2, <3>1, <3>2, <3>4
  <2>5. CASE PluginSkipped(j)
    <3>1. worker.at = "plugin" /\ output' = output
      BY <2>5 DEF PluginSkipped, At, results
    <3>2. PICK status \in RunStatus :
            \/ worker' = [worker EXCEPT !.at = Loop(j, Append(worker.runs, status)),
                                        !.runs = Append(worker.runs, status)]
            \/ worker' = [worker EXCEPT !.at = "fail"]
      BY <2>5, UpdateStep DEF PluginSkipped, RunStatus
    <3>3. PICK runs : runs = Append(worker.runs, status) /\ Len(runs) = Len(worker.runs) + 1
      BY RunsGrow
    <3>4. CASE worker' = [worker EXCEPT !.at = Loop(j, runs), !.runs = runs]
      <4>1. /\ worker'.at = Loop(j, runs) /\ worker'.runs = runs
            /\ worker'.exports = worker.exports /\ worker'.published = worker.published
        BY <1>1, <3>4 DEF WorkerState
      <4> QED
        BY <1>1, <2>1, <3>1, <3>3, <4>1 DEF Placed, Loop
    <3> QED
      BY <2>2, <3>1, <3>2, <3>3, <3>4
  <2>6. CASE PluginReused(j)
    <3>1. worker.at = "plugin" /\ output' = output
      BY <2>6 DEF PluginReused, At, results
    <3>3. PICK entry \in manifest[worker.digest][Current(j)] :
            /\ output[entry.owner][Current(j)] # {}
            /\ Update(j, [jobs[j] EXCEPT !.plugins[Turn] = "RUNNING"],
                      [worker EXCEPT !.at = "done",
                                     !.runs = Append(@, "SUCCESS"),
                                     !.exports = @ \cup {<<Current(j), entry.owner>>}])
      BY <2>6 DEF PluginReused, Reusable
    <3> DEFINE export == <<Current(j), entry.owner>>
    <3>6. output[export[2]][export[1]] # {}
      BY <3>3
    <3> HIDE DEF export
    <3>7. \/ worker' = [worker EXCEPT !.at = "done", !.runs = Append(@, "SUCCESS"),
                                      !.exports = @ \cup {export}]
          \/ worker' = [worker EXCEPT !.at = "fail"]
      BY <3>3, UpdateStep DEF export
    <3>4. PICK runs : runs = Append(worker.runs, "SUCCESS") /\ Len(runs) = Len(worker.runs) + 1
      BY RunsGrow DEF RunStatus
    <3>5. CASE worker' = [worker EXCEPT !.at = "done", !.runs = runs,
                                        !.exports = @ \cup {export}]
      <4>1. /\ worker'.at = "done" /\ worker'.runs = runs
            /\ worker'.exports = worker.exports \cup {export}
            /\ worker'.published = worker.published
        BY <1>1, <3>5 DEF WorkerState
      <4>2. Len(worker.runs) < Len(asked[j].plugins) /\ worker.published = 0
        BY <2>1, <3>1 DEF Placed
      <4>3. \A x \in worker'.exports : output'[x[2]][x[1]] # {}
        BY <2>1, <3>1, <3>6, <4>1 DEF Placed
      <4> QED
        BY SMTT(60), <1>1, <2>1, <3>4, <4>1, <4>2, <4>3 DEF Placed
    <3> QED
      BY <2>2, <3>1, <3>4, <3>5, <3>7
  <2>7. CASE PluginInvoked(j)
    <3>1. worker.at = "plugin" /\ output' = output
      BY <2>7 DEF PluginInvoked, At, results
    <3>2. worker' \in {[worker EXCEPT !.at = "child", !.seen = {image.content}],
                       [worker EXCEPT !.at = "fail"]}
      BY <2>7, UpdateStep DEF PluginInvoked
    <3> QED
      BY <1>1, <2>1, <2>2, <3>1, <3>2 DEF Placed, WorkerState
  <2>8. CASE ChildFails(j)
    <3>1. worker.at = "child" /\ output' = output
      BY <2>8 DEF ChildFails, At, results
    <3>2. PICK status \in RunStatus :
            worker' = [worker EXCEPT !.at = "done", !.seen = {}, !.runs = Append(@, status)]
      BY <2>8 DEF ChildFails, Advance, RunStatus
    <3>3. PICK runs : runs = Append(worker.runs, status) /\ Len(runs) = Len(worker.runs) + 1
      BY RunsGrow
    <3>4. /\ worker'.at = "done" /\ worker'.runs = runs
          /\ worker'.exports = worker.exports /\ worker'.published = worker.published
      BY <1>1, <3>2, <3>3 DEF WorkerState
    <3> QED
      BY <1>1, <2>1, <3>1, <3>3, <3>4 DEF Placed
  <2>9. CASE ChildSucceeds(j)
    <3>1. /\ worker.at = "child"
          /\ worker' = [worker EXCEPT !.at = "keep", !.seen = {}]
      BY <2>9 DEF ChildSucceeds, At, Advance
    <3>2. PICK file : output' = [output EXCEPT ![j][Current(j)] = {file}]
      BY <2>9 DEF ChildSucceeds
    <3>3. \A i \in Job, p \in Plugin : output[i][p] # {} => output'[i][p] # {}
      BY <1>1, <2>1, <3>2
    <3>4. \A export \in worker.exports : export[1] \in Plugin /\ export[2] \in Job
      BY <1>1 DEF WorkerState
    <3>5. /\ worker'.at = "keep" /\ worker'.runs = worker.runs
          /\ worker'.exports = worker.exports /\ worker'.published = worker.published
      BY <1>1, <3>1 DEF WorkerState
    <3> QED
      BY <1>1, <2>1, <3>1, <3>3, <3>4, <3>5 DEF Placed
  <2>10. CASE KeepOutput(j)
    <3>1. /\ worker.at = "keep" /\ output' = output
          /\ output[j][Current(j)] # {}
          /\ worker' = [worker EXCEPT !.at = "done", !.runs = Append(@, "SUCCESS"),
                                      !.exports = @ \cup {<<Current(j), j>>}]
      BY <2>10 DEF KeepOutput, At, Advance
    <3>2. PICK runs : runs = Append(worker.runs, "SUCCESS") /\ Len(runs) = Len(worker.runs) + 1
      BY RunsGrow DEF RunStatus
    <3> DEFINE export == <<Current(j), j>>
    <3>3. output[export[2]][export[1]] # {}
      BY <3>1
    <3>4. worker' = [worker EXCEPT !.at = "done", !.runs = runs, !.exports = @ \cup {export}]
      BY <3>1, <3>2
    <3> HIDE DEF export
    <3>5. /\ worker'.at = "done" /\ worker'.runs = runs
          /\ worker'.exports = worker.exports \cup {export}
          /\ worker'.published = worker.published
      BY <1>1, <3>4 DEF WorkerState
    <3>6. Len(worker.runs) < Len(asked[j].plugins) /\ worker.published = 0
      BY <2>1, <3>1 DEF Placed
    <3>7. \A x \in worker'.exports : output'[x[2]][x[1]] # {}
      BY <2>1, <3>1, <3>3, <3>5 DEF Placed
    <3> QED
      BY <1>1, <2>1, <3>2, <3>5, <3>6, <3>7 DEF Placed
  <2>11. CASE PluginDone(j)
    <3>1. worker.at = "done" /\ output' = output
      BY <2>11 DEF PluginDone, At, results
    <3>2. \/ worker' = [worker EXCEPT !.at = Loop(j, worker.runs)]
          \/ worker' = [worker EXCEPT !.at = "fail"]
      BY <2>11, UpdateStep DEF PluginDone
    <3>3. CASE worker' = [worker EXCEPT !.at = Loop(j, worker.runs)]
      <4>1. /\ worker'.at = Loop(j, worker.runs) /\ worker'.runs = worker.runs
            /\ worker'.exports = worker.exports /\ worker'.published = worker.published
        BY <1>1, <3>3 DEF WorkerState
      <4> QED
        BY <1>1, <2>1, <3>1, <4>1 DEF Placed, Loop
    <3> QED
      BY <2>2, <3>1, <3>2, <3>3
  <2>12. CASE Import(j)
    <3>1. worker.at = "import" /\ output' = output
      BY <2>12 DEF Import, At
    <3>2. PICK unread, fruitful : Imported(j, unread, fruitful)
      BY <2>12 DEF Import, Imported
    <3>3. PICK runs \in Seq(RunStatus), status \in Status :
            /\ worker' = [worker EXCEPT !.at = "publish", !.runs = runs, !.outcome = {status}]
            /\ Len(runs) = Len(worker.runs)
            /\ status = "SUCCESS" <=> StatesOf(runs) = {"SUCCESS"}
            /\ status = "PARTIAL" =>
                 /\ fruitful # {}
                 /\ stored' = stored \cup UNION {Seen(j, export) : export \in fruitful}
            /\ status \in {"FAILED", "CANCELLED", "UNAVAILABLE"} => stored' = stored
      BY <3>2, ImportedResult
    <3>4. /\ worker'.at = "publish" /\ worker'.runs = runs
          /\ worker'.exports = worker.exports /\ worker'.published = worker.published
      BY <1>1, <3>3 DEF WorkerState
    <3> QED
      BY <1>1, <2>1, <3>1, <3>3, <3>4 DEF Placed
  <2>13. CASE Publish(j)
    <3>1. worker.at = "publish" /\ output' = output /\ worker.published < Len(worker.runs)
      BY <2>13 DEF Publish, At, results
    <3>2. \/ worker' = [worker EXCEPT !.published = worker.published + 1]
          \/ worker' = [worker EXCEPT !.at = "fail"]
      BY <2>13, UpdateStep DEF Publish
    <3>3. CASE worker' = [worker EXCEPT !.published = worker.published + 1]
      <4>1. /\ worker'.at = "publish" /\ worker'.runs = worker.runs
            /\ worker'.exports = worker.exports
            /\ worker'.published = worker.published + 1 /\ worker.published \in Nat
        BY <1>1, <3>1, <3>3 DEF WorkerState
      <4> QED
        BY <1>1, <2>1, <3>1, <4>1 DEF Placed
    <3> QED
      BY <2>2, <3>1, <3>2, <3>3
  <2> QED
    BY <1>4, <2>3, <2>4, <2>5, <2>6, <2>7, <2>8, <2>9, <2>10, <2>11, <2>12, <2>13 DEF Move
<1>5. CASE Vanish
  BY <1>5 DEF Vanish, Leave, Placed
<1>6. CASE Open
  BY <1>6 DEF Open, results, Placed
<1>7. CASE /\ UNCHANGED <<jobs, disk, asked, queue, running, stored, manifest, faults>>
           /\ \/ ModifyImage /\ UNCHANGED output
              \/ UNCHANGED <<image, worker>> /\ (running = {} \/ UNCHANGED output)
  <2>1. CASE ModifyImage /\ UNCHANGED output
    <3>1. \E seen : worker' = [worker EXCEPT !.seen = seen]
      BY <1>1, <2>1 DEF ModifyImage, WorkerState
    <3> QED
      BY <1>1, <1>7, <2>1, <3>1 DEF Placed, WorkerState
  <2> QED
    BY <1>7, <2>1 DEF Placed
<1> QED
  BY <1>2, <1>3, <1>4, <1>5, <1>6, <1>7, OtherSteps

\* Every variable of the job manager is well typed.
THEOREM JobsTypeCorrect == Spec => []TypeOK
<1> DEFINE Inv == TypeOK /\ Scheduled /\ Placed
<1>1. Init => Inv
  BY InitTypeOK, InitScheduled
<1>2. Inv /\ [Next]_vars => Inv'
  BY NextTypeOK, NextScheduled, NextPlaced
<1>3. Inv => TypeOK
  OBVIOUS
<1> QED
  BY <1>1, <1>2, <1>3, PTL DEF Spec

-----------------------------------------------------------------------------
(***************************************************************************)
(* Reports.  What the published properties say of a finished job depends   *)
(* on what was known while it ran: Unfinished carries it from the queue to *)
(* the import, and the import's outcome to the report.                     *)
(***************************************************************************)

\* A report of nothing is true.
LEMMA NothingReported ==
  ASSUME NEW record, NEW j, record.report = {}
  PROVE  RecordTrue(record, j) /\ RecordTrue(record, j)'
BY DEF RecordTrue, ReportMatchesPlugins

LEMMA InitUnfinished == Init => Unfinished /\ RecordsTrue
<1> SUFFICES ASSUME Init PROVE Unfinished /\ RecordsTrue
  OBVIOUS
<1>1. queue = <<>> /\ DOMAIN queue = {} /\ running = {} /\ stored = {}
  BY DEF Init
<1>2. \A j \in Job : jobs[j] = NoJob /\ disk[j] = NoJob /\ NoJob.report = {} /\ Rows(j) = {}
  BY <1>1 DEF Init, NoJob, Rows
<1> QED
  BY <1>1, <1>2, NothingReported DEF Unfinished, RecordsTrue, Recorded, Waiting

\* A move of the worker keeps what it keeps of its own job.
LEMMA OneJobMoves ==
  ASSUME TypeOK, Scheduled, Unfinished, RecordsTrue, NEW j \in Job, Move(j),
         Recorded(j)', j \in running' => InHand(j)'
  PROVE  (Unfinished /\ RecordsTrue)'
<1>1. /\ j \in running
      /\ UNCHANGED <<asked, queue>>
      /\ \A i \in Job \ {j} : jobs'[i] = jobs[i] /\ disk'[i] = disk[i] /\ Rows(i)' = Rows(i)
      /\ faults = 0 \/ faults' # 0
      /\ running' = running \/ running' = {}
  BY MoveFrame
<1>2. running = {j} /\ j \notin Waiting /\ Waiting' = Waiting /\ Waiting \subseteq Job
  <2>1. queue \in Seq(Job)
    BY DEF TypeOK
  <2>2. Waiting \subseteq Job
    BY <2>1, LenProperties, ElementOfSeq DEF Waiting
  <2> QED
    BY <1>1, <2>2 DEF Scheduled, Waiting
<1>3. \A i \in Job \ {j} : Recorded(i)'
  BY <1>1 DEF RecordsTrue, Recorded, RecordTrue
<1>4. \A i \in Waiting' : OnTheWay(i)' /\ Undecided(i)' /\ Rows(i)' = {}
  BY <1>1, <1>2 DEF Unfinished, OnTheWay, Undecided
<1> QED
  BY <1>1, <1>2, <1>3, <1>4 DEF Unfinished, RecordsTrue

\* Saving in the midst of the loop: the job stays undecided, or goes to the except
\* clause with a failed save to its account.
LEMMA UpdateKeeps ==
  ASSUME TypeOK, Unfinished, NEW j \in running, NEW record \in JobRecord, NEW next \in WorkerState,
         Update(j, record, next), UNCHANGED <<asked, stored>>,
         record.report = {}, record.status \notin Terminal,
         Len(record.plugins) = Len(asked[j].plugins),
         next.at \notin {"publish", "fail"}, worker.at \notin {"publish", "fail"}
  PROVE  Recorded(j)' /\ InHand(j)'
<1>1. j \in Job /\ worker \in WorkerState
  BY DEF TypeOK, WorkerState
<1>2. InHand(j) /\ Rows(j) = {} /\ Rows(j)' = Rows(j)
  BY DEF Unfinished, InHand, Rows
<1>3. /\ Saved(j, record) \/ Unsaved(j, record)
      /\ worker' = next \/ worker' = [worker EXCEPT !.at = "fail"]
  BY DEF Update, Raised
<1>4. /\ jobs'[j] = record
      /\ disk'[j] = record \/ disk'[j] = disk[j]
  BY <1>1, <1>3, SaveFrame
<1>5. OnTheWay(j)' /\ Undecided(j)'
  BY <1>2, <1>4 DEF InHand, OnTheWay, Undecided
<1>6. Recorded(j)'
  BY <1>2, <1>4, <1>5, NothingReported DEF Recorded, OnTheWay, Undecided
<1>7. worker'.at # "publish"
  BY <1>1, <1>3 DEF WorkerState
<1> QED
  BY <1>2, <1>5, <1>6, <1>7 DEF InHand

\* A step of the worker that saves nothing and imports nothing.
LEMMA AdvanceKeeps ==
  ASSUME Unfinished, RecordsTrue, NEW j \in running \cap Job, NEW next, Advance(next),
         UNCHANGED <<asked, stored>>,
         next.at # "publish", worker.at \notin {"publish", "fail"}
  PROVE  Recorded(j)' /\ InHand(j)'
<1>1. InHand(j) /\ Rows(j) = {} /\ Rows(j)' = Rows(j) /\ Recorded(j)
  BY DEF Unfinished, InHand, Rows, RecordsTrue
<1>2. UNCHANGED <<jobs, disk, faults>> /\ worker' = next
  BY DEF Advance
<1>3. Recorded(j)'
  BY <1>1, <1>2 DEF Recorded, RecordTrue
<1>4. OnTheWay(j)' /\ Undecided(j)'
  BY <1>1, <1>2 DEF InHand, OnTheWay, Undecided
<1> QED
  BY <1>1, <1>2, <1>3, <1>4 DEF InHand

\* The import knows what to report, and reports nothing yet.
LEMMA ImportKeeps ==
  ASSUME TypeOK, Placed, Unfinished, RecordsTrue, NEW j \in running, Import(j)
  PROVE  Recorded(j)' /\ InHand(j)'
<1>1. /\ j \in Job /\ worker \in WorkerState
      /\ worker.at = "import" /\ worker.published = 0
      /\ asked' = asked
  BY DEF TypeOK, WorkerState, Import, At, Outside, Placed
<1>2. InHand(j) /\ Rows(j) = {} /\ Recorded(j)
  BY <1>1 DEF Unfinished, InHand, RecordsTrue
<1>3. PICK unread \in SUBSET worker.exports, fruitful \in SUBSET worker.exports :
        Imported(j, unread, fruitful)
  BY DEF Import, Imported
<1>4. UNCHANGED <<jobs, disk, faults>>
  BY <1>1, <1>3, ImportedResult
<1>5. PICK runs \in Seq(RunStatus), status \in Status :
        /\ worker' = [worker EXCEPT !.at = "publish", !.runs = runs, !.outcome = {status}]
        /\ Len(runs) = Len(worker.runs)
        /\ status = "SUCCESS" <=> StatesOf(runs) = {"SUCCESS"}
        /\ status = "PARTIAL" =>
             /\ fruitful # {}
             /\ stored' = stored \cup UNION {Seen(j, export) : export \in fruitful}
        /\ status \in {"FAILED", "CANCELLED", "UNAVAILABLE"} => stored' = stored
  BY <1>1, <1>3, ImportedResult
<1>6. Truthful(status, StatesOf(runs), Rows(j)')
  <2>1. CASE status = "PARTIAL"
    <3>1. PICK export \in fruitful : TRUE
      BY <1>5, <2>1
    <3>2. PICK file : file \in output[export[2]][export[1]]
      <4>1. export \in worker.exports
        BY <3>1
      <4>2. output[export[2]][export[1]] # {}
        BY <4>1 DEF Placed
      <4> QED
        BY <4>2
    <3> DEFINE row == [job |-> j, plugin |-> export[1], owner |-> export[2],
                       sha256 |-> worker.digest, fingerprint |-> worker.version,
                       output |-> file]
    <3>3. row \in Seen(j, export) /\ row.job = j
      BY <3>2 DEF Seen
    <3>4. row \in stored'
      BY <1>5, <2>1, <3>1, <3>3
    <3>5. Rows(j)' # {}
      BY <3>3, <3>4 DEF Rows
    <3> QED
      BY <1>5, <2>1, <3>5 DEF Truthful
  <2>2. CASE status \in {"FAILED", "CANCELLED", "UNAVAILABLE"}
    <3>1. Rows(j)' = {}
      BY <1>2, <1>5, <2>2 DEF Rows
    <3> QED
      BY <1>5, <2>2, <3>1 DEF Truthful
  <2>3. CASE status = "SUCCESS"
    BY <1>5, <2>3 DEF Truthful
  <2> QED
    BY <2>1, <2>2, <2>3 DEF Status
<1>7. /\ worker'.at = "publish" /\ worker'.runs = runs /\ worker'.outcome = {status}
      /\ worker'.published = 0
  BY <1>1, <1>5 DEF WorkerState
<1>8. OnTheWay(j)' /\ Undecided(j)'
  BY <1>1, <1>2, <1>4 DEF InHand, OnTheWay, Undecided
<1>9. Recorded(j)'
  BY <1>4, <1>8, NothingReported DEF Recorded, OnTheWay, Undecided, Terminal, Status
<1>10. /\ \A k \in 1..worker'.published : jobs'[j].plugins[k] = worker'.runs[k]
       /\ worker'.outcome = {status}
       /\ Truthful(status, StatesOf(worker'.runs), Rows(j)')
  BY <1>6, <1>7
<1> QED
  BY <1>7, <1>8, <1>9, <1>10 DEF InHand

\* Publishing gives one more plugin the status of its run.
LEMMA PublishKeeps ==
  ASSUME TypeOK, Placed, Unfinished, RecordsTrue, NEW j \in running, Publish(j)
  PROVE  Recorded(j)' /\ InHand(j)'
<1> DEFINE k == worker.published + 1
           record == [jobs[j] EXCEPT !.plugins[k] = worker.runs[k]]
<1>1. /\ j \in Job /\ worker \in WorkerState /\ worker.published \in Nat
      /\ worker.at = "publish" /\ k \in 1..Len(worker.runs)
      /\ Len(worker.runs) = Len(asked[j].plugins)
      /\ asked' = asked /\ stored' = stored
      /\ Update(j, record, [worker EXCEPT !.published = k])
  <2>1. worker.published < Len(worker.runs) /\ worker.published \in Nat /\ Len(worker.runs) \in Nat
    BY DEF Publish, TypeOK
  <2>2. worker.at = "publish" /\ Len(worker.runs) = Len(asked[j].plugins)
    BY DEF Publish, At, Placed
  <2> QED
    BY <2>1, <2>2 DEF TypeOK, WorkerState, Publish, At, Outside, results
<1>2. InHand(j) /\ Rows(j)' = Rows(j) /\ OnTheWay(j) /\ Undecided(j) /\ Recorded(j)
  BY <1>1 DEF Unfinished, InHand, Rows, RecordsTrue
<1>3. /\ jobs[j] \in JobRecord
      /\ jobs[j].plugins \in Seq(PluginStatus)
      /\ Len(jobs[j].plugins) = Len(worker.runs)
      /\ worker.runs[k] \in PluginStatus
  BY <1>1, <1>2 DEF TypeOK, JobRecord, OnTheWay, WorkerState, PluginStatus
<1>4. /\ record.status = jobs[j].status /\ record.report = {}
      /\ Len(record.plugins) = Len(asked[j].plugins)
      /\ record.plugins = [jobs[j].plugins EXCEPT ![k] = worker.runs[k]]
  BY <1>1, <1>2, <1>3 DEF JobRecord, Undecided
<1>5. \A l \in 1..k : record.plugins[l] = worker.runs[l]
  <2>1. \A l \in 1..worker.published : jobs[j].plugins[l] = worker.runs[l]
    BY <1>1, <1>2 DEF InHand
  <2>2. \A l \in 1..k : l \in 1..Len(jobs[j].plugins)
    BY <1>1, <1>3
  <2>3. record.plugins[k] = worker.runs[k]
    BY <1>1, <1>3, <1>4
  <2>4. \A l \in 1..worker.published : record.plugins[l] = jobs[j].plugins[l]
    BY <1>1, <1>3, <1>4, <2>2
  <2>5. \A l \in 1..k : l = k \/ l \in 1..worker.published
    BY <1>1
  <2> QED
    BY <2>1, <2>3, <2>4, <2>5
<1> HIDE DEF k, record
<1>6. /\ Saved(j, record) \/ Unsaved(j, record)
      /\ \/ worker' = [worker EXCEPT !.published = k]
         \/ worker' = [worker EXCEPT !.at = "fail"] /\ faults' = faults + 1
  BY <1>1 DEF Update, Raised, Unsaved
<1>7. /\ jobs'[j] = record
      /\ disk'[j] = record \/ disk'[j] = disk[j]
      /\ faults' = faults + 1 => faults' # 0
  <2>1. faults \in Nat
    BY DEF TypeOK
  <2>2. faults' = faults + 1 => faults' # 0
    BY <2>1
  <2> QED
    BY <1>1, <1>6, <2>2, SaveFrame
<1>8. OnTheWay(j)' /\ Undecided(j)'
  BY <1>1, <1>2, <1>4, <1>7 DEF OnTheWay, Undecided
<1>9. Recorded(j)'
  BY <1>7, <1>8, NothingReported DEF Recorded, OnTheWay, Undecided, Terminal, Status
<1>10. CASE worker' = [worker EXCEPT !.published = k]
  <2>1. /\ worker'.at = "publish" /\ worker'.runs = worker.runs
        /\ worker'.outcome = worker.outcome /\ worker'.published = k
    BY <1>1, <1>10 DEF WorkerState
  <2> QED
    BY <1>1, <1>2, <1>5, <1>7, <1>8, <1>9, <2>1 DEF InHand
<1>11. CASE worker' = [worker EXCEPT !.at = "fail"] /\ faults' = faults + 1
  <2>1. worker'.at = "fail" /\ faults' # 0
    BY <1>1, <1>7, <1>11 DEF WorkerState
  <2> QED
    BY <1>8, <1>9, <2>1 DEF InHand
<1> QED
  BY <1>6, <1>10, <1>11

\* A return with a true record, whether or not it can be saved.
LEMMA ReturnKeeps ==
  ASSUME TypeOK, Scheduled, Unfinished, RecordsTrue, NEW j \in running, NEW record,
         Return(j, record), UNCHANGED <<asked, stored>>,
         RecordTrue(record, j), Len(record.plugins) = Len(asked[j].plugins),
         record.status \in {"FAILED", "UNAVAILABLE"} => Rows(j) = {}
  PROVE  Recorded(j)' /\ (j \in running' => InHand(j)')
<1>1. j \in Job /\ worker \in WorkerState
  BY DEF TypeOK, WorkerState
<1>2. InHand(j) /\ OnTheWay(j) /\ Recorded(j) /\ Rows(j)' = Rows(j)
  BY <1>1 DEF Unfinished, InHand, Rows, RecordsTrue
<1>3. RecordTrue(record, j)' /\ RecordTrue(disk[j], j)
  BY <1>2 DEF RecordTrue, Recorded
<1>4. CASE Saved(j, record) /\ Leave
  <2>1. jobs'[j] = record /\ disk'[j] = record /\ running' = {}
    BY <1>1, <1>4 DEF TypeOK, Saved, Leave
  <2> QED
    BY <1>2, <1>3, <2>1 DEF Recorded, RecordTrue
<1>5. CASE Unsaved(j, record) /\ Raised
  <2>1. /\ jobs'[j] = record /\ disk' = disk /\ faults' # 0
        /\ worker' = [worker EXCEPT !.at = "fail"]
    BY <1>1, <1>5 DEF TypeOK, Unsaved, Raised
  <2>2. Recorded(j)'
    BY <1>2, <1>3, <2>1 DEF Recorded, RecordTrue
  <2>3. worker'.at = "fail"
    BY <1>1, <2>1 DEF WorkerState
  <2>4. OnTheWay(j)'
    BY <1>2, <2>1 DEF OnTheWay
  <2> QED
    BY <2>1, <2>2, <2>3, <2>4 DEF InHand
<1> QED
  BY <1>4, <1>5 DEF Return

\* The end of a job reports the outcome of its import: by then its plugins are
\* the runs.
LEMMA FinishKeeps ==
  ASSUME TypeOK, Scheduled, Placed, Unfinished, RecordsTrue, NEW j \in running, Finish(j)
  PROVE  Recorded(j)' /\ (j \in running' => InHand(j)')
<1>1. /\ j \in Job /\ worker \in WorkerState
      /\ worker.at = "publish" /\ worker.published = Len(worker.runs)
      /\ Len(worker.runs) = Len(asked[j].plugins)
      /\ worker.runs \in Seq(RunStatus)
      /\ asked' = asked /\ stored' = stored
  <2>1. worker.at = "publish" /\ Len(worker.runs) = Len(asked[j].plugins)
    BY DEF Finish, At, Placed
  <2> QED
    BY <2>1 DEF TypeOK, WorkerState, Finish, At, Outside, results
<1>2. /\ InHand(j) /\ OnTheWay(j)
      /\ jobs[j] \in JobRecord /\ jobs[j].plugins \in Seq(PluginStatus)
  BY <1>1 DEF Unfinished, InHand, TypeOK, JobRecord
<1>3. PICK status \in worker.outcome :
        Return(j, [jobs[j] EXCEPT
                     !.status = IF j \in cancelled THEN "CANCELLED" ELSE status,
                     !.report = worker.outcome])
  BY DEF Finish
<1>4. StatesOf(jobs[j].plugins) = StatesOf(worker.runs)
  <2>1. /\ DOMAIN jobs[j].plugins = 1..Len(worker.runs)
        /\ DOMAIN worker.runs = 1..Len(worker.runs)
    BY <1>1, <1>2, LenProperties DEF OnTheWay
  <2>2. \A k \in 1..Len(worker.runs) : jobs[j].plugins[k] = worker.runs[k]
    BY <1>1, <1>2 DEF InHand
  <2> QED
    BY <2>1, <2>2 DEF StatesOf
<1> DEFINE record == [jobs[j] EXCEPT
                        !.status = IF j \in cancelled THEN "CANCELLED" ELSE status,
                        !.report = worker.outcome]
<1>5. /\ record.plugins = jobs[j].plugins
      /\ record.status \in {status, "CANCELLED"}
      /\ record.report = worker.outcome
  BY <1>2 DEF JobRecord
<1> HIDE DEF record
<1>6. /\ worker.outcome = {status} 
      /\ Truthful(status, StatesOf(worker.runs), Rows(j))
  <2>1. PICK reported \in Status :
          /\ worker.outcome = {reported}
          /\ Truthful(reported, StatesOf(worker.runs), Rows(j))
    BY <1>1, <1>2 DEF InHand
  <2> QED
    BY <1>3, <2>1
<1>7. StatesOf(worker.runs) \cap {"PENDING", "RUNNING"} = {}
  BY <1>1, ElementOfSeq, LenProperties DEF StatesOf, RunStatus
<1>8. RecordTrue(record, j)
  <2>1. StatesOf(record.plugins) = StatesOf(worker.runs)
    BY <1>4, <1>5
  <2>2. \A report \in record.report : report = status
    BY <1>5, <1>6
  <2>3. ReportMatchesPlugins(record)
    <3>1. {record.plugins[k] : k \in DOMAIN record.plugins} = StatesOf(worker.runs)
      BY <2>1 DEF StatesOf
    <3>2. status = "SUCCESS" <=> StatesOf(worker.runs) = {"SUCCESS"}
      BY <1>6 DEF Truthful
    <3> QED
      BY <1>5, <1>7, <2>2, <3>1, <3>2 DEF ReportMatchesPlugins
  <2> QED
    BY <1>6, <2>1, <2>2, <2>3 DEF RecordTrue
<1>9. record.status \in {"FAILED", "UNAVAILABLE"} => Rows(j) = {}
  BY <1>5, <1>6 DEF Truthful
<1> QED
  BY <1>1, <1>2, <1>3, <1>5, <1>8, <1>9, ReturnKeeps DEF record, OnTheWay

\* The except clause records the failure; what was reported before stays true.
LEMMA FailKeeps ==
  ASSUME TypeOK, Unfinished, RecordsTrue, NEW j \in running, Fail(j)
  PROVE  Recorded(j)' /\ running' = {}
<1> DEFINE record == [jobs[j] EXCEPT !.status = "FAILED"]
<1>1. /\ j \in Job /\ worker.at = "fail" /\ running' = {} /\ stored' = stored
      /\ Saved(j, record) \/ Unsaved(j, record)
      /\ jobs[j] \in JobRecord
  BY DEF TypeOK, Fail, At, Leave, results
<1>2. InHand(j) /\ OnTheWay(j) /\ Recorded(j) /\ Rows(j)' = Rows(j)
  BY <1>1 DEF Unfinished, InHand, RecordsTrue, Rows
<1>3. /\ record.plugins = jobs[j].plugins
      /\ record.report = jobs[j].report
      /\ record.status = "FAILED"
  BY <1>1 DEF JobRecord
<1>4. /\ jobs'[j] = record
      /\ \/ disk'[j] = record /\ faults' = faults
         \/ disk'[j] = disk[j]
  BY <1>1, SaveFrame
<1> HIDE DEF record
<1>5. RecordTrue(jobs[j], j)'
  BY <1>2, <1>3, <1>4 DEF Recorded, RecordTrue, ReportMatchesPlugins
<1>6. disk'[j] = disk[j] \/ disk'[j] = jobs'[j]
  BY <1>4
<1>7. RecordTrue(disk[j], j)'
  BY <1>2, <1>5, <1>6 DEF Recorded, RecordTrue
<1>8. disk'[j].status \in {"FAILED", "UNAVAILABLE"} /\ faults' = 0 => Rows(j)' = {}
  BY <1>1, <1>2, <1>4 DEF InHand, OnTheWay, Terminal, Status
<1> QED
  BY <1>1, <1>5, <1>7, <1>8 DEF Recorded

\* Every move of the worker keeps what is known of its job.
LEMMA MoveKeeps ==
  ASSUME TypeOK, Scheduled, Placed, Unfinished, RecordsTrue, NEW j \in Job, Move(j)
  PROVE  (Unfinished /\ RecordsTrue)'
<1>1. /\ j \in running /\ worker \in WorkerState /\ worker.runs \in Seq(RunStatus)
      /\ jobs[j] \in JobRecord
      /\ UNCHANGED asked
      /\ InHand(j) /\ OnTheWay(j) /\ Recorded(j)
  <2>1. j \in running /\ UNCHANGED asked
    BY MoveFrame
  <2> QED
    BY <2>1 DEF TypeOK, WorkerState, Unfinished, InHand, RecordsTrue
<1> SUFFICES Recorded(j)' /\ (j \in running' => InHand(j)')
  BY OneJobMoves
<1>2. CASE HashCancelled(j)
  <2> DEFINE record == [jobs[j] EXCEPT !.status = "CANCELLED"]
  <2>1. worker.at = "hash" /\ Return(j, record) /\ stored' = stored
    BY <1>2 DEF HashCancelled, At, results
  <2>2. /\ record.report = {} /\ record.status = "CANCELLED"
        /\ Len(record.plugins) = Len(asked[j].plugins)
    BY <1>1, <2>1 DEF InHand, OnTheWay, Undecided, JobRecord
  <2> HIDE DEF record
  <2>3. RecordTrue(record, j)
    BY <2>2, NothingReported
  <2> QED
    BY <1>1, <2>1, <2>2, <2>3, ReturnKeeps
<1>3. CASE Prepare(j)
  <2> DEFINE record == [jobs[j] EXCEPT !.status = "RUNNING"]
  <2>1. worker.at = "hash" /\ stored' = stored
    BY <1>3 DEF Prepare, At, results
  <2>2. PICK digest \in (SUBSET worker.seen) \ {{}}, version \in Fingerprint \cup {None} :
          Update(j, record, [worker EXCEPT !.at = "plugin", !.digest = digest, !.seen = {},
                                           !.version = version])
    BY <1>3 DEF Prepare
  <2> DEFINE next == [worker EXCEPT !.at = "plugin", !.digest = digest, !.seen = {},
                                    !.version = version]
  <2>3. next \in WorkerState /\ next.at = "plugin"
    BY <1>1 DEF WorkerState
  <2>4. /\ record \in JobRecord /\ record.report = {} /\ record.status \notin Terminal
        /\ Len(record.plugins) = Len(asked[j].plugins)
    BY <1>1, <2>1 DEF InHand, OnTheWay, Undecided, JobRecord, JobStatus, Terminal, Status
  <2> HIDE DEF record, next
  <2> QED
    BY <1>1, <2>1, <2>2, <2>3, <2>4, UpdateKeeps DEF next
<1>4. ASSUME NEW k \in Nat, NEW state \in PluginStatus, NEW next \in WorkerState,
             Update(j, [jobs[j] EXCEPT !.plugins[k] = state], next),
             stored' = stored,
             worker.at \notin {"publish", "fail"}, next.at \notin {"publish", "fail"}
      PROVE  Recorded(j)' /\ InHand(j)'
  <2> DEFINE record == [jobs[j] EXCEPT !.plugins[k] = state]
  <2>1. /\ record \in JobRecord /\ record.report = {} /\ record.status \notin Terminal
        /\ Len(record.plugins) = Len(asked[j].plugins)
    BY ZenonT(60), <1>1, <1>4, RecordType DEF InHand, OnTheWay, Undecided
  <2> HIDE DEF record
  <2> QED
    BY <1>1, <1>4, <2>1, UpdateKeeps DEF record
<1>5. CASE PluginSkipped(j)
  <2>1. PICK status \in {"CANCELLED", "UNAVAILABLE"} :
          LET runs == Append(worker.runs, status)
          IN  Update(j, [jobs[j] EXCEPT !.plugins[Turn] = status],
                     [worker EXCEPT !.at = Loop(j, runs), !.runs = runs])
    BY <1>5 DEF PluginSkipped
  <2>2. Turn \in Nat /\ status \in PluginStatus /\ worker.at = "plugin" /\ stored' = stored
    BY <1>1, <1>5, LenProperties DEF Turn, PluginStatus, RunStatus, PluginSkipped, At, results
  <2>3. PICK runs \in Seq(RunStatus) : runs = Append(worker.runs, status)
    BY <1>1, AppendProperties DEF RunStatus
  <2>4. /\ [worker EXCEPT !.at = Loop(j, runs), !.runs = runs] \in WorkerState
        /\ [worker EXCEPT !.at = Loop(j, runs), !.runs = runs].at \in {"plugin", "import"}
    BY <1>1 DEF WorkerState, Loop
  <2> QED
    BY <1>4, <2>1, <2>2, <2>3, <2>4
<1>6. CASE PluginReused(j)
  <2>1. Turn \in Nat /\ Current(j) \in Plugin /\ worker.at = "plugin" /\ stored' = stored
    BY <1>1, <1>6, CurrentType, LenProperties DEF Turn, PluginReused, At, results
  <2>2. PICK entry \in manifest[worker.digest][Current(j)] :
          Update(j, [jobs[j] EXCEPT !.plugins[Turn] = "RUNNING"],
                 [worker EXCEPT !.at = "done",
                                !.runs = Append(@, "SUCCESS"),
                                !.exports = @ \cup {<<Current(j), entry.owner>>}])
    BY <1>6 DEF PluginReused
  <2>3. PICK runs \in Seq(RunStatus) : runs = Append(worker.runs, "SUCCESS")
    BY <1>1, AppendProperties DEF RunStatus
  <2>4. PICK exports \in SUBSET (Plugin \X Job) :
          exports = worker.exports \cup {<<Current(j), entry.owner>>}
    <3>1. entry \in Entry
      <4>1. manifest[worker.digest][Current(j)] \subseteq Entry
        BY ZenonT(60), <2>1 DEF TypeOK
      <4> QED
        BY <4>1
    <3>2. <<Current(j), entry.owner>> \in Plugin \X Job
      BY <2>1, <3>1 DEF Entry
    <3>3. worker.exports \subseteq Plugin \X Job
      BY <1>1 DEF WorkerState
    <3> QED
      BY <3>2, <3>3
  <2>5. /\ [worker EXCEPT !.at = "done", !.runs = runs, !.exports = exports] \in WorkerState
        /\ [worker EXCEPT !.at = "done", !.runs = runs, !.exports = exports].at = "done"
    BY <1>1 DEF WorkerState
  <2>6. "RUNNING" \in PluginStatus
    BY DEF PluginStatus
  <2>7. Update(j, [jobs[j] EXCEPT !.plugins[Turn] = "RUNNING"],
               [worker EXCEPT !.at = "done", !.runs = runs, !.exports = exports])
    BY <2>2, <2>3, <2>4
  <2> QED
    BY <1>4, <2>1, <2>5, <2>6, <2>7
<1>7. CASE PluginInvoked(j)
  <2>1. Turn \in Nat /\ worker.at = "plugin" /\ stored' = stored
    BY <1>1, <1>7, LenProperties DEF Turn, PluginInvoked, At, results
  <2>2. /\ [worker EXCEPT !.at = "child", !.seen = {image.content}] \in WorkerState
        /\ [worker EXCEPT !.at = "child", !.seen = {image.content}].at = "child"
    BY <1>1 DEF WorkerState, TypeOK
  <2>3. "RUNNING" \in PluginStatus
    BY DEF PluginStatus
  <2>4. Update(j, [jobs[j] EXCEPT !.plugins[Turn] = "RUNNING"],
               [worker EXCEPT !.at = "child", !.seen = {image.content}])
    BY <1>7 DEF PluginInvoked
  <2> QED
    BY <1>4, <2>1, <2>2, <2>3, <2>4
<1>8. CASE PluginDone(j)
  <2>1. /\ worker.at = "done" /\ stored' = stored
        /\ Len(worker.runs) \in Nat /\ Len(worker.runs) \in 1..Len(worker.runs)
    <3>1. worker.at = "done" /\ stored' = stored
      BY <1>8 DEF PluginDone, At, results
    <3>2. Len(worker.runs) \in 1..Len(asked[j].plugins) /\ Len(worker.runs) \in Nat
      BY <1>1, <3>1, LenProperties DEF Placed
    <3> QED
      BY <3>1, <3>2
  <2>2. worker.runs[Len(worker.runs)] \in PluginStatus
    BY <1>1, <2>1, ElementOfSeq DEF PluginStatus
  <2>3. /\ [worker EXCEPT !.at = Loop(j, worker.runs)] \in WorkerState
        /\ [worker EXCEPT !.at = Loop(j, worker.runs)].at \in {"plugin", "import"}
    BY <1>1 DEF WorkerState, Loop
  <2>4. Update(j, [jobs[j] EXCEPT !.plugins[Len(worker.runs)] = worker.runs[Len(worker.runs)]],
               [worker EXCEPT !.at = Loop(j, worker.runs)])
    BY <1>8 DEF PluginDone
  <2> QED
    BY <1>4, <2>1, <2>2, <2>3, <2>4
<1>9. CASE ChildFails(j) \/ ChildSucceeds(j) \/ KeepOutput(j) \/ Raise(j)
  <2>1. worker.at \notin {"publish", "fail"} /\ stored' = stored
    BY <1>9 DEF ChildFails, ChildSucceeds, KeepOutput, Raise, At, results
  <2>2. Advance(worker') /\ worker'.at # "publish"
    BY <1>1, <1>9 DEF ChildFails, ChildSucceeds, KeepOutput, Raise, Advance, WorkerState
  <2> QED
    BY <1>1, <2>1, <2>2, AdvanceKeeps
<1> QED
  BY <1>1, <1>2, <1>3, <1>5, <1>6, <1>7, <1>8, <1>9, ImportKeeps, PublishKeeps, FinishKeeps,
     FailKeeps
  DEF Move

LEMMA NextUnfinished ==
  TypeOK /\ Scheduled /\ Placed /\ Unfinished /\ RecordsTrue /\ [Next]_vars
  => (Unfinished /\ RecordsTrue)'
<1> SUFFICES ASSUME TypeOK, Scheduled, Placed, Unfinished, RecordsTrue, [Next]_vars
             PROVE  (Unfinished /\ RecordsTrue)'
  OBVIOUS
<1>1. /\ queue \in Seq(Job) /\ Waiting \subseteq Job /\ running \subseteq Job
      /\ worker \in WorkerState
  <2>1. queue \in Seq(Job)
    BY DEF TypeOK
  <2>2. Waiting \subseteq Job
    BY <2>1, LenProperties, ElementOfSeq DEF Waiting
  <2> QED
    BY <2>1, <2>2 DEF TypeOK, WorkerState
<1>2. ASSUME NEW j \in Job, NEW request \in JobRequest, Begin(j, request)
      PROVE  (Unfinished /\ RecordsTrue)'
  <2>1. /\ UNCHANGED <<running, worker, stored>>
        /\ asked[j] = NoRequest /\ asked' = [asked EXCEPT ![j] = request]
        /\ asked \in [Job -> JobRequest \cup {NoRequest}]
    BY <1>2 DEF Begin, results, TypeOK
  <2>2. /\ j \notin Waiting \cup running
        /\ Rows(j) = {} /\ disk[j] = NoJob
        /\ \A i \in Job : Rows(i)' = Rows(i)
    BY <2>1 DEF Scheduled, Rows
  <2>3. /\ \A i \in Job \ {j} : jobs'[i] = jobs[i] /\ disk'[i] = disk[i] /\ asked'[i] = asked[i]
        /\ asked'[j] = request
        /\ faults = 0 \/ faults' # 0
        /\ jobs'[j] = Pending(request)
        /\ disk'[j] = Pending(request) \/ disk'[j] = disk[j]
    BY <1>2, <2>1, SaveFrame DEF Begin
  <2>4. /\ Pending(request).report = {} /\ Pending(request).status = "PENDING"
        /\ NoJob.report = {} /\ NoJob.status = "NONE"
        /\ Len(Pending(request).plugins) = Len(request.plugins)
    <3>1. Len(request.plugins) \in Nat
      BY RequestType, LenProperties
    <3>2. Pending(request).plugins = [k \in 1..Len(request.plugins) |-> "PENDING"]
      BY DEF Pending, NoJob
    <3>3. Len(Pending(request).plugins) = Len(request.plugins)
      BY <3>1, <3>2
    <3> QED
      BY <3>3 DEF Pending, NoJob
  <2>5. \/ Waiting' = Waiting
        \/ Waiting' = Waiting \cup {j} /\ disk'[j] = Pending(request)
    <3>1. CASE Saved(j, Pending(request)) /\ queue' = Append(queue, j)
      <4>1. Waiting' = Waiting \cup {j}
        BY <1>1, <2>2, <3>1, QueueGrows DEF Scheduled, Distinct
      <4>2. disk'[j] = Pending(request)
        BY <3>1 DEF Saved, TypeOK
      <4> QED
        BY <4>1, <4>2
    <3>2. CASE queue' = queue
      BY <3>2 DEF Waiting
    <3> QED
      BY <1>2, <3>1, <3>2 DEF Begin
  <2>6. Undecided(j)' /\ disk'[j].report = {}
        /\ disk'[j].status \notin Terminal /\ Len(jobs'[j].plugins) = Len(asked'[j].plugins)
    BY <2>2, <2>3, <2>4 DEF Undecided, Terminal, Status
  <2>7. Recorded(j)'
    BY <2>2, <2>6, NothingReported DEF Recorded, Undecided
  <2>8. \A i \in Job \ {j} : Recorded(i)'
    BY <2>2, <2>3 DEF RecordsTrue, Recorded, RecordTrue
  <2>9. \A i \in Waiting' : OnTheWay(i)' /\ Undecided(i)' /\ Rows(i)' = {}
    BY <1>1, <2>2, <2>3, <2>5, <2>6 DEF Unfinished, OnTheWay, Undecided
  <2>10. \A i \in running' : InHand(i)'
    BY <1>1, <2>1, <2>2, <2>3 DEF Unfinished, InHand, OnTheWay, Undecided
  <2> QED
    BY <2>7, <2>8, <2>9, <2>10 DEF Unfinished, RecordsTrue
<1>3. ASSUME NEW j \in Job, BeginHash(j)
      PROVE  (Unfinished /\ RecordsTrue)'
  <2> DEFINE record == [jobs[j] EXCEPT !.status = "HASHING"]
  <2>1. /\ running = {} /\ running' = {j} /\ queue # <<>>
        /\ j = Head(queue) /\ queue' = Tail(queue)
        /\ UNCHANGED <<asked, stored>>
        /\ Saved(j, record) \/ Unsaved(j, record)
        /\ \/ worker'.at = "hash"
           \/ worker'.at = "fail" /\ faults' = faults + 1
    BY <1>3 DEF BeginHash, Outside, results, Idle, Unsaved
  <2>2. Waiting' = Waiting \ {j} /\ j \in Waiting
    BY <1>1, <2>1, QueueShrinks DEF Scheduled, Distinct
  <2>3. OnTheWay(j) /\ Undecided(j) /\ Rows(j) = {} /\ \A i \in Job : Rows(i)' = Rows(i)
    BY <2>1, <2>2 DEF Unfinished, Rows
  <2>4. /\ \A i \in Job \ {j} : jobs'[i] = jobs[i] /\ disk'[i] = disk[i]
        /\ faults = 0 \/ faults' # 0
        /\ jobs'[j] = record
        /\ disk'[j] = record \/ disk'[j] = disk[j]
    BY <2>1, SaveFrame
  <2>5. /\ record.report = {} /\ record.status = "HASHING"
        /\ Len(record.plugins) = Len(asked[j].plugins)
    BY <2>3 DEF TypeOK, JobRecord, OnTheWay, Undecided
  <2> HIDE DEF record
  <2>6. OnTheWay(j)' /\ Undecided(j)'
    BY <2>1, <2>3, <2>4, <2>5 DEF OnTheWay, Undecided, Terminal, Status
  <2>7. Recorded(j)'
    BY <2>3, <2>6, NothingReported DEF Recorded, OnTheWay, Undecided
  <2>8. \A i \in Job \ {j} : Recorded(i)'
    BY <2>3, <2>4 DEF RecordsTrue, Recorded, RecordTrue
  <2>9. InHand(j)'
    BY <2>1, <2>3, <2>6 DEF InHand
  <2>10. \A i \in Waiting' : OnTheWay(i)' /\ Undecided(i)' /\ Rows(i)' = {}
    BY <1>1, <2>1, <2>2, <2>3, <2>4 DEF Unfinished, OnTheWay, Undecided
  <2> QED
    BY <2>1, <2>7, <2>8, <2>9, <2>10 DEF Unfinished, RecordsTrue
<1>4. CASE Vanish
  <2>1. /\ queue' = <<>> /\ DOMAIN queue' = {} /\ running' = {}
        /\ jobs' = [i \in Job |-> NoJob] /\ disk' = disk /\ stored' = stored /\ faults' = faults
    BY <1>4 DEF Vanish, Leave, results
  <2>2. Waiting' = {} /\ \A i \in Job : Rows(i)' = Rows(i)
    BY <2>1 DEF Waiting, Rows
  <2>3. \A i \in Job : jobs'[i].report = {}
    BY <2>1 DEF NoJob
  <2>4. \A i \in Job : RecordTrue(jobs[i], i)'
    BY <2>3, NothingReported
  <2> QED
    BY <2>1, <2>2, <2>4 DEF Unfinished, RecordsTrue, Recorded, RecordTrue
<1>5. CASE Open
  <2>1. /\ session = "down" /\ queue' = <<>> /\ DOMAIN queue' = {} /\ running' = {}
        /\ disk' = [i \in Job |-> Reopen(disk[i])] /\ jobs' = disk'
        /\ stored' = stored /\ faults' = faults
    BY <1>5 DEF Open, results, Scheduled
  <2>2. Waiting' = {} /\ \A i \in Job : Rows(i)' = Rows(i)
    BY <2>1 DEF Waiting, Rows
  <2>3. ASSUME NEW i \in Job
        PROVE  Recorded(i)'
    <3>1. /\ disk'[i].plugins = disk[i].plugins /\ disk'[i].report = disk[i].report
          /\ disk'[i].status \in {disk[i].status, "CANCELLED"}
          /\ jobs'[i] = disk'[i]
      BY <2>1 DEF Reopen, TypeOK, JobRecord
    <3>2. Recorded(i)
      BY DEF RecordsTrue
    <3>3. RecordTrue(disk[i], i)'
      BY SMTT(60), <2>2, <3>1, <3>2 DEF Recorded, RecordTrue, ReportMatchesPlugins
    <3>4. RecordTrue(jobs[i], i)'
      BY <3>1, <3>3 DEF RecordTrue
    <3> QED
      BY <2>1, <2>2, <3>1, <3>2, <3>3, <3>4 DEF Recorded
  <2> QED
    BY <2>1, <2>2, <2>3 DEF Unfinished, RecordsTrue
<1>6. CASE /\ UNCHANGED <<jobs, disk, asked, queue, running, stored, manifest, faults>>
           /\ ModifyImage \/ worker' = worker
  <2>1. /\ worker'.at = worker.at /\ worker'.runs = worker.runs
        /\ worker'.outcome = worker.outcome /\ worker'.published = worker.published
    BY <1>1, <1>6 DEF ModifyImage, WorkerState
  <2>2. Waiting' = Waiting /\ \A i \in Job : Rows(i)' = Rows(i)
    BY <1>6 DEF Waiting, Rows
  <2>3. \A i \in Job : Recorded(i)'
    BY <1>6, <2>2 DEF RecordsTrue, Recorded, RecordTrue
  <2>4. \A i \in running : InHand(i)'
    BY <1>1, <1>6, <2>1, <2>2 DEF Unfinished, InHand, OnTheWay, Undecided
  <2> QED
    BY <1>1, <1>6, <2>2, <2>3, <2>4 DEF Unfinished, RecordsTrue, OnTheWay, Undecided
<1> QED
  BY <1>2, <1>3, <1>4, <1>5, <1>6, MoveKeeps, OtherSteps

\* What is known of the jobs, in one invariant.
IInv == TypeOK /\ Scheduled /\ Placed /\ Unfinished /\ RecordsTrue

LEMMA IInvHolds == Spec => []IInv
<1>1. Init => IInv
  BY InitTypeOK, InitScheduled, InitUnfinished DEF IInv
<1>2. IInv /\ [Next]_vars => IInv'
  BY NextTypeOK, NextScheduled, NextPlaced, NextUnfinished DEF IInv
<1> QED
  BY <1>1, <1>2, PTL DEF Spec

\* A report tells what happened to the plugins of its job, in the dictionary and
\* in the manifest, whatever was cancelled, could not be saved or crashed.
THEOREM ReportsAreTrue == Spec => []ReportsMatchPlugins
<1>1. IInv => ReportsMatchPlugins
  BY DEF IInv, RecordsTrue, Recorded, RecordTrue, ReportsMatchPlugins
<1> QED
  BY <1>1, IInvHolds, PTL

\* A recorded report of evidence has rows in the repository; one of failure, absence or
\* cancellation has none, and neither has a job recorded as FAILED unless a
\* manifest could not be saved.
THEOREM OutcomesAreTrue == Spec => []OutcomesMatchEvidence
<1>1. IInv => OutcomesMatchEvidence
  BY DEF IInv, RecordsTrue, Recorded, RecordTrue, Truthful, Rows, OutcomesMatchEvidence
<1> QED
  BY <1>1, IInvHolds, PTL

\* A manifest that records an outcome is never rewritten.
THEOREM OutcomesAreFinal == Spec => RecordedOutcomeIsFinal
<1>1. IInv /\ [Next]_vars =>
        [\A j \in Job : disk[j].status \in Terminal => disk'[j] = disk[j]]_vars
  <2> SUFFICES ASSUME IInv, [Next]_vars, NEW i \in Job, disk[i].status \in Terminal
               PROVE  disk'[i] = disk[i]
    OBVIOUS
  <2> USE DEF IInv
  <2>1. ASSUME NEW j \in Job, NEW request \in JobRequest, Begin(j, request)
        PROVE  disk'[i] = disk[i]
    <3>1. disk[j] = NoJob
      BY <2>1 DEF Begin, Scheduled
    <3>2. i # j
      BY <3>1 DEF NoJob, Terminal, Status
    <3> QED
      BY <2>1, <3>2, SaveFrame DEF Begin
  <2>2. ASSUME NEW j \in Job, BeginHash(j)
        PROVE  disk'[i] = disk[i]
    <3>1. j \in Waiting
      BY <2>2, QueueShrinks DEF BeginHash, TypeOK, Scheduled, Distinct
    <3>2. i # j
      BY <3>1 DEF Unfinished, OnTheWay
    <3> QED
      BY <2>2, <3>2, SaveFrame DEF BeginHash
  <2>3. ASSUME NEW j \in Job, Move(j)
        PROVE  disk'[i] = disk[i]
    <3>1. j \in running
      BY <2>3, MoveFrame
    <3>2. i # j
      BY <3>1 DEF Unfinished, InHand, OnTheWay
    <3> QED
      BY <2>3, <3>2, MoveFrame
  <2>4. CASE Open
    BY <2>4 DEF Open, Reopen, Ended
  <2>5. CASE Vanish \/ disk' = disk
    BY <2>5 DEF Vanish
  <2> QED
    BY <2>1, <2>2, <2>3, <2>4, <2>5, OtherSteps
<1> QED
  BY <1>1, IInvHolds, PTL DEF Spec, RecordedOutcomeIsFinal

-----------------------------------------------------------------------------
(***************************************************************************)
(* Provenance.  A file that is written while it is read gives a hash and   *)
(* plugin outputs of any mixture of its contents; two comparisons protect  *)
(* the case from that: the time stamp before the import, and the hash a    *)
(* cached output is looked up by.  They are enough as long as no write     *)
(* gives the image a content it had before.                                *)
(***************************************************************************)

\* A write to the image raises the rank of its content.
NeverRegained(rank) ==
  /\ rank \in [Content -> Nat]
  /\ \A edit \in Edit : Before(rank, edit[1], edit[2])

LEMMA BeforeIsTransitive ==
  ASSUME NEW rank \in [Content -> Nat], NEW x \in Content, NEW y \in Content, NEW z \in Content
  PROVE  /\ Before(rank, x, y) /\ Before(rank, y, z) => Before(rank, x, z)
         /\ Before(rank, x, y) /\ Before(rank, y, z) /\ x # y => rank[x] < rank[z]
         /\ rank[x] < rank[y] /\ Before(rank, y, z) => rank[x] < rank[z]
         /\ ~(rank[x] < rank[x])
<1>1. rank[x] \in Nat /\ rank[y] \in Nat /\ rank[z] \in Nat
  OBVIOUS
<1> QED
  BY <1>1 DEF Before

LEMMA InitTraced ==
  ASSUME NEW CONSTANT rank, Init
  PROVE  Traced(rank)
<1>1. \A c \in Content, p \in Plugin : manifest[{c}][p] = {}
  BY DEF Init
<1> QED
  BY <1>1 DEF Init, Traced, CacheTraced

\* A step that reads nothing, or begins to read, keeps what is known.
LEMMA LightMove ==
  ASSUME TypeOK, NEW CONSTANT rank, Traced(rank), NEW j \in running,
         UNCHANGED <<image, manifest, asked, output>>,
         worker'.before = worker.before, worker'.digest = worker.digest,
         worker'.version = worker.version, worker'.exports = worker.exports,
         worker'.seen \in {worker.seen, {}, {image.content}},
         worker'.at \notin {"hash", "keep"},
         worker.at \notin {"hash", "fail"} \/ worker'.at = "fail"
  PROVE  Traces(rank, j)' /\ CacheTraced(rank)'
<1>1. Traces(rank, j) /\ CacheTraced(rank)
  BY DEF Traced
<1>2. CacheTraced(rank)'
  BY <1>1 DEF CacheTraced
<1>3. ReadAsHashed(j)'
  BY <1>1 DEF Traces, ReadAsHashed
<1>4. ReadInOrder(rank, j)'
  <2>1. \A x \in worker'.seen : Before(rank, x, image.content)
    BY <1>1 DEF Traces, ReadInOrder, Before
  <2>2. \A x \in worker.digest, y \in worker'.seen : Before(rank, x, y)
    BY <1>1 DEF Traces, ReadInOrder
  <2> QED
    BY <1>1, <2>1, <2>2 DEF Traces, ReadInOrder, Before
<1>5. KeptInOrder(rank, j)'
  BY DEF KeptInOrder
<1>6. OwnExports(j)'
  BY <1>1 DEF Traces, OwnExports
<1> QED
  BY <1>2, <1>3, <1>4, <1>5, <1>6 DEF Traces

\* The hash is made of what the image held while it was read.
LEMMA PrepareTraces ==
  ASSUME TypeOK, NEW CONSTANT rank, Traced(rank), NEW j \in running,
         worker.at = "hash",
         NEW digest \in (SUBSET worker.seen) \ {{}}, NEW version,
         worker' = [worker EXCEPT !.at = "plugin", !.digest = digest, !.seen = {},
                                  !.version = version],
         UNCHANGED <<image, manifest, asked, output>>
  PROVE  Traces(rank, j)' /\ CacheTraced(rank)'
<1>1. Traces(rank, j) /\ CacheTraced(rank)
  BY DEF Traced
<1>2. /\ worker'.at = "plugin" /\ worker'.digest = digest /\ worker'.seen = {}
      /\ worker'.before = worker.before /\ worker'.exports = worker.exports
      /\ worker.exports = {}
  BY <1>1 DEF TypeOK, Traces, ReadInOrder
<1>3. CacheTraced(rank)'
  BY <1>1 DEF CacheTraced
<1>4. ReadAsHashed(j)'
  BY <1>1, <1>2 DEF Traces, ReadAsHashed
<1>5. ReadInOrder(rank, j)'
  <2>1. digest \subseteq worker.seen /\ digest # {}
    OBVIOUS
  <2>2. \A x \in digest : Before(rank, x, image.content)
    BY <1>1, <2>1 DEF Traces, ReadInOrder
  <2> QED
    BY <1>1, <1>2, <2>1, <2>2 DEF Traces, ReadInOrder, Before
<1>6. KeptInOrder(rank, j)' /\ OwnExports(j)'
  BY <1>2 DEF KeptInOrder, OwnExports
<1> QED
  BY <1>3, <1>4, <1>5, <1>6 DEF Traces

\* An output taken from the cache is of the content that was hashed, or the image is
\* no longer what it was.
LEMMA ReuseTraces ==
  ASSUME TypeOK, Placed, NEW CONSTANT rank, NeverRegained(rank), Traced(rank), NEW j \in running,
         worker.at = "plugin",
         NEW entry \in manifest[worker.digest][Current(j)], Reusable(j, entry),
         NEW runs,
         worker' = [worker EXCEPT !.at = "done", !.runs = runs,
                                  !.exports = @ \cup {<<Current(j), entry.owner>>}],
         UNCHANGED <<image, manifest, asked, output>>
  PROVE  Traces(rank, j)' /\ CacheTraced(rank)'
<1>1. /\ Traces(rank, j) /\ CacheTraced(rank)
      /\ Current(j) \in Plugin
      /\ worker.digest \in SUBSET Content /\ worker.digest # {}
      /\ image.content \in Content
  BY CurrentType DEF Traced, TypeOK, Traces, ReadInOrder
<1> DEFINE export == <<Current(j), entry.owner>>
<1>2. /\ export[1] = Current(j) /\ export[2] = entry.owner
      /\ output[export[2]][export[1]] = {entry.sum}
      /\ entry.fingerprint = worker.version
      /\ ~asked[j].rerun
  BY DEF Reusable
<1>3. worker.before = image.mtime =>
        entry.sum = [from |-> worker.digest, made |-> worker.version]
  <2> SUFFICES ASSUME worker.before = image.mtime
               PROVE  entry.sum = [from |-> worker.digest, made |-> worker.version]
    OBVIOUS
  <2>1. worker.digest = {image.content}
    BY <1>1 DEF Traces, ReadAsHashed
  <2>2. ~(rank[image.content] < rank[image.content])
    BY <1>1, BeforeIsTransitive DEF NeverRegained
  <2> QED
    BY <1>1, <1>2, <2>1, <2>2 DEF CacheTraced
<1> HIDE DEF export
<1>4. /\ worker'.at = "done" /\ worker'.digest = worker.digest /\ worker'.seen = worker.seen
      /\ worker'.before = worker.before /\ worker'.version = worker.version
      /\ worker'.exports = worker.exports \cup {export}
  BY DEF TypeOK, export
<1>5. CacheTraced(rank)'
  BY <1>1 DEF CacheTraced
<1>6. ReadAsHashed(j)'
  BY <1>1, <1>2, <1>3, <1>4 DEF Traces, ReadAsHashed
<1>7. ReadInOrder(rank, j)'
  BY <1>1, <1>4 DEF Traces, ReadInOrder, Before
<1>8. KeptInOrder(rank, j)' /\ OwnExports(j)'
  BY <1>2, <1>4 DEF KeptInOrder, OwnExports
<1> QED
  BY <1>5, <1>6, <1>7, <1>8 DEF Traces

\* What the child wrote is of the contents the image had while it ran.
LEMMA SuccessTraces ==
  ASSUME TypeOK, Placed, NEW CONSTANT rank, Traced(rank), NEW j \in running, ChildSucceeds(j)
  PROVE  Traces(rank, j)' /\ CacheTraced(rank)'
<1>1. /\ Traces(rank, j) /\ CacheTraced(rank)
      /\ j \in Job /\ worker \in WorkerState
      /\ output \in [Job -> [Plugin -> SUBSET Output]]
      /\ worker.at = "child"
      /\ UNCHANGED <<image, manifest, asked>>
      /\ worker' = [worker EXCEPT !.at = "keep", !.seen = {}]
  BY DEF Traced, TypeOK, WorkerState, ChildSucceeds, At, Outside, Advance
<1>2. Current(j) \in Plugin
  BY <1>1, CurrentType
<1>3. PICK from \in (SUBSET worker.seen) \ {{}} :
        output' = [output EXCEPT ![j][Current(j)] = {[from |-> from, made |-> worker.version]}]
  BY DEF ChildSucceeds
<1>4. /\ worker'.at = "keep" /\ worker'.digest = worker.digest /\ worker'.seen = {}
      /\ worker'.before = worker.before /\ worker'.version = worker.version
      /\ worker'.exports = worker.exports /\ worker'.runs = worker.runs
  BY <1>1 DEF WorkerState
<1> DEFINE made == [from |-> from, made |-> worker.version]
<1>5. /\ output'[j][Current(j)] = {made}
      /\ \A i \in Job, p \in Plugin :
           output'[i][p] = output[i][p] \/ output'[i][p] = {made}
  BY <1>1, <1>2, <1>3
<1>6. /\ made.from = from /\ made.made = worker.version
      /\ from \subseteq worker.seen /\ from # {}
  OBVIOUS
<1>7. worker.before = image.mtime => made = [from |-> worker.digest, made |-> worker.version]
  <2> SUFFICES ASSUME worker.before = image.mtime
               PROVE  from = worker.digest
    OBVIOUS
  <2>1. worker.digest # {}
    BY <1>1 DEF Traces, ReadInOrder
  <2>2. worker.digest \subseteq {image.content} /\ worker.seen \subseteq {image.content}
    BY <1>1 DEF Traces, ReadAsHashed
  <2> QED
    BY <1>6, <2>1, <2>2
<1> HIDE DEF made
<1>8. CacheTraced(rank)'
  BY <1>1 DEF CacheTraced
<1>9. ReadAsHashed(j)'
  <2>1. \A export \in worker.exports : export[1] \in Plugin /\ export[2] \in Job
    BY <1>1 DEF WorkerState
  <2>2. worker.before = image.mtime =>
          /\ worker.digest \subseteq {image.content}
          /\ \A export \in worker.exports : \A file \in output'[export[2]][export[1]] :
               file = [from |-> worker.digest, made |-> worker.version]
    BY <1>1, <1>5, <1>7, <2>1 DEF Traces, ReadAsHashed
  <2> QED
    BY <1>1, <1>4, <2>2 DEF ReadAsHashed
<1>10. ReadInOrder(rank, j)'
  BY <1>1, <1>4 DEF Traces, ReadInOrder, Before
<1>11. KeptInOrder(rank, j)'
  <2>1. Current(j)' = Current(j)
    BY <1>1, <1>4 DEF Current, Turn
  <2>2. /\ \A y \in from : Before(rank, y, image.content)
        /\ \A x \in worker.digest, y \in from : Before(rank, x, y)
        /\ from # {}
    BY <1>1, <1>6 DEF Traces, ReadInOrder
  <2>3. worker.before = image.mtime => from = worker.digest
    BY <1>6, <1>7
  <2> QED
    BY <1>1, <1>4, <1>5, <1>6, <2>1, <2>2, <2>3 DEF KeptInOrder, Before
<1>12. OwnExports(j)'
  BY <1>1, <1>4 DEF Traces, OwnExports
<1> QED
  BY <1>8, <1>9, <1>10, <1>11, <1>12 DEF Traces

\* An output enters the cache under the hash of its own content, or the image has
\* moved on since it was hashed.
LEMMA KeepTraces ==
  ASSUME TypeOK, Placed, NEW CONSTANT rank, NeverRegained(rank), Traced(rank), NEW j \in running,
         KeepOutput(j)
  PROVE  Traces(rank, j)' /\ CacheTraced(rank)'
<1>1. /\ Traces(rank, j) /\ CacheTraced(rank)
      /\ j \in Job /\ worker \in WorkerState
      /\ image.content \in Content
      /\ output \in [Job -> [Plugin -> SUBSET Output]]
      /\ manifest \in [SUBSET Content -> [Plugin -> SUBSET Entry]]
      /\ worker.at = "keep"
      /\ UNCHANGED <<image, output, asked>>
  BY DEF Traced, TypeOK, WorkerState, KeepOutput, At, Outside
<1>2. Current(j) \in Plugin
  BY <1>1, CurrentType
<1>3. PICK sum \in output[j][Current(j)] :
        manifest' = [manifest EXCEPT ![worker.digest][Current(j)] =
                       {[owner |-> j, fingerprint |-> worker.version, sum |-> sum]}]
  BY DEF KeepOutput
<1>4. /\ sum \in Output
      /\ sum.made = worker.version
      /\ sum.from \in SUBSET Content /\ sum.from # {}
      /\ \A y \in sum.from : Before(rank, y, image.content)
      /\ \A x \in worker.digest, y \in sum.from : Before(rank, x, y)
      /\ worker.before = image.mtime => sum.from = worker.digest
  <2>1. sum \in Output
    BY <1>1, <1>2, <1>3
  <2> QED
    BY <1>1, <1>3, <2>1 DEF Traces, KeptInOrder, Output
<1>5. sum = [from |-> sum.from, made |-> worker.version]
  BY <1>4 DEF Output
<1> DEFINE export == <<Current(j), j>>
<1>6. /\ worker'.at = "done" /\ worker'.digest = worker.digest /\ worker'.seen = worker.seen
      /\ worker'.before = worker.before /\ worker'.version = worker.version
      /\ worker'.exports = worker.exports \cup {export}
  <2>1. worker' = [worker EXCEPT !.at = "done", !.runs = Append(@, "SUCCESS"),
                                 !.exports = @ \cup {<<Current(j), j>>}]
    BY DEF KeepOutput, Advance
  <2> QED
    BY <1>1, <2>1 DEF WorkerState
<1>7. CacheTraced(rank)'
  <2> SUFFICES ASSUME NEW c \in Content, NEW p \in Plugin, NEW entry \in manifest'[{c}][p]
               PROVE  \/ entry.sum = [from |-> {c}, made |-> entry.fingerprint]
                      \/ rank[c] < rank[image.content]
    BY <1>1 DEF CacheTraced
  <2>1. CASE entry \in manifest[{c}][p]
    BY <1>1, <2>1 DEF CacheTraced
  <2>2. CASE entry \notin manifest[{c}][p]
    <3>1. /\ {c} = worker.digest
          /\ entry = [owner |-> j, fingerprint |-> worker.version, sum |-> sum]
      BY <1>1, <1>2, <1>3, <2>2
    <3>2. CASE sum.from = {c}
      BY <1>5, <3>1, <3>2
    <3>3. CASE sum.from # {c}
      <4>1. PICK y \in sum.from : y # c
        BY <1>4, <3>3
      <4>2. y \in Content /\ Before(rank, c, y) /\ Before(rank, y, image.content)
        BY <1>4, <3>1, <4>1
      <4> QED
        BY <1>1, <4>1, <4>2, BeforeIsTransitive DEF NeverRegained
    <3> QED
      BY <3>2, <3>3
  <2> QED
    BY <2>1, <2>2
<1>8. ReadAsHashed(j)'
  <2>1. worker.before = image.mtime =>
          /\ worker.digest \cup worker.seen \subseteq {image.content}
          /\ \A x \in worker.exports \cup {export} : \A file \in output[x[2]][x[1]] :
               file = [from |-> worker.digest, made |-> worker.version]
    <3> SUFFICES ASSUME worker.before = image.mtime
                 PROVE  /\ worker.digest \cup worker.seen \subseteq {image.content}
                        /\ \A x \in worker.exports \cup {export} :
                             \A file \in output[x[2]][x[1]] :
                               file = [from |-> worker.digest, made |-> worker.version]
      OBVIOUS
    <3>1. \A file \in output[j][Current(j)] :
            /\ file \in Output
            /\ file.made = worker.version /\ file.from = worker.digest
      BY <1>1, <1>2 DEF Traces, KeptInOrder
    <3>2. \A file \in output[j][Current(j)] :
            file = [from |-> worker.digest, made |-> worker.version]
      BY <3>1 DEF Output
    <3> QED
      BY <1>1, <3>2 DEF Traces, ReadAsHashed
  <2> HIDE DEF export
  <2> QED
    BY <1>1, <1>6, <2>1 DEF ReadAsHashed
<1>9. ReadInOrder(rank, j)'
  <2> HIDE DEF export
  <2>1. /\ worker'.at = "done" /\ worker'.digest = worker.digest
        /\ worker'.seen = worker.seen /\ worker'.before = worker.before
    BY <1>6
  <2>2. ReadInOrder(rank, j) /\ worker.at = "keep" /\ image' = image
    BY <1>1 DEF Traces
  <2> QED
    BY <2>1, <2>2 DEF ReadInOrder, Before
<1>10. KeptInOrder(rank, j)'
  BY <1>6 DEF KeptInOrder
<1>11. OwnExports(j)'
  <2>1. export[2] = j
    OBVIOUS
  <2> HIDE DEF export
  <2> QED
    BY <1>1, <1>6, <2>1 DEF Traces, OwnExports
<1> QED
  BY <1>7, <1>8, <1>9, <1>10, <1>11 DEF Traces

\* Every move of the worker keeps the provenance of what it holds.
LEMMA MoveTraces ==
  ASSUME TypeOK, Scheduled, Placed, NEW CONSTANT rank, NeverRegained(rank), Traced(rank),
         NEW j \in Job, Move(j)
  PROVE  Traced(rank)'
<1>1. /\ j \in running /\ running = {j}
      /\ running' = {j} \/ running' = {}
      /\ UNCHANGED <<image, asked>>
      /\ worker \in WorkerState /\ worker.runs \in Seq(RunStatus)
  <2>1. j \in running /\ (running' = running \/ running' = {}) /\ UNCHANGED <<image, asked>>
    BY MoveFrame
  <2>2. running = {j}
    BY <2>1 DEF Scheduled
  <2> QED
    BY <2>1, <2>2 DEF TypeOK, WorkerState
<1> SUFFICES CacheTraced(rank)' /\ (running' = {} \/ Traces(rank, j)')
  BY <1>1 DEF Traced
<1>2. ASSUME Leave, UNCHANGED manifest
      PROVE  running' = {} /\ CacheTraced(rank)'
  BY <1>1, <1>2 DEF Leave, Traced, CacheTraced
<1>3. ASSUME worker' = [worker EXCEPT !.at = "fail"], UNCHANGED <<output, manifest>>
      PROVE  Traces(rank, j)' /\ CacheTraced(rank)'
  <2>1. /\ worker'.at = "fail" /\ worker'.before = worker.before /\ worker'.digest = worker.digest
        /\ worker'.version = worker.version /\ worker'.exports = worker.exports
        /\ worker'.seen = worker.seen
    BY <1>1, <1>3 DEF WorkerState
  <2> QED
    BY <1>1, <1>3, <2>1, LightMove
<1>4. CASE HashCancelled(j) \/ Finish(j) \/ Fail(j) \/ Raise(j)
  <2>1. UNCHANGED <<output, manifest>>
    BY <1>4 DEF HashCancelled, Finish, Fail, Raise, results
  <2>2. Leave \/ worker' = [worker EXCEPT !.at = "fail"]
    BY <1>4 DEF HashCancelled, Finish, Fail, Raise, Return, Raised, Advance
  <2> QED
    BY <1>2, <1>3, <2>1, <2>2
<1>5. CASE Prepare(j)
  <2>1. worker.at = "hash" /\ UNCHANGED <<output, manifest>>
    BY <1>5 DEF Prepare, At, results
  <2>2. PICK digest \in (SUBSET worker.seen) \ {{}}, version \in Fingerprint \cup {None} :
          Update(j, [jobs[j] EXCEPT !.status = "RUNNING"],
                 [worker EXCEPT !.at = "plugin", !.digest = digest, !.seen = {},
                                !.version = version])
    BY <1>5 DEF Prepare
  <2>3. \/ worker' = [worker EXCEPT !.at = "plugin", !.digest = digest, !.seen = {},
                                    !.version = version]
        \/ worker' = [worker EXCEPT !.at = "fail"]
    BY <2>2, UpdateStep
  <2> QED
    BY <1>1, <1>3, <2>1, <2>3, PrepareTraces
<1>6. CASE PluginReused(j)
  <2>1. worker.at = "plugin" /\ UNCHANGED <<output, manifest>>
    BY <1>6 DEF PluginReused, At, results
  <2>2. PICK entry \in manifest[worker.digest][Current(j)] :
          /\ Reusable(j, entry)
          /\ Update(j, [jobs[j] EXCEPT !.plugins[Turn] = "RUNNING"],
                    [worker EXCEPT !.at = "done",
                                   !.runs = Append(@, "SUCCESS"),
                                   !.exports = @ \cup {<<Current(j), entry.owner>>}])
    BY <1>6 DEF PluginReused
  <2>3. PICK runs : runs = Append(worker.runs, "SUCCESS")
    OBVIOUS
  <2>4. \/ worker' = [worker EXCEPT !.at = "done", !.runs = runs,
                                    !.exports = @ \cup {<<Current(j), entry.owner>>}]
        \/ worker' = [worker EXCEPT !.at = "fail"]
    BY <2>2, <2>3, UpdateStep
  <2>5. Reusable(j, entry)
    BY <2>2
  <2> QED
    BY <1>1, <1>3, <2>1, <2>4, <2>5, ReuseTraces
<1>7. CASE ChildSucceeds(j)
  BY <1>1, <1>7, SuccessTraces
<1>8. CASE KeepOutput(j)
  BY <1>1, <1>8, KeepTraces
<1>9. ASSUME UNCHANGED <<output, manifest>>,
             worker'.before = worker.before, worker'.digest = worker.digest,
             worker'.version = worker.version, worker'.exports = worker.exports,
             worker'.seen \in {worker.seen, {}, {image.content}},
             worker'.at \notin {"hash", "keep"}, worker.at \notin {"hash", "fail"}
      PROVE  Traces(rank, j)' /\ CacheTraced(rank)'
  BY <1>1, <1>9, LightMove
<1>10. CASE PluginSkipped(j)
  <2>1. worker.at = "plugin" /\ UNCHANGED <<output, manifest>>
    BY <1>10 DEF PluginSkipped, At, results
  <2>2. PICK status \in {"CANCELLED", "UNAVAILABLE"} :
          LET runs == Append(worker.runs, status)
          IN  Update(j, [jobs[j] EXCEPT !.plugins[Turn] = status],
                     [worker EXCEPT !.at = Loop(j, runs), !.runs = runs])
    BY <1>10 DEF PluginSkipped
  <2>3. PICK runs : runs = Append(worker.runs, status)
    OBVIOUS
  <2>4. \/ worker' = [worker EXCEPT !.at = Loop(j, runs), !.runs = runs]
        \/ worker' = [worker EXCEPT !.at = "fail"]
    BY <2>2, <2>3, UpdateStep
  <2>5. CASE worker' = [worker EXCEPT !.at = Loop(j, runs), !.runs = runs]
    BY <1>1, <1>9, <2>1, <2>5 DEF WorkerState, Loop
  <2> QED
    BY <1>3, <2>1, <2>4, <2>5
<1>11. CASE PluginInvoked(j)
  <2>1. worker.at = "plugin" /\ UNCHANGED <<output, manifest>>
    BY <1>11 DEF PluginInvoked, At, results
  <2>2. \/ worker' = [worker EXCEPT !.at = "child", !.seen = {image.content}]
        \/ worker' = [worker EXCEPT !.at = "fail"]
    BY <1>11, UpdateStep DEF PluginInvoked
  <2>3. CASE worker' = [worker EXCEPT !.at = "child", !.seen = {image.content}]
    BY <1>1, <1>9, <2>1, <2>3 DEF WorkerState
  <2> QED
    BY <1>3, <2>1, <2>2, <2>3
<1>12. CASE ChildFails(j)
  <2>1. worker.at = "child" /\ UNCHANGED <<output, manifest>>
    BY <1>12 DEF ChildFails, At, results
  <2>2. PICK status : worker' = [worker EXCEPT !.at = "done", !.seen = {},
                                               !.runs = Append(@, status)]
    BY <1>12 DEF ChildFails, Advance
  <2>3. PICK runs : runs = Append(worker.runs, status)
    OBVIOUS
  <2>4. worker' = [worker EXCEPT !.at = "done", !.seen = {}, !.runs = runs]
    BY <2>2, <2>3
  <2> QED
    BY <1>1, <1>9, <2>1, <2>4 DEF WorkerState
<1>13. CASE PluginDone(j)
  <2>1. worker.at = "done" /\ UNCHANGED <<output, manifest>>
    BY <1>13 DEF PluginDone, At, results
  <2>2. \/ worker' = [worker EXCEPT !.at = Loop(j, worker.runs)]
        \/ worker' = [worker EXCEPT !.at = "fail"]
    BY <1>13, UpdateStep DEF PluginDone
  <2>3. CASE worker' = [worker EXCEPT !.at = Loop(j, worker.runs)]
    BY <1>1, <1>9, <2>1, <2>3 DEF WorkerState, Loop
  <2> QED
    BY <1>3, <2>1, <2>2, <2>3
<1>14. CASE Import(j)
  <2>1. worker.at = "import" /\ UNCHANGED <<output, manifest>>
    BY <1>14 DEF Import, At
  <2>2. \E runs, outcome :
          worker' = [worker EXCEPT !.at = "publish", !.runs = runs, !.outcome = outcome]
    <3>1. PICK unread, fruitful : Imported(j, unread, fruitful)
      BY <1>14 DEF Import, Imported
    <3>2. PICK runs \in Seq(RunStatus), status \in Status :
            /\ worker' = [worker EXCEPT !.at = "publish", !.runs = runs, !.outcome = {status}]
            /\ Len(runs) = Len(worker.runs)
            /\ status = "SUCCESS" <=> StatesOf(runs) = {"SUCCESS"}
            /\ status = "PARTIAL" =>
                 /\ fruitful # {}
                 /\ stored' = stored \cup UNION {Seen(j, export) : export \in fruitful}
            /\ status \in {"FAILED", "CANCELLED", "UNAVAILABLE"} => stored' = stored
      BY <3>1, ImportedResult
    <3> QED
      BY <3>2
  <2> QED
    BY <1>1, <1>9, <2>1, <2>2 DEF WorkerState
<1>15. CASE Publish(j)
  <2>1. worker.at = "publish" /\ UNCHANGED <<output, manifest>>
    BY <1>15 DEF Publish, At, results
  <2>2. \/ worker' = [worker EXCEPT !.published = worker.published + 1]
        \/ worker' = [worker EXCEPT !.at = "fail"]
    BY <1>15, UpdateStep DEF Publish
  <2>3. CASE worker' = [worker EXCEPT !.published = worker.published + 1]
    BY <1>1, <1>9, <2>1, <2>3 DEF WorkerState
  <2> QED
    BY <1>3, <2>1, <2>2, <2>3
<1> QED
  BY <1>4, <1>5, <1>6, <1>7, <1>8, <1>10, <1>11, <1>12, <1>13, <1>14, <1>15 DEF Move

LEMMA NextTraced ==
  ASSUME NEW CONSTANT rank, NeverRegained(rank),
         TypeOK, Scheduled, Placed, Traced(rank), [Next]_vars
  PROVE  Traced(rank)'
<1>1. /\ running \subseteq Job /\ worker \in WorkerState
      /\ image.content \in Content /\ image.mtime \in Nat
  BY DEF TypeOK, WorkerState
<1>2. ASSUME NEW j \in Job, NEW request \in JobRequest, Begin(j, request)
      PROVE  Traced(rank)'
  <2>1. UNCHANGED <<running, worker, image, output, manifest>>
    BY <1>2 DEF Begin, results
  <2>2. \A i \in running : asked'[i] = asked[i]
    <3>1. asked' = [asked EXCEPT ![j] = request] /\ j \notin running
      BY <1>2 DEF Begin, Scheduled
    <3> QED
      BY <3>1 DEF TypeOK
  <2> QED
    BY SMTT(60), <2>1, <2>2 DEF Traced, Traces, ReadAsHashed, ReadInOrder, KeptInOrder, OwnExports,
                      CacheTraced, Current, Turn, Before
<1>3. ASSUME NEW j \in Job, BeginHash(j)
      PROVE  Traced(rank)'
  <2>1. /\ running' = {j} /\ UNCHANGED <<image, output, manifest, asked>>
        /\ \/ worker' = [Idle EXCEPT !.at = "hash", !.before = image.mtime,
                                     !.seen = {image.content}]
           \/ worker' = [Idle EXCEPT !.at = "fail"]
    BY <1>3 DEF BeginHash, Outside, results
  <2>2. /\ worker'.at \in {"hash", "fail"} /\ worker'.digest = {} /\ worker'.exports = {}
        /\ worker'.seen \subseteq {image.content} /\ worker'.before <= image.mtime
    <3>1. CASE worker' = [Idle EXCEPT !.at = "hash", !.before = image.mtime,
                                      !.seen = {image.content}]
      BY <1>1, <3>1 DEF Idle
    <3>2. CASE worker' = [Idle EXCEPT !.at = "fail"]
      BY <1>1, <3>2 DEF Idle
    <3> QED
      BY <2>1, <3>1, <3>2
  <2>3. CacheTraced(rank)'
    BY <2>1 DEF Traced, CacheTraced
  <2> QED
    BY <2>1, <2>2, <2>3
    DEF Traced, Traces, ReadAsHashed, ReadInOrder, KeptInOrder, OwnExports, Before
<1>4. ASSUME NEW j \in Job, Move(j)
      PROVE  Traced(rank)'
  BY <1>4, MoveTraces
<1>5. CASE Vanish
  BY <1>5 DEF Vanish, Leave, results, Traced, CacheTraced
<1>6. CASE Open
  BY <1>6 DEF Open, results, Scheduled, Traced, CacheTraced
<1>7. CASE ModifyImage /\ UNCHANGED <<asked, running, output, manifest>>
  <2>1. PICK edit \in Edit :
          /\ edit[1] = image.content
          /\ image' = [content |-> edit[2], mtime |-> image.mtime + 1]
          /\ worker' = IF worker.at \in {"hash", "child"}
                       THEN [worker EXCEPT !.seen = @ \cup {edit[2]}]
                       ELSE worker
    BY <1>7 DEF ModifyImage
  <2> DEFINE new == image'.content
  <2>2. /\ new \in Content /\ image'.mtime = image.mtime + 1
        /\ Before(rank, image.content, new)
    BY <2>1, JobsAssumption DEF NeverRegained
  <2>3. /\ worker'.at = worker.at /\ worker'.digest = worker.digest
        /\ worker'.before = worker.before /\ worker'.version = worker.version
        /\ worker'.exports = worker.exports /\ worker'.runs = worker.runs
        /\ worker'.seen \subseteq worker.seen \cup {new}
    BY <1>1, <2>1 DEF WorkerState
  <2>4. \A x \in Content : Before(rank, x, image.content) => Before(rank, x, new)
    BY <1>1, <2>2, BeforeIsTransitive DEF NeverRegained
  <2>5. \A x \in Content : rank[x] < rank[image.content] => rank[x] < rank[new]
    BY <1>1, <2>2, BeforeIsTransitive DEF NeverRegained
  <2> HIDE DEF new
  <2>6. CacheTraced(rank)'
    BY <1>7, <2>5 DEF Traced, CacheTraced, new
  <2>7. ASSUME NEW j \in running
        PROVE  Traces(rank, j)'
    <3>1. Traces(rank, j) /\ worker.before <= image.mtime /\ worker.before \in Nat
      BY <1>1 DEF Traced, Traces, ReadInOrder, WorkerState
    <3>2. worker'.before # image'.mtime /\ worker'.before <= image'.mtime
      BY <1>1, <2>2, <2>3, <3>1
    <3>3. ReadAsHashed(j)'
      BY <3>2 DEF ReadAsHashed
    <3>4. ReadInOrder(rank, j)'
      <4>1. \A x \in worker.digest \cup worker.seen :
              x \in Content /\ Before(rank, x, image.content)
        BY <1>1, <3>1 DEF Traces, ReadInOrder, WorkerState
      <4>2. \A x \in worker.digest \cup worker.seen \cup {new} : Before(rank, x, new)
        BY <2>4, <4>1 DEF Before
      <4>3. \A x \in worker.digest, y \in worker.seen \cup {new} : Before(rank, x, y)
        BY <3>1, <4>2 DEF Traces, ReadInOrder
      <4>4. \A x \in worker'.digest \cup worker'.seen : Before(rank, x, image'.content)
        BY <2>3, <4>2 DEF new
      <4>5. \A x \in worker'.digest, y \in worker'.seen : Before(rank, x, y)
        BY <2>3, <4>3
      <4> QED
        BY <2>3, <3>1, <3>2, <4>4, <4>5 DEF Traces, ReadInOrder, Before
    <3>5. KeptInOrder(rank, j)'
      <4> SUFFICES ASSUME worker.at = "keep" PROVE KeptInOrder(rank, j)'
        BY <2>3 DEF KeptInOrder
      <4>1. Current(j) \in Plugin /\ Current(j)' = Current(j)
        BY <1>7, <2>3, CurrentType DEF Current, Turn
      <4>2. \A file \in output[j][Current(j)] : file.from \subseteq Content
        BY <1>1, <4>1 DEF TypeOK, Output
      <4>3. \A file \in output[j][Current(j)] : \A y \in file.from : Before(rank, y, new)
        BY <2>4, <3>1, <4>2 DEF Traces, KeptInOrder
      <4> QED
        BY <1>7, <2>3, <3>1, <3>2, <4>1, <4>3 DEF Traces, KeptInOrder, Before, new
    <3>6. OwnExports(j)'
      BY <1>7, <2>3, <3>1 DEF Traces, OwnExports
    <3> QED
      BY <3>3, <3>4, <3>5, <3>6 DEF Traces
  <2> QED
    BY <1>7, <2>6, <2>7 DEF Traced
<1>8. CASE /\ UNCHANGED <<asked, running, worker, image, manifest>>
           /\ running = {} \/ UNCHANGED output
  BY <1>8 DEF Traced, Traces, ReadAsHashed, ReadInOrder, KeptInOrder, OwnExports,
              CacheTraced, Current, Turn, Before
<1> QED
  BY <1>2, <1>3, <1>4, <1>5, <1>6, <1>7, <1>8, OtherSteps

\* What the import stores is of the image as it was hashed: between the two
\* readings of the time stamp nothing was written.
LEMMA NextMatchesImage ==
  ASSUME NEW CONSTANT rank, TypeOK, Scheduled, Traced(rank), EventsMatchImage, [Next]_vars
  PROVE  EventsMatchImage'
<1>1. ASSUME NEW row \in stored, row \in stored'
      PROVE  /\ row.output = [from |-> row.sha256, made |-> row.fingerprint]
             /\ asked'[row.job].rerun => row.owner = row.job
  <2>1. row.job \in Job
    BY DEF TypeOK, Observation
  <2>2. asked[row.job] # NoRequest
    BY <2>1 DEF Scheduled, Rows
  <2>3. asked'[row.job] = asked[row.job]
    <3>1. ASSUME NEW j \in Job, NEW request \in JobRequest, Begin(j, request)
          PROVE  asked'[row.job] = asked[row.job]
      BY <2>1, <2>2, <3>1 DEF Begin, TypeOK
    <3>2. ASSUME NEW j \in Job, Move(j)
          PROVE  asked'[row.job] = asked[row.job]
      BY <3>2, MoveFrame
    <3> QED
      BY <3>1, <3>2, OtherSteps DEF BeginHash, Outside, Vanish, Open
  <2> QED
    BY <2>3 DEF EventsMatchImage
<1>2. ASSUME NEW j \in Job, Import(j), NEW row \in stored', row \notin stored
      PROVE  /\ row.output = [from |-> row.sha256, made |-> row.fingerprint]
             /\ asked'[row.job].rerun => row.owner = row.job
  <2>1. /\ j \in running /\ worker.before = image.mtime /\ asked' = asked
    BY <1>2 DEF Import, At, Outside
  <2>2. PICK fruitful \in SUBSET worker.exports :
          stored' = stored \cup UNION {Seen(j, export) : export \in fruitful}
    BY <1>2 DEF Import
  <2>3. PICK export \in worker.exports : row \in Seen(j, export)
    BY <1>2, <2>2
  <2>4. PICK file \in output[export[2]][export[1]] :
          row = [job |-> j, plugin |-> export[1], owner |-> export[2],
                 sha256 |-> worker.digest, fingerprint |-> worker.version, output |-> file]
    BY <2>3 DEF Seen
  <2>5. Traces(rank, j)
    BY <2>1 DEF Traced
  <2>6. file = [from |-> worker.digest, made |-> worker.version]
    BY <2>1, <2>4, <2>5 DEF Traces, ReadAsHashed
  <2>7. asked[j].rerun => export[2] = j
    BY <2>3, <2>5 DEF Traces, OwnExports
  <2> QED
    BY <2>1, <2>4, <2>6, <2>7
<1>3. stored' = stored \/ \E j \in Job : Import(j)
  <2>1. ASSUME NEW j \in Job, Move(j)
        PROVE  stored' = stored \/ Import(j)
    BY <2>1, MoveFrame
  <2> QED
    BY <2>1, OtherSteps DEF Begin, BeginHash, Vanish, Open, results
<1> QED
  BY <1>1, <1>2, <1>3 DEF EventsMatchImage

\* Stored events come from the content whose hash they carry and from the tool that
\* they name, and a re-run takes nothing from the cache, provided that nobody
\* restores an earlier content of the image.
THEOREM EventsComeFromTheImage ==
  ASSUME NEW CONSTANT rank, NeverRegained(rank)
  PROVE  Spec => []EventsMatchImage
<1> DEFINE Inv == TypeOK /\ Scheduled /\ Placed /\ Traced(rank) /\ EventsMatchImage
<1>1. Init => Inv
  <2>1. Init => EventsMatchImage
    BY DEF Init, EventsMatchImage
  <2> QED
    BY <2>1, InitTypeOK, InitScheduled, InitTraced
<1>2. Inv /\ [Next]_vars => Inv'
  BY NextTypeOK, NextScheduled, NextPlaced, NextTraced, NextMatchesImage
<1>3. Inv => EventsMatchImage
  OBVIOUS
<1> QED
  BY <1>1, <1>2, <1>3, PTL DEF Spec
=============================================================================
