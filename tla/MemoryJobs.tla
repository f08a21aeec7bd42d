----------------------------- MODULE MemoryJobs -----------------------------
(***************************************************************************)
(* Raw-memory analysis jobs: the handlers that start and cancel them, the  *)
(* single worker thread that runs Volatility plugin by plugin, the cache   *)
(* of plugin outputs, and the job manifests that outlive the process.      *)
(*                                                                         *)
(* A job is known twice: in the dictionary the API answers from (jobs) and *)
(* in its manifest file (disk).  atomic_json replaces a manifest as a      *)
(* whole; it may fail to, and then the dictionary is ahead of the file.    *)
(*                                                                         *)
(* The image is a file somebody else may write while it is analyzed, so    *)
(* its hash and every plugin output come from a set of contents: those the *)
(* file had while it was being read.  Every write gives it a new mtime.    *)
(***************************************************************************)
EXTENDS ParserRuns, Integers, Sequences, FiniteSets

CONSTANTS
  Job,          \* job_id values (UUIDs); finitely many, they bound the jobs
  Plugin,       \* Volatility plugins
  JobRequest,   \* requests: [plugins |-> sequence of plugins, rerun |-> BOOLEAN]
  Fingerprint,  \* tool version with the plugin options of the request
  None,         \* discovery found no tool version
  Content,      \* contents the memory image can have
  Original,     \* its first content
  Edit,         \* <<old, new>>: the content changes somebody may make
  MaxEdits,     \* bound: writes to the image
  MaxFaults     \* bound: manifests that cannot be saved (disk full, file locked)

ASSUME JobsAssumption ==
  /\ JobRequest \subseteq [plugins : Seq(Plugin) \ {<<>>}, rerun : BOOLEAN]
  /\ None \notin Fingerprint
  /\ Original \in Content
  /\ Edit \subseteq Content \X Content
  /\ MaxEdits \in Nat
  /\ MaxFaults \in Nat

\* A plugin output file: the contents it was read from, the tool that made it.
Output == [from : SUBSET Content, made : Fingerprint \cup {None}]

\* manifest.json: whose run directory holds the output, its options, its hash.
Entry == [owner : Job, fingerprint : Fingerprint \cup {None}, sum : Output]

\* What import_batch has stored for one exported output: the hash and options
\* its events claim, next to what the output really was.
Observation ==
  [job : Job, plugin : Plugin, owner : Job, sha256 : SUBSET Content,
   fingerprint : Fingerprint \cup {None}, output : Output]

PluginStatus == RunStatus \cup {"PENDING", "RUNNING"}
Terminal == Status
JobStatus == Terminal \cup {"NONE", "PENDING", "HASHING", "RUNNING"}

JobRecord ==
  [status : JobStatus, plugins : Seq(PluginStatus), report : SUBSET Status]

NoJob == [status |-> "NONE", plugins |-> <<>>, report |-> {}]
NoRequest == [plugins |-> <<>>, rerun |-> FALSE]

Idle == [at |-> "idle", before |-> 0, seen |-> {}, digest |-> {},
         version |-> None, runs |-> <<>>, exports |-> {},
         outcome |-> {}, published |-> 0]

VARIABLES
  session,    \* "open", "closing" (application shutdown) or "down"
  jobs,       \* self.jobs; NoJob where there is no entry
  disk,       \* the job manifests
  asked,      \* the request of each started job; NoRequest before
  cancelled,  \* jobs whose cancellation event is set
  queue,      \* submitted jobs the executor has not begun
  running,    \* the job the worker is in: at most one
  worker,     \* local state of _execute
  image,      \* the memory image: [content, mtime]
  output,     \* per job and plugin: at most one file in the run directory
  manifest,   \* per digest and plugin: at most one cache entry
  stored,     \* observations in the repository
  faults      \* manifests that could not be saved

results == <<output, manifest, stored>>
vars == <<session, jobs, disk, asked, cancelled, queue, running, worker, image,
          output, manifest, stored, faults>>

Init ==
  /\ session = "open"
  /\ jobs = [j \in Job |-> NoJob]
  /\ disk = [j \in Job |-> NoJob]
  /\ asked = [j \in Job |-> NoRequest]
  /\ cancelled = {}
  /\ queue = <<>>
  /\ running = {}
  /\ worker = Idle
  /\ image = [content |-> Original, mtime |-> 0]
  /\ output = [j \in Job |-> [p \in Plugin |-> {}]]
  /\ manifest = [d \in SUBSET Content |-> [p \in Plugin |-> {}]]
  /\ stored = {}
  /\ faults = 0

-----------------------------------------------------------------------------
(***************************************************************************)
(* Saving a job: the dictionary always changes, the manifest unless        *)
(* atomic_json raises.                                                     *)
(***************************************************************************)
Saved(j, record) ==
  /\ jobs' = [jobs EXCEPT ![j] = record]
  /\ disk' = [disk EXCEPT ![j] = record]
  /\ UNCHANGED faults

Unsaved(j, record) ==
  /\ faults < MaxFaults
  /\ faults' = faults + 1
  /\ jobs' = [jobs EXCEPT ![j] = record]
  /\ UNCHANGED disk

\* An exception inside _execute's try: on to recording the failure.
Raised == worker' = [worker EXCEPT !.at = "fail"] /\ UNCHANGED running

\* _update or _plugin_update inside the try, after which the worker goes on.
Update(j, record, next) ==
  \/ Saved(j, record) /\ worker' = next /\ UNCHANGED running
  \/ Unsaved(j, record) /\ Raised

\* A step of the worker that saves nothing.
Advance(next) == worker' = next /\ UNCHANGED <<running, jobs, disk, faults>>

\* Mutant: the thread stays with the job it has left.
LeaveBusy == worker' = Idle /\ UNCHANGED running

\* _execute returns.
Leave == worker' = Idle /\ running' = {}

\* Mutant: the return after the update is forgotten.
ReturnForgotten(j, record) == Update(j, record, worker)

\* The update after which _execute returns.
Return(j, record) ==
  \/ Saved(j, record) /\ Leave
  \/ Unsaved(j, record) /\ Raised

-----------------------------------------------------------------------------
(***************************************************************************)
(* The API handlers and the session.                                       *)
(***************************************************************************)
Ended(record) == record.status \in Terminal \cup {"NONE"}

Pending(request) ==
  [NoJob EXCEPT !.status = "PENDING",
                !.plugins = [k \in 1..Len(request.plugins) |-> "PENDING"]]

\* start enters the job in the dictionary, saves it under the lock and hands
\* it to the executor.  If the manifest cannot be saved the handler raises
\* and the entry stays behind: pending, and never submitted.
Begin(j, request) ==
  /\ session = "open"
  /\ asked[j] = NoRequest
  /\ asked' = [asked EXCEPT ![j] = request]
  /\ \/ Saved(j, Pending(request)) /\ queue' = Append(queue, j)
     \/ Unsaved(j, Pending(request)) /\ UNCHANGED queue
  /\ UNCHANGED <<session, cancelled, running, worker, image, results>>

\* cancel sets the event of a job that has not ended.
Cancel(j) ==
  /\ session = "open"
  /\ ~Ended(jobs[j])
  /\ cancelled' = cancelled \cup {j}
  /\ UNCHANGED <<session, jobs, disk, asked, queue, running, worker, image,
                 results, faults>>

\* close runs when the handlers are done: it sets every cancellation event
\* (of a job that has ended nobody reads it) and waits for the executor.
Close ==
  /\ session = "open"
  /\ session' = "closing"
  /\ cancelled' = cancelled \cup {j \in Job : ~Ended(jobs[j])}
  /\ UNCHANGED <<jobs, disk, asked, queue, running, worker, image, results, faults>>

\* The process is gone; only files and the repository are left.
Vanish ==
  /\ session' = "down"
  /\ jobs' = [j \in Job |-> NoJob]
  /\ cancelled' = {}
  /\ queue' = <<>>
  /\ Leave
  /\ UNCHANGED <<disk, asked, image, results, faults>>

Exit == session = "closing" /\ queue = <<>> /\ running = {} /\ Vanish

Crash == session # "down" /\ Vanish

\* Mutant: the jobs of the last session are taken over as they are.
ReopenTrusting(record) == record

\* __init__: what the previous session did not finish is cancelled.
Reopen(record) ==
  IF Ended(record) THEN record ELSE [record EXCEPT !.status = "CANCELLED"]

Open ==
  /\ session = "down"
  /\ session' = "open"
  /\ disk' = [j \in Job |-> Reopen(disk[j])]
  /\ jobs' = disk'
  /\ UNCHANGED <<asked, cancelled, queue, running, worker, image, results, faults>>

-----------------------------------------------------------------------------
(***************************************************************************)
(* _execute, up to the plugin loop.                                        *)
(***************************************************************************)
\* What no step of the worker touches.
Outside == UNCHANGED <<session, asked, cancelled, image>>

\* The worker is at a place in job j.
At(j, place) ==
  /\ j \in running
  /\ worker.at = place
  /\ Outside
  /\ UNCHANGED queue

\* The thread takes the next job, reports HASHING and stats the image.
BeginHash(j) ==
  /\ running = {}
  /\ queue # <<>> /\ j = Head(queue)
  /\ queue' = Tail(queue)
  /\ running' = {j}
  /\ LET record == [jobs[j] EXCEPT !.status = "HASHING"]
     IN  \/ /\ Saved(j, record)
            /\ worker' = [Idle EXCEPT !.at = "hash", !.before = image.mtime,
                                      !.seen = {image.content}]
         \/ Unsaved(j, record) /\ worker' = [Idle EXCEPT !.at = "fail"]
  /\ Outside /\ UNCHANGED results

\* The event is seen between two chunks: the plugins stay PENDING.
HashCancelled(j) ==
  /\ At(j, "hash")
  /\ j \in cancelled
  /\ Return(j, [jobs[j] EXCEPT !.status = "CANCELLED"])
  /\ UNCHANGED results

\* The image is hashed, its cache entries are at hand and discover_plugins
\* has run.  A file written while it is read can give any mixture.
Prepare(j) ==
  /\ At(j, "hash")
  /\ \E digest \in (SUBSET worker.seen) \ {{}}, version \in Fingerprint \cup {None} :
       Update(j, [jobs[j] EXCEPT !.status = "RUNNING"],
              [worker EXCEPT !.at = "plugin", !.digest = digest, !.seen = {},
                             !.version = version])
  /\ UNCHANGED results

-----------------------------------------------------------------------------
(***************************************************************************)
(* The plugin loop.                                                        *)
(***************************************************************************)
Turn == Len(worker.runs) + 1
Current(j) == asked[j].plugins[Turn]

\* Where the loop is after a plugin.
Loop(j, runs) == IF Len(runs) < Len(asked[j].plugins) THEN "plugin" ELSE "import"

\* Cancelled before its turn, or not installed: reported and skipped.
PluginSkipped(j) ==
  /\ At(j, "plugin")
  /\ \E status \in {"CANCELLED", "UNAVAILABLE"} :
       /\ status = "CANCELLED" <=> j \in cancelled
       /\ LET runs == Append(worker.runs, status)
          IN  Update(j, [jobs[j] EXCEPT !.plugins[Turn] = status],
                     [worker EXCEPT !.at = Loop(j, runs), !.runs = runs])
  /\ UNCHANGED results

\* Mutant: the tool version and its options are not compared.
ReusableUnderAnyOptions(j, entry) ==
  /\ worker.version # None
  /\ ~asked[j].rerun
  /\ output[entry.owner][Current(j)] = {entry.sum}

\* A cached output is reused only if its hash still is the recorded one.
Reusable(j, entry) ==
  /\ worker.version # None
  /\ ~asked[j].rerun
  /\ entry.fingerprint = worker.version
  /\ output[entry.owner][Current(j)] = {entry.sum}

PluginReused(j) ==
  /\ At(j, "plugin")
  /\ j \notin cancelled
  /\ \E entry \in manifest[worker.digest][Current(j)] :
       /\ Reusable(j, entry)
       /\ Update(j, [jobs[j] EXCEPT !.plugins[Turn] = "RUNNING"],
                 [worker EXCEPT !.at = "done",
                                !.runs = Append(@, "SUCCESS"),
                                !.exports = @ \cup {<<Current(j), entry.owner>>}])
  /\ UNCHANGED results

PluginInvoked(j) ==
  /\ At(j, "plugin")
  /\ j \notin cancelled
  /\ \A entry \in manifest[worker.digest][Current(j)] : ~Reusable(j, entry)
  /\ Update(j, [jobs[j] EXCEPT !.plugins[Turn] = "RUNNING"],
            [worker EXCEPT !.at = "child", !.seen = {image.content}])
  /\ UNCHANGED results

\* _invoke: the child is killed, runs out of time or fails.  Polling sees an
\* exit first, so a cancelled child may still have succeeded.
ChildFails(j) ==
  /\ At(j, "child")
  /\ \E status \in {"FAILED", "TIMEOUT", "CANCELLED"} :
       /\ status = "CANCELLED" => j \in cancelled
       /\ Advance([worker EXCEPT !.at = "done", !.seen = {}, !.runs = Append(@, status)])
  /\ UNCHANGED results

\* _invoke: the child exits with 0 and its JSON moves to its final name.
ChildSucceeds(j) ==
  /\ At(j, "child")
  /\ \E from \in (SUBSET worker.seen) \ {{}} :
       output' = [output EXCEPT ![j][Current(j)] =
                    {[from |-> from, made |-> worker.version]}]
  /\ Advance([worker EXCEPT !.at = "keep", !.seen = {}])
  /\ UNCHANGED <<manifest, stored>>

\* The new output enters the cache of the image's hash and the exports.
KeepOutput(j) ==
  /\ At(j, "keep")
  /\ \E sum \in output[j][Current(j)] :
       manifest' = [manifest EXCEPT ![worker.digest][Current(j)] =
                      {[owner |-> j, fingerprint |-> worker.version, sum |-> sum]}]
  /\ Advance([worker EXCEPT !.at = "done", !.runs = Append(@, "SUCCESS"),
                            !.exports = @ \cup {<<Current(j), j>>}])
  /\ UNCHANGED <<output, stored>>

\* The loop reports how the plugin ended.
PluginDone(j) ==
  /\ At(j, "done")
  /\ LET k == Len(worker.runs)
     IN  Update(j, [jobs[j] EXCEPT !.plugins[k] = worker.runs[k]],
                [worker EXCEPT !.at = Loop(j, worker.runs)])
  /\ UNCHANGED results

-----------------------------------------------------------------------------
(***************************************************************************)
(* The import and the end of the job.                                      *)
(***************************************************************************)

\* The run of a plugin whose export the adapter could not read is FAILED.
Verdicts(j, unread) ==
  [k \in 1..Len(worker.runs) |->
     IF asked[j].plugins[k] \in unread THEN "FAILED" ELSE worker.runs[k]]

Seen(j, export) ==
  {[job |-> j, plugin |-> export[1], owner |-> export[2],
    sha256 |-> worker.digest, fingerprint |-> worker.version, output |-> file] :
     file \in output[export[2]][export[1]]}

\* The stat comparison, the adapter and import_batch.  Some exports cannot
\* be read, some yield events; the storage takes the batch or refuses it.
\* The event ids carry the job id, so only the storage itself can refuse.
Import(j) ==
  /\ At(j, "import")
  /\ worker.before = image.mtime
  /\ \E unread \in SUBSET worker.exports :
     \E fruitful \in SUBSET (worker.exports \ unread) :
       LET verdicts == Verdicts(j, {export[1] : export \in unread})
           batch == [events |-> fruitful,
                     states |-> {verdicts[k] : k \in DOMAIN verdicts}]
       IN  \/ /\ stored' = stored \cup UNION {Seen(j, export) : export \in fruitful}
              /\ Advance([worker EXCEPT !.at = "publish", !.runs = verdicts,
                                        !.outcome = {ImportStatus(batch)}])
           \/ /\ Advance([worker EXCEPT
                            !.at = "publish", !.outcome = {"FAILED"},
                            !.runs = [k \in DOMAIN verdicts |-> Refused(verdicts[k])]])
              /\ UNCHANGED stored
  /\ UNCHANGED <<output, manifest>>

\* The status of every run, as the import left it, goes to its plugin.
Publish(j) ==
  /\ At(j, "publish")
  /\ worker.published < Len(worker.runs)
  /\ LET k == worker.published + 1
     IN  Update(j, [jobs[j] EXCEPT !.plugins[k] = worker.runs[k]],
                [worker EXCEPT !.published = k])
  /\ UNCHANGED results

\* A cancellation wins over the report, if it is set when this is computed;
\* one that comes a moment later is read by nobody.
Finish(j) ==
  /\ At(j, "publish")
  /\ worker.published = Len(worker.runs)
  /\ \E status \in worker.outcome :
       Return(j, [jobs[j] EXCEPT
                    !.status = IF j \in cancelled THEN "CANCELLED" ELSE status,
                    !.report = worker.outcome])
  /\ UNCHANGED results

\* Whatever else can raise: the image is found changed, or it or a directory
\* cannot be opened, the child does not die when it is killed
\* (terminate_tree), an output or the cache manifest cannot be read or
\* written, the database stays locked.
Raise(j) ==
  /\ \E place \in {"hash", "plugin", "child", "keep", "done", "import"} : At(j, place)
  /\ Advance([worker EXCEPT !.at = "fail"])
  /\ UNCHANGED results

\* The except clause: the failed run is imported, which stores no event and
\* may itself raise, and in any case the job is FAILED.  If even that cannot
\* be saved, the exception is lost with the future.
Fail(j) ==
  /\ At(j, "fail")
  /\ LET record == [jobs[j] EXCEPT !.status = "FAILED"]
     IN  Saved(j, record) \/ Unsaved(j, record)
  /\ Leave
  /\ UNCHANGED results

-----------------------------------------------------------------------------
(***************************************************************************)
(* The world outside: somebody writes the image or touches an output.      *)
(***************************************************************************)
ModifyImage ==
  /\ image.mtime < MaxEdits
  /\ \E edit \in Edit :
       /\ edit[1] = image.content
       /\ image' = [content |-> edit[2], mtime |-> image.mtime + 1]
       /\ worker' = IF worker.at \in {"hash", "child"}
                    THEN [worker EXCEPT !.seen = @ \cup {edit[2]}]
                    ELSE worker
  /\ UNCHANGED <<session, jobs, disk, asked, cancelled, queue, running, results, faults>>

\* Between jobs an output file is altered or deleted: it no longer is what
\* the plugin wrote.  The workspace is not touched while a job runs.
DamageOutput(j, p) ==
  /\ running = {}
  /\ output[j][p] # {}
  /\ output' = [output EXCEPT ![j][p] = {}]
  /\ UNCHANGED <<session, jobs, disk, asked, cancelled, queue, running, worker,
                 image, manifest, stored, faults>>

-----------------------------------------------------------------------------
Execute(j) ==
  \/ BeginHash(j)
  \/ HashCancelled(j)
  \/ Prepare(j)
  \/ PluginSkipped(j)
  \/ PluginReused(j)
  \/ PluginInvoked(j)
  \/ ChildFails(j)
  \/ ChildSucceeds(j)
  \/ KeepOutput(j)
  \/ PluginDone(j)
  \/ Import(j)
  \/ Publish(j)
  \/ Finish(j)
  \/ Raise(j)
  \/ Fail(j)

Next ==
  \/ Close
  \/ Exit
  \/ Crash
  \/ Open
  \/ ModifyImage
  \/ \E j \in Job :
       \/ \E request \in JobRequest : Begin(j, request)
       \/ Cancel(j)
       \/ Execute(j)
       \/ \E p \in Plugin : DamageOutput(j, p)

Spec == Init /\ [][Next]_vars

\* The executor's thread keeps running, a child ends by itself or at its
\* timeout, and close waits only for the executor.
Fairness == WF_vars(\E j \in Job : Execute(j)) /\ WF_vars(Exit)

-----------------------------------------------------------------------------
(***************************************************************************)
(* Properties                                                              *)
(***************************************************************************)

\* Every variable has its type (one type invariant for the job manager).
TypeOK ==
  /\ session \in {"open", "closing", "down"}
  /\ jobs \in [Job -> JobRecord]
  /\ disk \in [Job -> JobRecord]
  /\ asked \in [Job -> JobRequest \cup {NoRequest}]
  /\ cancelled \subseteq Job
  /\ queue \in Seq(Job)
  /\ running \subseteq Job
  /\ worker \in [at : {"idle", "hash", "plugin", "child", "keep", "done",
                       "import", "publish", "fail"},
                 before : Nat, seen : SUBSET Content, digest : SUBSET Content,
                 version : Fingerprint \cup {None}, runs : Seq(RunStatus),
                 exports : SUBSET (Plugin \X Job), outcome : SUBSET Status,
                 published : Nat]
  /\ image \in [content : Content, mtime : Nat]
  /\ output \in [Job -> [Plugin -> SUBSET Output]]
  /\ manifest \in [SUBSET Content -> [Plugin -> SUBSET Entry]]
  /\ stored \subseteq Observation
  /\ faults \in Nat

\* What the manifest says about a job that has ended is never rewritten: not
\* by the worker, not by a late cancellation, not by the next session.
RecordedOutcomeIsFinal ==
  [][\A j \in Job : disk[j].status \in Terminal => disk'[j] = disk[j]]_vars

\* A job's report tells what happened to its plugins: SUCCESS exactly if all
\* of them succeeded after parsing and storage had their say, none is left
\* pending or running, and the status shown differs from the report only by
\* a cancellation or by the failure to record it (_execute).
ReportMatchesPlugins(record) ==
  \A report \in record.report :
    LET states == {record.plugins[k] : k \in DOMAIN record.plugins}
    IN  /\ report = "SUCCESS" <=> states = {"SUCCESS"}
        /\ states \cap {"PENDING", "RUNNING"} = {}
        /\ record.status \in {report, "CANCELLED", "FAILED"}

ReportsMatchPlugins ==
  \A j \in Job : ReportMatchesPlugins(jobs[j]) /\ ReportMatchesPlugins(disk[j])

\* A job that reports evidence has stored some, and one that failed, found
\* nothing to run or was cancelled before its import has stored none; only
\* when a manifest could not be saved may a job be FAILED with its events
\* in the case (_execute, import_batch).
OutcomesMatchEvidence ==
  \A j \in Job :
    LET found == {row \in stored : row.job = j}
    IN  /\ "PARTIAL" \in disk[j].report => found # {}
        /\ disk[j].report \cap {"FAILED", "CANCELLED", "UNAVAILABLE"} # {} => found = {}
        /\ disk[j].status \in {"FAILED", "UNAVAILABLE"} /\ faults = 0 => found = {}

\* Stored events really come from the image whose hash they name and from
\* the tool version and options they name, whether the plugin was run or its
\* output taken from the cache, and a re-run takes nothing from the cache.
EventsMatchImage ==
  \A row \in stored :
    /\ row.output = [from |-> row.sha256, made |-> row.fingerprint]
    /\ asked[row.job].rerun => row.owner = row.job

\* Cancelling "terminates the active process tree and marks pending plugins
\* cancelled" (RAW_MEMORY_ANALYSIS.md), in the session that cancelled it.
CancelledJobHasNoPendingPlugin ==
  \A j \in Job :
    j \in cancelled /\ jobs[j].status = "CANCELLED" =>
      \A k \in DOMAIN jobs[j].plugins : jobs[j].plugins[k] # "PENDING"

\* Every job whose start was acknowledged ends, or the session does.
EveryJobEnds ==
  \A j \in Job :
    disk[j] # NoJob /\ jobs[j].status \notin Terminal
      ~> jobs[j].status \in Terminal \/ session = "down"

\* An application shutdown comes to an end: the executor drains, whatever
\* was queued, running or being cancelled.
ShutdownCompletes == session = "closing" ~> session = "down"

\* Nothing waits for ever: neither a job for its end nor the application for its
\* jobs (_execute, close).
JobsAndShutdownsEnd == EveryJobEnds /\ ShutdownCompletes
=============================================================================
