# EvidenceMesh: TLA+ models, checks and proofs

EvidenceMesh imports observations from memory, disk and network evidence into
cases, correlates them with deterministic rules, and shows the result as lists,
timelines and graphs. This directory holds TLA+ modules for the parts of it that
are hard to get right: the case repository with the requests that work on it
concurrently, the jobs that run Volatility over a memory image, the adapters
that turn images, exports and captures into events, the import of manifests, the
correlation rules with their index and the graphs built from them, and the
desktop application around the backend.

    tlc -workers 2 -config MCCaseStore.cfg MCCaseStore
    tlapm CaseStoreProofs.tla
    tlapm CollectorsProofs.tla

`PROJECT.json` lists the runs with what each shows, the source lines behind
every definition, the hazards of the code with the properties that watch them,
and the theorems.

## The system

| Component | State it keeps | Operations | What makes it correct |
|---|---|---|---|
| Case repository (`engine/storage/sqlite.py`) | tables of one SQLite file: events, revisions, correlations, graph, imports, parser runs | `add_events`, `import_batch`, `save_correlations`, `save_graph`, reads | imports are atomic; derived data never outlives the evidence it was derived from; the audit trail agrees with the evidence |
| Analysis service (`engine/service.py`) | none; several repository calls per request | `analyze`, `view`, `graph`, `timeline` | an answer belongs to one state of the evidence |
| Local API (`api/main.py`) | the repository and the job manager | one handler per route, each on a thread of its own | handlers interleave only at transactions |
| Memory jobs (`engine/memory_jobs.py`) | job dictionary, job manifests, executor queue, cache manifests, output files | `start`, `cancel`, `close`, reload, the worker | jobs end; recorded outcomes are final and truthful; events come from the image they name |
| Processes (`engine/processes.py`) | Job Object handle | `terminate_tree` | no child outlives its job |
| Correlation engine, rules, index (`engine/correlation/`) | none | `correlate`, `EventIndex.pairs`, `related_ids` | the index proposes every pair the rules would accept |
| Paged views (`engine/storage/views.py`) | `COUNTS_CACHE`, shared by threads | `event_page`, `bounded_graph` | counts belong to the revision; missing nodes are announced |
| Graph builder (`engine/graph/`) | none | `build_graph` | coalescing loses no supporting event |
| Ingestion (`engine/ingestion/`) | none | `import_evidence`, `import_case` | every parser failure is recorded |
| Disk images (`engine/collectors/disk/`) | derived workspace | `inspect`, `load_file` | a changed image yields no events |
| Memory exports (`engine/collectors/memory/`) | none | `load_exports` | ambiguous processes are not merged |
| PCAP (`engine/collectors/network/`) | derived bodies | `load_file`, `_recover_body` | a body is the content its name hashes |
| Desktop supervisor (`desktop/src/backend.ts`, `main.ts`, `api/launcher.py`) | child process, endpoint | `start`, `stop`, crash callback | a deliberate stop is not a crash; no child is left |
| Renderer (`desktop/src/renderer.ts`) | current case, page, poll timer | user actions, polling | what is shown belongs to the open case |
| Command line (`engine/cli.py`) | output files | imports, exports | no output is replaced; every command ends |

How they interact. The renderer calls Electron's main process over IPC, which
calls the API over loopback HTTP. Every request runs on a thread; repository
calls open a connection each, so a request that makes several of them can see
the effects of others in between. A memory job runs on the one thread of an
executor, starts child processes, and ends in the same `import_batch` as every
importer. The only state shared by threads besides SQLite is the job manager
(under a lock, except for the cancellation events) and the counts cache (no
lock).

What is hard: requests whose reads and writes are separate transactions; an
import that fails in one transaction and is recorded in another; a job that can
be cancelled, time out, fail, be cut off by a crash or by a manifest that cannot
be saved, at any of its steps; a cache that outlives the job that filled it; an
image that somebody writes during the analysis; files that two imports create
under one name; process numbers, file records and stream numbers that are used
again; an index that must not lose what the rules accept; a child process whose
exit, answers and timers arrive in any order; answers to a window that has moved
on to another case.

## The modules

| Module | What it is |
|---|---|
| `ParserRuns` | the status algebra of `import_batch`, used by every importer below |
| `CaseValues` | events, edges, views and answers; the correlation and focus operators |
| `CaseContract` | what a case promises its clients, without transactions |
| `CaseStore` | repository and requests, transaction by transaction; implements `CaseContract` |
| `CaseStoreProofs` | theorems about `CaseStore` |
| `MemoryJobs` | handlers, worker, cache, manifests, image, crashes |
| `EventPages` | evidence pages and the unlocked counts cache |
| `EventPagesProofs` | theorems about `EventPages` |
| `BoundedGraph` | the breadth-first search behind bounded graphs |
| `CorrelationRules` | the five rules, the anchors and the negative reasons, as functions of two events |
| `CandidateIndex` | identities and buckets of the index, and the pass over the pairs it proposes |
| `GraphBuild` | nodes, typed links, recorded parents and projected correlations of a case |
| `DiskImage` | extraction from a disk image and its import, while the image may be written |
| `MftPaths` | the paths of $MFT rows and journal records |
| `MemoryExports` | exports of one memory image: processes, relations, scans, runs |
| `PcapImports` | flows, and the recovery of HTTP bodies into a shared directory |
| `CaseImports` | the import service and its commands, several clients on one case |
| `DesktopBackend` | application, supervisor and backend process |
| `Workspace` | the window: busy flag, polls, search timer, switching of cases |
| `CaseGraphs` | `BoundedGraph`, `CandidateIndex` and `GraphBuild` side by side |
| `Collectors` | the four adapters side by side, with what their inputs are |
| `MemoryJobsProofs`, `CaseImportsProofs`, `WorkspaceProofs`, `DesktopBackendProofs` | theorems about the module of that name |
| `CollectorsProofs`, `GraphsProofs` | theorems about `Collectors` and `CaseGraphs` |
| `MCGraphs`, `MCCollectors` | the values of one instance of `CaseGraphs` and `Collectors` |
| `MCDesktop` | one instance of `DesktopBackend` and `Workspace` |
| other `MC*` | instances, or the values an instance takes |

How they depend on each other. `CaseStore`, `MemoryJobs`, `DiskImage` and
`CaseImports` extend `ParserRuns`; `CaseStore` extends `CaseValues` and is shown
to implement `CaseContract`. `CandidateIndex` and `GraphBuild` extend
`CorrelationRules`, and `GraphBuild` correlates its events with those very rules.
`CaseGraphs`, `Collectors` and `MCDesktop` put components beside each other that
share no state: a variable chooses one, which moves while the variables of the
others rest, so that a run explores each of them as if it were alone, and a
theorem about the composition is one about each of them.

Operators whose comment begins with "Mutant" are wrong variants of the
definition below them; each is a bug that some property was seen to catch.

### CaseStore

One case. `evidence`, `revision`, `analysisRevision`, `correlations`,
`storedGraph` and `imports` are the tables; `req[c]` is what client `c`'s request
has read so far and the transaction it runs next; `answer[c]` is its last
response. Write transactions begin IMMEDIATE, so each is one action:
`PostEvents`, `ImportCommits`, `RecordFailure` (the second transaction of a
refused import), `AnalyzeSave`, `GraphSave`. Every separate read is one action,
too: `AnalyzeStart` and `AnalyzeRead`; `ViewStart` or `ViewBegin`, `ViewEvents`,
`ViewCorrelations`, `ViewConfirm`. A write that cannot commit ends its request
(`StorageFault`, `ImportRollsBack`), and `Crash` drops every request.

The rules read two events at a time, so `Score` is a constant function of pairs
and the theorems hold for every such function. `Focus` is the restriction to
the component of a root; `related_ids` is there as the least closed set.
`result_limit` shortens a response and is left out, as are the entity and
evidence-source tables, which follow the graph and the events.

The graph is modelled as the view it is built from: `build_graph` is a pure
function of it.

### MemoryJobs

`jobs` is the dictionary the API answers from and `disk` the manifest files.
They agree unless a save fails (`Unsaved`), in which case the worker goes to the
except clause (`Fail`), or, in `start`, the entry stays behind without ever being
submitted. Saving and submitting a new job is one action (`Begin`): a crash
between the two leaves what a crash right after them leaves. `worker` is the local state of `_execute`: its place, the stat taken
before hashing, the contents the image had while it was read, digest, tool
version, run states, exports, and the import's outcome. One action per step:

| Action | `_execute` |
|---|---|
| `BeginHash`, `HashCancelled`, `Prepare` | hashing up to plugin discovery |
| `PluginSkipped`, `PluginReused`, `PluginInvoked` | the three branches of the plugin loop |
| `ChildFails`, `ChildSucceeds` | `_invoke` |
| `KeepOutput`, `PluginDone` | the cache entry, the plugin's report |
| `Import` | the second stat, the adapter, `import_batch` |
| `Publish`, `Finish` | the second round of plugin reports, the final update |
| `Raise`, `Fail` | any exception (the changed image among them), the except clause |

A hash and a plugin output come from any nonempty subset of the contents the
image had while being read, so a torn read is a value of its own. The cache is
`manifest`; an entry remembers whose run directory holds the output and what it
hashed to. `DamageOutput` alters or deletes an output between jobs.

Left out: the recovered files of `dumpfiles`; children that outlive
`terminate_tree`; the failure record of a failed job, which stores no event;
unreadable job manifests, which `atomic_json` does not produce. Reloading is
modelled when it succeeds. A request's `file_objects` are part of `Fingerprint`.

### EventPages

`history[c]` is the evidence of case `c` at every revision, `cache` the
dictionary `COUNTS_CACHE` with its oldest entry first, `page[t]` the request
thread `t` is in. A request's read transaction sees one revision (`Begin`), so
the total is taken there; what follows is one action per access to the
dictionary: `Hit` or `Miss`, `TestSize`, `MakeIterator` (which notes the size),
`ChooseOldest` or `SizeChanged` (another thread has changed it: `RuntimeError`),
`Evict` or `EvictTwice` (the key is gone: `KeyError`), `Insert`. Both exceptions
end the request in `Failed`. `disturbed` is a history variable: who of those that
evict had the keys changed under it. A search text, source or category narrows
the page and not the counts, and is left out with the rows themselves.

### BoundedGraph

One request inside its read transaction. `BeginLevel` ... `EndLevel` are one turn
of the loop over the depth, `Query` one SELECT, `ReadRow` one row of it; `Build`
is what remains of the nodes after the kinds and the limit. `build_graph` appears
by the entities each event mentions and the further edges it draws between them
(`Relations`), and its result is cut twice: the nodes to `limit`, which sets
truncated, and the edges between them to eight per node of the limit
(`EdgesLeft`), which does not. Both are cut in the order of hashes, so any nodes
but the root, and any edges, may be the ones that stay. The answer without a root
(the first `limit` events) is left out.

### CorrelationRules and CandidateIndex

An event is a record of the fields the rules read. Times are seconds, a folded
path is a directory and a base name, a command line is the set of its tokens,
and an unknown field is `None`, which agrees with nothing and contradicts
nothing. A rule returns its reasons with their weights and the side they were
found from, because a lookup made in both directions can count twice.
`KeptReasons` is what `correlate` keeps of a pair: incompatible hosts and
lifetimes, missing anchors and the window of the lasting reasons remove all of
it. `CandidateIndex` has `Entries` and `Queries` for `identities`, `Finds` for the
minute buckets of `pairs`, and `BuildIndex`, `ScorePair` and `Return` for the
pass of `correlate` over the pairs of a case of any size, in their sorted order.

### GraphBuild

`Analyze` correlates the events and `Build` makes the graph, before or after. A
node is named by a tuple. `CoreLinks` are `build_graph`'s, `FileLinks`,
`SectionLinks` and `NetworkLinks` those of `extend_graph`; `ParentLinks` is the
loop over recorded parents that follows when every event was read, `Projected`
what a correlation says in one direction, `Coalesced` the merging of links with
equal ends and kind. Labels and provenance are left out.

### DiskImage and MftPaths

`load_file` step by step: hash, discovery, one action per volume and per
artifact, the comparison of size and time stamp, the manifest, the import.
`WriteImage` may come between any two of them. An exception in `OpenVolume` leaves
the loop with the events of earlier volumes, as in the code. `MftPaths` has
`Resolve` for one row: the walk through recorded references, the bound on its
depth, the path written into every row of the walk with the provenance of those
above; `UsnPath` is the choice of a journal record among the rows of its
reference. The rows may be in any order.

### MemoryExports

`LoadExport` validates one export, `MergeExports` joins the five process plugins
(all or none), `ConvertExport` takes one of the others, `CompareScans` looks for
processes that only `psscan` found. Rows of a process number are merged by
creation time when one is known and refused when they contradict each other; a
process is named by its number and creation time, or its offset.

### PcapImports

Flows are a fold over the packets; the body of a packet is one file, created
(`RecoverBody`), then written (`WriteBody`, `WriteFails`), or found and compared
(`VerifyBody`). Importers share `created` and `whole`, and `Kill` ends one at any
step. A capture stands for its own hash, so that the same capture shares its
directory and another one does not.

### CaseImports

`import_case` checks the manifest, then for each entry reads the $MFT events of
the case (`ReadMft`), loads the evidence (`Load`) and imports it (`Import`), which
the storage refuses when an event id exists. `import-memory` ends in `Write`, which
creates its output file exclusively. `Abort` is the end of the process or an error
of the database, and every command can be started again. `reports` counts the
imports recorded, and every event is stored with the number of its own; `settled`
is how many there were when a client came to its entry, before it reads any $MFT.
What a journal was named by is compared with these numbers
(`JournalsUseEarlierMfts`), so that it does not matter when or how often `ReadMft`
reads.

### DesktopBackend and Workspace

`DesktopBackend` lets the child run by itself; what happens to it reaches the
application as later events (`SeeExit`, `ReadAddress`), and `start`, every call of
`stop` and the handlers of `main.ts` are steps between awaits. `BecomeReady` may
also go on waiting with its endpoint set, because `start` swallows an error in
writing `runtime.json`. `Callers` are the
three places `stop` is called from. In `Workspace`, `work` is what the action under
way waits for, and one call of `refreshMemoryJobs` with the timer it sets is a
strand: it asks, is answered, waits and asks again. Shown things are named by
the case they belong to.

## The runs

| Run | Instance | Shows |
|---|---|---|
| `case_store` | 2 clients, 3 events in 2 batches (one partial), 2 thresholds, 1 root, 2 recorded imports | published, persisted and answered results belong to the evidence of the moment, the audit trail agrees with it, and `CaseStore` implements `CaseContract` |
| `memory_cache` | 2 jobs, 1 plugin, cached and re-run requests, 1 write to the image, 1 failed save | imported events are what they claim; recorded outcomes are final |
| `memory_ends` | 2 jobs of 1 plugin with 1 failed save, or 1 job of 2 plugins with 2, with fairness | report, plugin states and stored events agree; jobs end, shutdown completes |
| `event_pages` | 2 threads, 2 cases, 2 events, room for 2 entries, 2 imports per case | counts belong to their revision; the cache stays bounded; an eviction fails only by interference |
| `graphs` | pairs of events in 9 families with times on the edges of windows and buckets, and cases of three events; graphs of cases of 2 and 3 events in 6 families; all graphs over 4 events with 2 scores, every depth, limit and threshold that matters | the index loses three named shapes and no other; edges are symmetric and justified by the records; graphs do not depend on the order of events but for one edge; a wrong direction never stands alone; bounded answers are near and announce every cut but that of the edges |
| `collectors` | 4 disks, 5 requests, 2 writes, 2 imports; root and 3 rows in 3 references, depth 2; 2 processes with every agreement and contradiction of 4 further plugins; 2 importers of captures with shared bodies; all captures of 3 packets in 2 streams | events come from the hashed image, failures stay with their artifact, paths and relations are those of the records, bodies are whole or reported, flows are conversations |
| `case_imports` | 2 clients, 4 commands, 3 starts in all | journals are named by the $MFTs recorded before them and no later ones, entries are accounted for, no event or output is replaced, commands end |
| `desktop` | one start, three callers of `stop`; 2 cases, 2 strands, a job in one case | stops are orderly; starting and quitting end; the window catches up |
| `workspace` | 2 cases, 2 strands, failing requests | between two actions everything shown is of the open case |
| `memory_restored` | as `memory_cache`, the image is written twice and restored | violation, see below |
| `memory_cancel` | 1 job, 1 plugin | violation, see below |
| `disk_image_changed` | the disks of `collectors` | violation, see below |

Where one idea has several parts, the property is their conjunction, and the
parts are stated one by one, each with its explanation, in the module of the
component. Every part is broken by a mutant of its own.

Why these bounds. Two clients are enough for every pair of requests to
interleave, and the invariants speak of one client and the database. Three
events in two batches let the evidence grow under an analysis and under a view;
the scores are chosen so that the thresholds give different edges and the
component of the root takes two hops. A batch imported twice is the duplicate
that is refused, and two recorded imports let another come between a refusal and
its record. Two jobs are what the cache needs: one to fill it and one to use it.
Two plugins can end differently; one failed save puts dictionary and manifest
apart, two let the except clause fail as well. `MaxEdits` and `MaxFaults` bound the
writes to the image and the failed saves; the constants `ImportId` and `Job` bound
imports and jobs. Six keys compete for the two entries of the cache, which is as
many as two threads need to overfill it; the capacity of the code (128) is not
below the number of threads that serve requests (40 by default), and neither is
the model's (`PagesAssumption`). Four events allow paths of three steps, cycles and
a component of its own; two events per query and as many rows as nodes let every
bound bite in turn.

Rules read two events, so families of pairs cover them when each field takes
the values that agree, disagree or are unknown, and times lie on both sides of
every window (60 s, 120 s) and bucket (60 s); cases of three events (`Households`)
give the pass several pairs to take, of which it keeps some. One family has flows
that record a file as well, and flows of the graphs have one remote address or
two. A parent, two rows of its child and every order of them are what the
resolution of recorded parents tells apart. Two volumes, one of them a clone, partial or broken, are enough for a
name or a failure to pass from one to the other; two writes change an image and
change it again. Three rows below the root form chains longer than `Depth` (2,
which stands for 128), cycles, orphans, reused records and hard links. Two
lifetimes make a number ambiguous. Three packets have an earliest, a latest and
one between them. `MaxRuns` = 3 starts let a command race with another and be run
again; `Strands` = 2 are a poll and a late answer.

Deadlock is checked where a system goes on for ever (`case_store`, the memory
jobs, `event_pages`): a case can always be asked, and a closed application can be
opened again. The other systems really stop: a pass, an import, a command, an
application that has been quit.

Fairness. `memory_ends`: weak fairness of the worker as a whole, since the
executor's thread runs and a child exits or is stopped by its timeout, and weak
fairness of `Exit`, since close waits for the executor and nothing else. None for
cancellations, crashes, restarts, image writes or exceptions. `EveryJobEnds`
speaks of jobs whose manifest was saved, which are those whose start was
acknowledged. The bounds on failed saves and pairs of plugins
(`Bounded`) are part of the next-state relation: they forbid a further failure or
request, and leave every step of the worker its success. `case_imports`: weak fairness of each
client's own steps, a sequential program; none for being started or aborted.
`desktop`: events are delivered and timers go off, the backend notices the end of
its input, a process that was killed dies, requests of the window are answered.
Nobody has to quit, to close a dialog or to switch cases; the backend need not
start, answer or react. The steps of an action of the window are strongly fair,
because they wait for a free strand, and the number of strands is a bound of the
model and not of the program.

## Findings

`memory_restored`: `_execute` enters a plugin's output into the cache of the
image's hash before it notices that the image has changed, and leaves the entry
there. If the image regains its content (or a copy of the original is analyzed:
the cache is keyed by hash alone), the next job imports the output of other
bytes as "verified output from the same image hash". With an image that never
returns to an earlier content the property holds (`memory_cache`).

`memory_cancel`: a cancellation that arrives during hashing ends the job and
leaves its plugins PENDING for good, where the documentation says that
cancelling marks pending plugins cancelled.

`disk_image_changed`: `load_file` compares size and time stamp only after the last
volume. An image that is overwritten so that a later volume cannot be opened
leaves the loop by an exception, the comparison is skipped, and the events read
from the new bytes are stored under the old hash as a partial import.
`CompletedExtractionsMatchTheImage` says what does hold, of image runs that
succeed.

Seen while modelling, reachable in the models, and stated in the properties as
exceptions or left unclaimed:

- The index loses three shapes of pairs the rules accept (`MissedPairsAreKnown` names
  them): an endpoint seen during a long flow, more than a minute after its start
  (`index.py:169`); whatever else such a flow records, which no adapter's flow does
  but an event posted by a client may; and a process whose path names a program
  while its recorded name is missing or cut short (`index.py:42`).
- A digest in the hash section of an event is not compared by the rule that
  refuses file matches with different contents (`correlation/artifacts.py:14`).
- A rule found from one side of a pair is drawn both ways when both events record
  a process and a file (`graph/artifacts.py:210`), or two processes each other's
  number (`:216`): one of the two edges is then wrong. `DirectionsAreRecorded` says
  that the other one always stands beside it. Of several addresses of its event, a flow
  refers to the one the case came upon last, which need not be its destination
  and depends on the order of the events (`:199`). Only events that a client posts
  have several; `Definite` leaves their edges out of `GraphIgnoresOrder`.
- The last cut of the edges of a bounded graph, to eight per node of the limit, does
  not set truncated (`views.py:205`), so an unmarked answer may lack edges between
  nodes it shows. `CutsAreAnnounced` excepts answers that are full of edges
  (`EdgesAreFull`); no document says what the flag means for edges.
- An eviction that another request overtakes ends its request: the size of the
  cache changed under its iterator (`RuntimeError`), or the oldest key is gone
  already (`KeyError`), and the client receives an error 500 (`views.py:114`).
- Two artifacts of one volume with equal bytes have equal event ids, and the
  duplicate rolls back the whole import (`images.py:355`).
- One of the five process plugins that cannot be merged fails the other four
  (`extended.py:124`).
- A body file that was left unfinished is never repaired: later imports of the
  capture leave the body out, with a warning (`pcap.py:296`).
- A backend that exits while its health answer is on its way is taken for ready
  and not reported (`backend.ts:71`); a second attempt to quit ends the application
  while its first `stop` still waits (`main.ts:161`).
- The answer to a cancellation in a case that was left clears the timer of the case
  now open (`renderer.ts:785`), and one failed poll ends the polling (`:792`).
  `FinishedJobsAreShown` is therefore checked with answered requests and jobs in
  one case.

## The proofs

A theorem holds for every value of the constants that satisfies the named
assumptions of the module; TLC evaluates these on the instances of the runs.
Each theorem has the form "the initial states satisfy the inductive invariant,
every action keeps it, and it implies the property", with one lemma per action
(`...Keeps`, `...Holds`, `...Counts`) where an action needs more than a line.
Sets of any size are counted with `FiniteSetTheorems`. A leaf that names a time
(`SMTT(60)`, `ZenonT(60)`) is one that its prover takes some seconds for; every
other leaf is proved in a fraction of the default time.

### CaseStore

Assumed: finite batches, scores between 0 and 100, sentinels distinct from events
and numbers (`ValuesAssumption`, `StoreAssumption`).

| Theorem | Property |
|---|---|
| `TypeCorrect` | `TypeOK` |
| `RequestsStaySound` | `RequestsTrackEvidence` |
| `PublishedAnalysisIsCurrent` | `AnalysisMatchesEvidence` |
| `StoredGraphIsCurrent` | `StoredGraphMatchesEvidence` |
| `AnswersDescribeTheEvidence` | `AnswersAreCurrent` |
| `ReceiptsAreRecorded` | `ReceiptsMatchAudit` |
| `AuditIsTrue` | `AuditAccountsForEvidence` |
| `ContractIsKept` | `KeepsContract`, the refinement of `CaseContract` |

The inductive invariant is `IInv`: the type invariant with
`RequestsTrackEvidence`, `AnalysisMatchesEvidence` and
`StoredGraphMatchesEvidence`. The last two are not inductive alone. An analysis
is saved from events read earlier, and only `RequestsTrackEvidence` says that
those are the present events whenever the revision compares equal; it in turn
needs the published analysis to match, because that is what a view reads. The
argument follows from three facts: every step touches the evidence only through
`Store`, which moves the revision past every pinned one (`StoreKeeps`); a step
that leaves the evidence alone moves one request (`OneRequestMoves`); and a
request that passes its last comparison therefore answers from the present state
(`NextDescribes`).

For the audit, `AuditInv` adds that imports and evidence are finite. What the
reports claim is a fold over a set whose size is not known, so `ClaimedStep` first
shows that adding a report adds its count, whatever the order of the fold
(`SumsAgree`, `SumsExist`).

The refinement maps the transactions of a request to one step of the contract: a
request that has read is one that has glimpsed (`ViewIsReady`), all the reads but
the last are stutters (`QuietStep`, `EarlyReadRefines`), and the write that commits
or the comparison that succeeds is the contract's answer. It needs
`RefinementInv`: besides `IInv`, that a refused import carries a report which is not
yet in the audit trail, and that a root was looked up before it is used.

### EventPages

Assumed: a capacity not below the number of threads (`PagesAssumption`).

| Theorem | Property |
|---|---|
| `CacheIsBounded` | `CacheStaysBounded` |
| `PagesAreConsistent` | `PagesMatchTheirRevision` |
| `EvictionsFailOnlyByOthers` | `EvictionsFailByInterference` |

The size of the cache alone is not inductive: several threads may have found
room and not used it yet. `RoomIsReserved` adds the threads that are about to
insert. A thread joins them either while an entry is free, and then at most all
threads are among them, or by evicting, and then it has made the room it takes.
`EvictionsAreCovered` is its counterpart for the threads that found the cache full:
each of those that evict first found it full as well, so that a key is left.
`Undisturbed` is what a thread keeps as long as nobody else changes the keys: the
size its iterator noted, then a victim that is still there. For the counts, `CacheMatchesHistory` and `RequestsMatchHistory` say the same of
entries and of requests on their way, which an import keeps because it never
changes an earlier revision (`ImportKeepsThePast`).

### MemoryJobs

Assumed: `JobsAssumption` (requests name plugins, the tool version None is no
fingerprint, the bounds are numbers).

| Theorem | Property |
|---|---|
| `JobsTypeCorrect` | `TypeOK` |
| `ReportsAreTrue` | `ReportsMatchPlugins` |
| `OutcomesAreTrue` | `OutcomesMatchEvidence` |
| `OutcomesAreFinal` | `RecordedOutcomeIsFinal` |
| `EventsComeFromTheImage` | `EventsMatchImage`, with a hypothesis |

The invariant of the first four has three layers. `Scheduled`: the queue has no
job twice, and the one running is not in it. `Placed`: what the worker's record
holds at each of its places. `Unfinished` and `RecordsTrue`: a job in hand has no
recorded outcome and no rows in the case until it imports, and a recorded
outcome, in the dictionary or in the manifest, agrees with the rows. That the two
copies may differ after a failed save is why both are spoken of.

`EventsComeFromTheImage` is proved under `NeverRegained(rank)`: the contents of the
image can be ranked so that every write raises the rank. This is the hypothesis
that nobody restores an earlier content; the run `memory_cache` satisfies it, and
`memory_restored` violates both it and the property. `Traced` relates every output,
cache entry and export to the span of ranks in which it was read. Hash and output
were read between two equal time stamps, or the job does not import; a cached
output was read after contents with its hash, and the present image has that hash
again; by the ranks there was no other content in between.

### CaseImports

Assumed: `CommandsAssumption` (every command has an entry, files are sequences).

| Theorem | Property |
|---|---|
| `JournalsAreNamed` | `JournalsUseEarlierMfts` |
| `ManifestsAreAccountedFor` | `EntriesAreAccountedFor` |
| `NothingIsTakenBack` | `NothingIsReplaced` |

Imports are numbered in the order in which they are recorded (`Numbered`), and
`Mfts(n)` are the $MFT events of the first n. `Placed` ties the reports a client has
to the entry it has come to; `Carried` says what a client takes from one step to
the next: what it knows, and what names the batch it holds, lies between
`Mfts(settled)` and `Mfts(reports)` (`Reads`). An import by another client leaves
the lower bound as it is, since its number is higher, and only raises the upper
one (`MftsStay`, `ReadsStay`); the import of the batch itself takes the number
after `reports`, which makes the upper bound the imports before its own
(`ImportNames`). `Loaded` says of a batch that it has no more events than files, so that
one with as many identities as files has no event twice.

### Workspace and DesktopBackend

Assumed: `NoneAssumption` (null is no case, query or answer); nothing for the
backend.

| Theorem | Property |
|---|---|
| `WindowStaysConsistent` | `WindowIsConsistent` |
| `BackendIsStoppedInOrder` | `StopsAreOrderly` |

Between two actions the window shows one case, but not in the middle of opening
one; `ShownIsOneCase` says at which steps of an action it does, and what the late
answers of polls and timers can therefore still carry. For the backend,
`ExitsAreReal` and `StopsDispose` say that an exit was seen only of a process that
is gone, and that a call of `stop` gives up only after it ran taskkill.

### Collectors

| Theorem | Property | Invariant |
|---|---|---|
| `ImagesAreReadAsHashed` | `CompletedExtractionsMatchTheImage` | `DiskInv` |
| `FailuresStayConfined` | `FailuresAreConfined` | `DiskCounts` |
| `NamesDoNotCross` | `JournalNamesAreTheirOwn` | `DiskInv`, `PathsInv` |
| `PathsAreResolved` | `PathsAreRecorded` | `PathsInv` |
| `EventsComeFromSuccesses` | `RunsAgreeWithEvents` | `MemoryInv` |
| `ProcessesAreTold` | `ProcessesAreToldApart` | `MemoryInv` |
| `BodiesAreRecovered` | `BodiesAreAccountedFor` | `PcapInv` |
| `FlowsAreRight` | `FlowsMatchPackets` | `PcapInv` |

Assumed: volumes and artifacts are listed (`DisksAssumption`); rows of an $MFT are
listed, and None is no path and no row number (`FilesAssumption`); exports are
files of their own (`InputsAssumption`); a capture is a sequence of packets
(`CapturesAssumption`).

`DiskInv` follows the stamp of the image: versions only grow, so that equal stamps
at both ends mean that nothing was written between, and every event read in
between was read from what was hashed. `DiskCounts` keeps an account: the runs so
far, and the artifacts left of the volume at hand, are together as many as the
artifacts due in the volumes begun (`Counted`), and the successful runs are as many
as the events (`Matched`).

`PathsInv` says of every path that it is the chain of recorded parents, whichever
row it was resolved for. The walk of `Resolve` is a recursive function over depths
up to `Depth`, so `WalkIsTrail` first gives its value at each depth, by the least
depth at which it would fail. That every row in reach does get its path
(`WalkedRowsHavePaths`) rests on chains without repetition being no longer than
there are rows, a counting of distinct ancestors (`WayIsShort`).

`MemoryInv` relates every event to a row of an export that was accepted, and each
process to the rows of its number that agree in the time of creation
(`ProcessesPartition`). `PcapInv` has three parts for each importer: what it wrote
is below its own directory (`Located`), a body it names is whole or being written
by it (`Recovered`), and its flows are those of the packets it has passed
(`Conversing`); the files of others only grow, so they keep all three.

### CaseGraphs

| Theorem | Property | Invariant |
|---|---|---|
| `AnswersAreNear` | `ResultIsNear` | `SearchInv` |
| `CutsAreTold` | `CutsAreAnnounced` | `SearchInv` |
| `MissesAreNamed` | `MissedPairsAreKnown` | `IndexInv` |
| `EdgesRestOnIdentities` | `EdgesAreSound` | `IndexInv` |
| `ParentsAreLinked` | `RecordedParentsAreLinked` | `CaseInv` |
| `DirectionsHold` | `DirectionsAreRecorded` | `CaseInv` |
| `OrderDoesNotMatter` | `GraphIgnoresOrder` | `CaseInv` |

Assumed of the search: finitely many events with finitely many entities, depth up
to 8 and limit up to 2000 as the API accepts them (`SearchAssumption`). Of events:
times are numbers, and a path, a program and an answer that are recorded have
known parts (`PairsAssumption`); the events of a case have identifiers of their
own and finite lists, a process or a file that is recorded has a node, and addresses are ordered (`CasesAssumption`). Nothing is
assumed of which sections an event has: a flow may record a process or a file, and
may have several addresses, which adapters do not write and a client may post.
What such events cost is stated in the properties (`SharedDuringFlow`, `Definite`).

The search. What is near a root is a function of the number of steps. Its lemmas (it grows,
it grows with the edges, it stays in every closed set) are proved for each number
up to 8. `SearchInv` then has four parts besides types. `Followed`: a row touches the
frontier, so it brings one event at most. `Reached`: the frontier was found one
level earlier than what it finds. `Covered`, the heart of it: a correlation of an
event whose rows were read is followed or still to be read, or else truncated is
set, the limit is reached and its other end is not in the answer, unless a query
had more rows than it may return. `Ended`: without truncated, no frontier is left
and no node was cut. Completeness follows, because the events found are then
closed under all correlations: the nodes are those of the whole component, and
`EdgesLeft` either keeps all edges between them or is full.

The rules and the index. `IndexInv` speaks of the pairs of a case of any size: a
result is what the rules keep of its pair, and a pair that the buckets bring
together and the rules accept is a result or still to be scored. That the pass
takes the pairs in their order needs that some pair left comes first
(`FirstPair`). The two properties then are about pairs of events, and three groups
of lemmas lead to them, each with one lemma per rule:

- `...Fair`: a rule gives the two orders of a pair the same reasons, with their
  sides exchanged (`Fair`). That the scores are therefore equal needs that the
  sum over a set of reasons, a recursive function which takes them one by one,
  adds up in whatever order (`TotalInAnyOrder`), and keeps its value when the sides
  are exchanged (`FlipKeepsTotal`).
- `...Rules`: what a reason says of the two events (`RuleFact`, and `LastingFact` for
  the identities that join distant events).
- `...Meet`: what a rule accepts, the index finds. An identity that lasts is entered
  without a time. The others rest on events that are within a minute of each
  other, so that one is in a bucket which the other looks up; on extracted events,
  which are looked up without a time; or on a flow that lasted. `KeptMeet` joins
  them. Flows leave the first two of the three exceptions, names of programs the
  third.

The builder. `CaseInv` says that each correlation is what the rules keep of a pair
of events of the case, and that the graph is `Graph` of events and correlations.
What an edge is then follows from what a link is: it is drawn from one event
(`Own`, one lemma per section of an event), from a parent to a child (`ParentLinksAre`)
or by a correlation (`CorrelationLinksAre`), and `EdgesAre` relates an edge to the
links of one relation that are coalesced in it. A recorded parent has full score
because the reason a correlation is drawn from as a parent is only given to rows
without an instance (`PairReason`), and a node tells whether its rows have one
(`NodeTells`): no such correlation joins the two processes. Directions: every row
an edge between processes rests on is traced to one of the two loops that draw them
(`ParentRowsOfEdges`); what a row of the parent or a command line then says follows
from the reasons of the process rule and of the file rule (`ParentEdges`,
`CommandEdges`); and where it says the opposite, the rule was found from the other
side, so that the converse link was drawn too (`DrawnBothWays`) and is part of an
edge of the graph (`LinkIsDrawn`). For the
order of events, every definition up to `Graph` is shown to depend on the set of
events only, but for the one that picks an address. It picks one of the event's own
(`AddressIs`), so that a link is the same in every order unless its event has
several addresses (`LinksIgnoreOrder`), and so are the edges (`DefiniteEdges`).

### Model-checked only

Liveness under fairness (`JobsAndShutdownsEnd`, `EveryCommandEnds`,
`ApplicationEnds`, `WindowCatchesUp`), which is out of the prover's reach, and the
runs that expect a violation. Every safety property of the passing runs is a
theorem; the runs show that the hypotheses of each are met and that the
interesting cases occur.

## The plan

No safety property that the runs check is left to prove, and none is proved of less
than its run checks, but for `EventsComeFromTheImage`, whose hypothesis is needed
(`memory_restored`). What could be added is listed below.

## Not modelled

File formats and packet decoding (dissect's, TShark's and Volatility's), and the
mapping of single rows to fields, which is pure and has no order; evidence
sniffing; the comparison of kernel modules; filters and searches of event
queries; the recovered files of `dumpfiles`; schema migration (additive, once, at
start-up); the Windows Job Object; log rotation, dialogs, the inspector, the
drawn graph, layout and wording of the user interface; packaging and release
scripts.
