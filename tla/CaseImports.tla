----------------------------- MODULE CaseImports -----------------------------
(***************************************************************************)
(* The ImportService and the commands that use it.  import_case checks a   *)
(* whole manifest and then imports its entries one by one, each in its own *)
(* transaction; several clients work on one case, a client can be killed   *)
(* between any two steps and the same command can be run again.            *)
(*                                                                         *)
(* A command is [entries, wellFormed, output]: wellFormed[i] says whether  *)
(* entry i passes the checks of import_case, and output is the file        *)
(* import-memory writes its events to, None for every other command.  An   *)
(* entry is [kind, files], a file is its bytes; equal bytes have equal     *)
(* event identities.  All evidence is of one acquisition, host and volume.  *)
(***************************************************************************)
EXTENDS Naturals, Sequences, FiniteSets, SequencesExt, ParserRuns

CONSTANTS
  None,
  Client,
  Commands,
  MaxRuns      \* bound: commands started in all

\* import_case refuses a manifest without inputs before it does anything; every
\* other command has one entry.
ASSUME CommandsAssumption ==
  /\ MaxRuns \in Nat
  /\ \A cmd \in Commands :
       /\ cmd.entries \in Seq(ToSet(cmd.entries)) \ {<<>>}
       /\ \A i \in DOMAIN cmd.entries :
            cmd.entries[i].files \in Seq(ToSet(cmd.entries[i].files))

VARIABLES
  stored,      \* the events of the case, with the number of their import
  reports,     \* the number of imports recorded, refused ones included
  outputs,     \* the output files written, with the client that wrote them
  runs,        \* the number of commands started
  command,     \* of each client: what it runs,
  pc,          \* where it stands,
  entry,       \* the entry it has come to,
  known,       \* the $MFT events it has read for it,
  held,        \* the batch it has loaded,
  answer,      \* the statuses of its reports,
  settled      \* the imports recorded when its entry began

vars == <<stored, reports, outputs, runs, command, pc, entry, known, held, answer, settled>>

Place == {"idle", "check", "begin", "load", "import", "write", "done",
          "rejected", "aborted", "unwritten"}
Ended == {"done", "rejected", "aborted", "unwritten"}

Init ==
  /\ stored = {}
  /\ reports = 0
  /\ outputs = {}
  /\ runs = 0
  /\ command = [c \in Client |-> None]
  /\ pc = [c \in Client |-> "idle"]
  /\ entry = [c \in Client |-> 0]
  /\ known = [c \in Client |-> {}]
  /\ held = [c \in Client |-> None]
  /\ answer = [c \in Client |-> <<>>]
  /\ settled = [c \in Client |-> 0]

Entry(c) == command[c].entries[entry[c]]
MftEvents == {e \in stored : e.kind = "mft"}

Goes(c, place) == pc' = [pc EXCEPT ![c] = place]

\* The events an adapter makes of an entry's files, one for each.
EventsOf(c) ==
  [i \in DOMAIN Entry(c).files |->
     [ id |-> <<Entry(c).kind, Entry(c).files[i]>>, kind |-> Entry(c).kind,
       namedBy |-> known[c] ]]

\* An event as it is stored, with the import it came with and the last one that was
\* recorded when its entry began.
AsImported(c, e) ==
  [ id |-> e.id, kind |-> e.kind, namedBy |-> e.namedBy,
    since |-> settled[c], number |-> reports + 1 ]

-----------------------------------------------------------------------------
(* A command *)

\* Mutant: the reports of the command before are still there.
KeepsReports(c, cmd) ==
  /\ pc[c] = "idle" \/ pc[c] \in Ended
  /\ runs < MaxRuns
  /\ runs' = runs + 1
  /\ command' = [command EXCEPT ![c] = cmd]
  /\ entry' = [entry EXCEPT ![c] = 1]
  /\ Goes(c, "check")
  /\ UNCHANGED <<stored, reports, outputs, known, held, answer, settled>>

\* A new process or request runs a command.
Start(c, cmd) ==
  /\ pc[c] = "idle" \/ pc[c] \in Ended
  /\ runs < MaxRuns
  /\ runs' = runs + 1
  /\ command' = [command EXCEPT ![c] = cmd]
  /\ entry' = [entry EXCEPT ![c] = 1]
  /\ answer' = [answer EXCEPT ![c] = <<>>]
  /\ Goes(c, "check")
  /\ UNCHANGED <<stored, reports, outputs, known, held, settled>>

\* Mutant: an entry is checked when its turn comes; the first one is enough.
CheckFirst(c) ==
  /\ pc[c] = "check"
  /\ Goes(c, IF command[c].wellFormed[1] THEN "begin" ELSE "rejected")
  /\ settled' = [settled EXCEPT ![c] = reports]
  /\ UNCHANGED <<stored, reports, outputs, runs, command, entry, known, held, answer>>

\* import_case turns every entry into a request before it imports the first.
Check(c) ==
  /\ pc[c] = "check"
  /\ Goes(c, IF \A i \in DOMAIN command[c].entries : command[c].wellFormed[i]
             THEN "begin" ELSE "rejected")
  /\ settled' = [settled EXCEPT ![c] = reports]
  /\ UNCHANGED <<stored, reports, outputs, runs, command, entry, known, held, answer>>

\* Mutant: the $MFT events are read once, for the first entry.
ReadMftOnce(c) ==
  /\ pc[c] = "begin"
  /\ known' = IF entry[c] = 1
              THEN [known EXCEPT ![c] = {e.id : e \in MftEvents}] ELSE known
  /\ Goes(c, "load")
  /\ UNCHANGED <<stored, reports, outputs, runs, command, entry, held, answer, settled>>

\* import_evidence begins: a USN import reads the $MFT events of the case.
ReadMft(c) ==
  /\ pc[c] = "begin"
  /\ known' = [known EXCEPT ![c] =
                 IF Entry(c).kind = "usn" THEN {e.id : e \in MftEvents} ELSE {}]
  /\ Goes(c, "load")
  /\ UNCHANGED <<stored, reports, outputs, runs, command, entry, held, answer, settled>>

\* The adapters run, file by file for a directory.  Every file ends as a run of
\* its own; an error of the whole input (a missing file, an unsupported kind)
\* becomes a single failed run.  import-memory then refuses an output that
\* exists, before it opens the case.
Load(c) ==
  /\ pc[c] = "load"
  /\ \/ \E good \in SUBSET DOMAIN Entry(c).files, other \in {"FAILED", "UNAVAILABLE"} :
          LET all == good = DOMAIN Entry(c).files
              states == (IF good = {} THEN {} ELSE {"SUCCESS"}) \cup
                        (IF all THEN {} ELSE {other})
          IN  held' = [held EXCEPT ![c] =
                         [ events |-> {EventsOf(c)[i] : i \in good},
                           count |-> Cardinality(good), states |-> states ]]
     \/ held' = [held EXCEPT ![c] = [events |-> {}, count |-> 0, states |-> {"FAILED"}]]
  /\ Goes(c, IF \E o \in outputs : o.file = command[c].output
             THEN "rejected" ELSE "import")
  /\ UNCHANGED <<stored, reports, outputs, runs, command, entry, known, answer, settled>>

\* Mutant: a failed entry ends the command.
AfterSuccess(c) ==
  IF entry[c] < Len(command[c].entries) /\ "FAILED" \notin held[c].states THEN "begin"
  ELSE IF command[c].output # None THEN "write" ELSE "done"

\* Where a command goes after an import.
AfterEntry(c) ==
  IF entry[c] < Len(command[c].entries) THEN "begin"
  ELSE IF command[c].output # None THEN "write" ELSE "done"

\* The import of a batch: what is in the case after it, and its status.
Imports(c, after, status) ==
  /\ stored' = after
  /\ reports' = reports + 1
  /\ answer' = [answer EXCEPT ![c] = Append(@, status)]
  /\ entry' = [entry EXCEPT ![c] = @ + 1]
  /\ settled' = [settled EXCEPT ![c] = reports + 1]
  /\ Goes(c, AfterEntry(c))
  /\ held' = [held EXCEPT ![c] = None]
  /\ known' = [known EXCEPT ![c] = {}]
  /\ UNCHANGED <<outputs, runs, command>>

Batch(c) == {AsImported(c, e) : e \in held[c].events}

\* Mutant: an identity that is taken is added once more.
AddAgain(c) ==
  /\ pc[c] = "import"
  /\ Imports(c, stored \cup Batch(c), ImportStatus(held[c]))

\* Mutant: an event whose identity is taken replaces the one that has it.
Upsert(c) ==
  /\ pc[c] = "import"
  /\ Imports(c, {e \in stored : \A f \in Batch(c) : e.id # f.id} \cup Batch(c),
             ImportStatus(held[c]))

\* import_batch: all events or, when an identity is taken, none and a failed
\* report, which is recorded all the same.
Import(c) ==
  LET ids == {e.id : e \in held[c].events}
      refused == \/ ids \cap {e.id : e \in stored} # {}
                 \/ Cardinality(ids) # held[c].count
  IN  /\ pc[c] = "import"
      /\ Imports(c, IF refused THEN stored ELSE stored \cup Batch(c),
                 IF refused THEN "FAILED" ELSE ImportStatus(held[c]))

\* Mutant: the output is opened for writing, whatever is there.
Overwrite(c) ==
  /\ pc[c] = "write"
  /\ Goes(c, "done")
  /\ outputs' = {o \in outputs : o.file # command[c].output} \cup
                {[file |-> command[c].output, by |-> <<c, runs>>]}
  /\ UNCHANGED <<stored, reports, runs, command, entry, known, held, answer, settled>>

\* Mutant: the command waits for the file to go away.
WaitForFile(c) ==
  /\ pc[c] = "write"
  /\ \A o \in outputs : o.file # command[c].output
  /\ outputs' = outputs \cup {[file |-> command[c].output, by |-> <<c, runs>>]}
  /\ Goes(c, "done")
  /\ UNCHANGED <<stored, reports, runs, command, entry, known, held, answer, settled>>

\* The events are written to a file that must not exist: the import stays when
\* another command has made it since the check.
Write(c) ==
  /\ pc[c] = "write"
  /\ \/ /\ \A o \in outputs : o.file # command[c].output
        /\ outputs' = outputs \cup {[file |-> command[c].output, by |-> <<c, runs>>]}
        /\ Goes(c, "done")
     \/ /\ \E o \in outputs : o.file = command[c].output
        /\ Goes(c, "unwritten")
        /\ UNCHANGED outputs
  /\ UNCHANGED <<stored, reports, runs, command, entry, known, held, answer, settled>>

\* The database cannot be read or written, or the process is killed: what was
\* committed stays, the rest of the command is lost.
Abort(c) ==
  /\ pc[c] \in {"begin", "load", "import", "write"}
  /\ Goes(c, "aborted")
  /\ held' = [held EXCEPT ![c] = None]
  /\ known' = [known EXCEPT ![c] = {}]
  /\ UNCHANGED <<stored, reports, outputs, runs, command, entry, answer, settled>>

Next ==
  \E c \in Client :
    \/ \E cmd \in Commands : Start(c, cmd)
    \/ Check(c)
    \/ ReadMft(c)
    \/ Load(c)
    \/ Import(c)
    \/ Write(c)
    \/ Abort(c)

\* Every client keeps running; nobody has to start a command or be killed.
Step(c) == Check(c) \/ ReadMft(c) \/ Load(c) \/ Import(c) \/ Write(c)

Spec == Init /\ [][Next]_vars /\ \A c \in Client : WF_vars(Step(c))

-----------------------------------------------------------------------------
(* Properties *)

\* The variables are of the expected shape, and a client has at most one
\* report for each entry it has passed (import_case).
TypeOK ==
  /\ runs \in 0..MaxRuns
  /\ reports \in Nat
  /\ pc \in [Client -> Place]
  /\ \A c \in Client :
       /\ pc[c] # "idle" => command[c] \in Commands
       /\ pc[c] = "import" => held[c].states \subseteq RunStatus
       /\ ToSet(answer[c]) \subseteq Status
       /\ pc[c] # "idle" => Len(answer[c]) = entry[c] - 1

\* Manifest order is authoritative: a stored USN record was named by every $MFT of an
\* import that was recorded before its entry began, those of earlier entries of the
\* same manifest included, whoever imported them; and by none of an import recorded
\* after its own, or refused.  Those that commit while the entry is at work may name it
\* or not (import_evidence).
JournalsUseEarlierMfts ==
  LET Mfts(last) == {m.id : m \in {x \in MftEvents : x.number <= last}}
  IN  \A e \in stored :
        e.kind = "usn" => /\ Mfts(e.since) \subseteq e.namedBy
                          /\ e.namedBy \subseteq Mfts(e.number - 1)

\* A manifest with a malformed entry imports nothing, not even the entries
\* before it (import_case).
RejectedManifestsImportNothing ==
  \A c \in Client :
    (pc[c] \notin {"idle", "check", "rejected"}) =>
      \A i \in DOMAIN command[c].entries : command[c].wellFormed[i]

\* Independent entries survive each other: however the evidence fails to load, a
\* command is only cut short by the storage or by its process, and otherwise it
\* ends with a report for each entry (import_case).
EveryEntryIsReported ==
  \A c \in Client :
    pc[c] \in {"done", "unwritten"} => Len(answer[c]) = Len(command[c].entries)

\* What is in the case stays there as it was imported, and an output file as it was
\* written, through retries, crashes and refused imports, although the check that the
\* file does not exist and its creation are far apart (import_batch, run_import).
NothingIsReplaced == [][stored \subseteq stored' /\ outputs \subseteq outputs']_vars

\* Two events of the case have identities of their own: running a command again does
\* not double any (import_batch).
EvidenceIsNeverDoubled ==
  \A e, f \in stored : e.id = f.id => e = f

\* A command that is started comes to an end (import_case).
EveryCommandEnds == \A c \in Client : pc[c] = "check" ~> pc[c] \in Ended

\* A manifest is imported entry by entry: not at all if it is malformed, with a
\* report for each entry otherwise, and never the same event twice (import_case).
EntriesAreAccountedFor ==
  /\ TypeOK
  /\ RejectedManifestsImportNothing
  /\ EveryEntryIsReported
  /\ EvidenceIsNeverDoubled
=============================================================================
