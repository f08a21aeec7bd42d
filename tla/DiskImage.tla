------------------------------ MODULE DiskImage ------------------------------
(***************************************************************************)
(* DiskImageAdapter.load_file and the import that follows: an image file   *)
(* is hashed, its NTFS volumes are discovered and every selected artifact  *)
(* is copied out and given to its adapter.  Nothing locks the image: it    *)
(* can be written between any two steps, and only its size and time stamp, *)
(* taken before and after, tell.                                           *)
(*                                                                         *)
(* A disk is [table, volumes].  A volume is [id, serial, health, found]    *)
(* with found the sequence of artifacts discover_artifacts returns, the    *)
(* MFT first; health is SUCCESS, PARTIAL (some MFT records could not be    *)
(* resolved), FAILED or UNAVAILABLE.  An artifact is [kind, record, bytes, *)
(* fate]: fate says what becomes of it, "parsed", "corrupt" or             *)
(* "unsupported" by its adapter, or "oversize".  The clock of writes,      *)
(* version, stands for size and time stamp together; content is bytes at a *)
(* version.                                                                *)
(***************************************************************************)
EXTENDS Naturals, Sequences, FiniteSets, SequencesExt, ParserRuns

CONSTANTS
  None,
  Disks,        \* what the image file can hold
  Requests,     \* [suffix, kinds, volumes, volumeId] of the import requests
  MaxWrites,    \* bound: writes to the image by others
  MaxImports    \* bound: imports of the image into the case

VARIABLES
  disk,     \* what the image file holds now
  version,  \* and its size and time stamp
  phase,    \* where load_file stands
  job,      \* its local variables
  stored,   \* the events of the case
  reports   \* the finished imports, oldest first

vars == <<disk, version, phase, job, stored, reports>>

Phase == {"idle", "open", "hash", "discover", "volumes", "artifacts", "after",
          "manifest", "import"}

Fresh(request) ==
  [ request |-> request, before |-> None, hash |-> None, selected |-> <<>>,
    todo |-> {}, volume |-> None, volumeId |-> None, mft |-> {}, items |-> {},
    events |-> <<>>, runs |-> <<>>, extracted |-> 0, status |-> "FAILED" ]

Init ==
  /\ disk \in Disks
  /\ version = 0
  /\ phase = "idle"
  /\ job = None
  /\ stored = {}
  /\ reports = <<>>

-----------------------------------------------------------------------------
(* Helpers of load_file *)

\* The bytes of an artifact as they are read now.
Content(item) == <<item.bytes, version>>

\* The volume of the image as it is now under an identifier, if there is one.
VolumeNow(id) == {v \in ToSet(disk.volumes) : v.id = id}

Readable(volume) == volume.health \in {"SUCCESS", "PARTIAL"}

\* The volumes that were selected, each at its place in the image.
Selected(volumes, wanted) ==
  [n \in {n \in DOMAIN volumes : volumes[n].id \in wanted} |-> volumes[n]]

\* The places of the artifacts of a volume that were asked for.
Wanted(volume, request) == {k \in DOMAIN volume.found : volume.found[k].kind \in request.kinds}

\* Volumes and artifacts are taken in their order.
NextVolume == job.selected[Min(job.todo)]
NextItem == job.volume.found[Min(job.items)]

\* The events of MFT records that a USN record of this volume may be named by:
\* _usn compares the volume and the file reference.
Naming(mft, volumeId) == {e \in mft : e.volumeId = volumeId}

\* The event an adapter makes of an extracted artifact.  Its identity hashes
\* the derived file, the image and the offset of the volume, not the record.
Parsed(item) ==
  LET naming == IF item.kind = "usn" THEN Naming(job.mft, job.volumeId) ELSE {}
  IN  [ id |-> <<Content(item), job.hash, job.volume.id>>,
        kind |-> item.kind,
        volume |-> job.volume.id,
        volumeId |-> job.volumeId,
        hash |-> job.hash,
        read |-> version,
        namedBy |-> {e.volume : e \in naming} ]

AdapterRun(item) ==
  CASE item.fate = "parsed" -> "SUCCESS"
    [] item.fate = "unsupported" -> "UNAVAILABLE"
    [] OTHER -> "FAILED"

\* load_file is over: the batch goes to import_batch with the image run first.
Ends(status) ==
  /\ phase' = "import"
  /\ job' = [job EXCEPT !.status = status]
  /\ UNCHANGED <<disk, version, stored, reports>>

Continues(next, changes) ==
  /\ phase' = next
  /\ job' = changes
  /\ UNCHANGED <<disk, version, stored, reports>>

-----------------------------------------------------------------------------
(* The steps of load_file *)

Request(request) ==
  /\ phase = "idle"
  /\ Len(reports) < MaxImports
  /\ Continues("open", Fresh(request))

\* stat, then the container check of evidence_stream.
OpenStream ==
  /\ phase = "open"
  /\ CASE job.request.suffix = "raw" ->
            Continues("hash", [job EXCEPT !.before = version])
       [] job.request.suffix = "e01" -> Ends("UNAVAILABLE")
       [] OTHER -> Ends("FAILED")

HashImage ==
  /\ phase = "hash"
  /\ Continues("discover", [job EXCEPT !.hash = version])

\* Volumes that cannot be opened are listed with their error; an invalid
\* partition table, a selection that names no volume or a directory that cannot be made
\* ends the import.
DiscoverVolumes ==
  LET present == {v.id : v \in ToSet(disk.volumes)}
      wanted == IF job.request.volumes = None THEN present ELSE job.request.volumes
      selected == Selected(disk.volumes, wanted)
      valid == disk.table = "valid" /\ wanted \subseteq present
  IN  /\ phase = "discover"
      /\ \/ Ends("FAILED")
         \/ /\ valid
            /\ Continues("volumes", [job EXCEPT !.selected = selected,
                                                !.todo = DOMAIN selected])

SkipVolume ==
  /\ phase = "volumes"
  /\ job.todo # {}
  /\ ~Readable(NextVolume)
  /\ Continues("volumes", [job EXCEPT !.todo = @ \ {Min(@)}])

\* Mutant: one artifact adapter serves all the volumes of the image.
KeepsAdapter(volume) ==
  Continues("artifacts",
    [job EXCEPT !.todo = @ \ {Min(@)},
                !.volume = volume,
                !.volumeId = IF job.request.volumeId # None
                             THEN job.request.volumeId ELSE volume.serial,
                !.items = Wanted(volume, job.request)])

\* A new context and a new DiskArtifactAdapter for the volume.
Enter(volume) ==
  Continues("artifacts",
    [job EXCEPT !.todo = @ \ {Min(@)},
                !.volume = volume,
                !.volumeId = IF job.request.volumeId # None
                             THEN job.request.volumeId ELSE volume.serial,
                !.mft = {},
                !.items = Wanted(volume, job.request)])

\* NTFS() reads the volume again: it raises when the volume is not there as
\* it was found, and that error ends load_file outside the handler of one
\* artifact.
OpenVolume ==
  /\ phase = "volumes"
  /\ job.todo # {}
  /\ Readable(NextVolume)
  /\ \/ /\ \E v \in VolumeNow(NextVolume.id) : Readable(v)
        /\ Enter(NextVolume)
     \/ /\ \A v \in VolumeNow(NextVolume.id) : ~Readable(v)
        /\ Ends("FAILED")

\* Mutant: the first artifact that cannot be copied ends its volume.
FailureEndsVolume(item) ==
  Continues("artifacts", [job EXCEPT !.items = {}, !.runs = Append(@, "FAILED")])

\* The handler of one artifact: a failed run in its place.
ExtractionFailed(item) ==
  Continues("artifacts", [job EXCEPT !.items = @ \ {Min(@)}, !.runs = Append(@, "FAILED")])

\* Mutant: a failed adapter leaves no run behind.
RunsOnlySuccesses(item) ==
  LET events == IF item.fate = "parsed" THEN <<Parsed(item)>> ELSE <<>>
  IN  Continues("artifacts",
        [job EXCEPT !.items = @ \ {Min(@)},
                    !.events = @ \o events,
                    !.mft = IF item.kind = "mft" THEN ToSet(events) ELSE @,
                    !.runs = IF events = <<>> THEN @ ELSE Append(@, "SUCCESS"),
                    !.extracted = @ + 1])

\* The artifact is copied and its adapter has run, with or without success.
Extracted(item) ==
  LET events == IF item.fate = "parsed" THEN <<Parsed(item)>> ELSE <<>>
  IN  Continues("artifacts",
        [job EXCEPT !.items = @ \ {Min(@)},
                    !.events = @ \o events,
                    !.mft = IF item.kind = "mft" THEN ToSet(events) ELSE @,
                    !.runs = Append(@, AdapterRun(item)),
                    !.extracted = @ + 1])

\* The record is looked up in the image as it is now; copying it can also fail
\* in the workspace.
ExtractArtifact ==
  /\ phase = "artifacts"
  /\ job.items # {}
  /\ LET item == NextItem
         readable == \E v \in VolumeNow(job.volume.id) : item \in ToSet(v.found)
     IN  \/ /\ readable /\ item.fate # "oversize"
            /\ Extracted(item)
         \/ ExtractionFailed(item)

LeaveVolume ==
  /\ phase = "artifacts"
  /\ job.items = {}
  /\ Continues("volumes", job)

LastVolume ==
  /\ phase = "volumes"
  /\ job.todo = {}
  /\ Continues("after", job)

\* Mutant: only the size is compared, which a write in place leaves alone.
ComparesSize ==
  /\ phase = "after"
  /\ Continues("manifest", job)

\* The second stat: a changed image rejects the events; the runs stay.
CompareStat ==
  /\ phase = "after"
  /\ \/ /\ version = job.before
        /\ Continues("manifest", job)
     \/ /\ version # job.before
        /\ Continues("import", [job EXCEPT !.events = <<>>, !.status = "FAILED"])

\* The manifest is written, or that fails with the events kept; an image of
\* which nothing could be extracted is a failure too.
WriteManifest ==
  /\ phase = "manifest"
  /\ \/ Ends(IF job.extracted = 0 THEN "FAILED" ELSE "SUCCESS")
     \/ Ends("FAILED")

-----------------------------------------------------------------------------
(* The import, and the image's other users *)

\* import_batch: one transaction, refused as a whole when an event identity is
\* there already, in the case or earlier in the batch.
ImportBatch ==
  LET runs == <<job.status>> \o job.runs
      batch == [events |-> ToSet(job.events), states |-> ToSet(runs)]
      ids == {e.id : e \in ToSet(job.events)}
      refused == \/ Cardinality(ids) # Len(job.events)
                 \/ ids \cap {e.id : e \in stored} # {}
      entry(status, events, states) ==
        [ request |-> job.request, selected |-> job.selected, hash |-> job.hash,
          image |-> Head(states), runs |-> Tail(states), status |-> status,
          events |-> events, batch |-> job.events, refused |-> refused ]
  IN  /\ phase = "import"
      /\ phase' = "idle"
      /\ job' = None
      /\ \/ /\ ~refused
            /\ stored' = stored \cup batch.events
            /\ reports' = Append(reports,
                 entry(ImportStatus(batch), batch.events, runs))
         \/ /\ refused
            /\ stored' = stored
            /\ reports' = Append(reports,
                 entry("FAILED", {}, [i \in DOMAIN runs |-> Refused(runs[i])]))
      /\ UNCHANGED <<disk, version>>

\* Another program writes the image while it is read.
WriteImage ==
  /\ version < MaxWrites
  /\ phase # "idle"
  /\ disk' \in Disks
  /\ version' = version + 1
  /\ UNCHANGED <<phase, job, stored, reports>>

Next ==
  \/ \E request \in Requests : Request(request)
  \/ OpenStream
  \/ HashImage
  \/ DiscoverVolumes
  \/ SkipVolume
  \/ OpenVolume
  \/ ExtractArtifact
  \/ LeaveVolume
  \/ LastVolume
  \/ CompareStat
  \/ WriteManifest
  \/ ImportBatch
  \/ WriteImage

Spec == Init /\ [][Next]_vars

-----------------------------------------------------------------------------
(* Properties *)

\* The phases, the local variables and the reports are of the expected shape;
\* the events of a job never outnumber the artifacts it extracted (load_file).
TypeOK ==
  /\ disk \in Disks
  /\ version \in 0..MaxWrites
  /\ phase \in Phase
  /\ phase = "idle" => job = None
  /\ phase # "idle" =>
       /\ job.request \in Requests
       /\ job.before \in 0..version \cup {None}
       /\ job.hash \in 0..version \cup {None}
       /\ Len(job.events) <= job.extracted
       /\ job.extracted <= Len(job.runs)
  /\ \A i \in DOMAIN reports : reports[i].status \in Status

\* Whatever an import stores was read from the image as it was hashed: a
\* change while it is extracted rejects the events (load_file).
EventsMatchTheImage ==
  \A e \in stored : e.read = e.hash

\* The events of an image run that ended with SUCCESS were all read from the
\* image as it was hashed, however writers and steps interleave (load_file).
CompletedExtractionsMatchTheImage ==
  \A i \in DOMAIN reports :
    reports[i].image = "SUCCESS" =>
      \A e \in reports[i].events : e.read = reports[i].hash

\* A USN record is named by MFT records of its own volume only, also when
\* volumes share a serial number or are given one identifier (load_file, _usn).
NamesStayInTheirVolume ==
  \A e \in stored : e.namedBy \subseteq {e.volume}

\* The artifacts an import was to extract from the volumes at the given places.
Due(report, places) ==
  UNION {{n} \X Wanted(report.selected[n], report.request) :
         n \in {n \in places : Readable(report.selected[n])}}

SuccessfulRuns(report) ==
  {k \in DOMAIN report.runs : report.runs[k] = "SUCCESS"}

\* The report of a successful image run has a run for every artifact that was
\* due, whatever became of the artifacts before it, and an event in the case
\* for every adapter that succeeded: a failure is confined to its artifact
\* (load_file).
FailuresAreConfined ==
  \A i \in DOMAIN reports :
    LET report == reports[i]
    IN  report.image = "SUCCESS" =>
          /\ Len(report.runs) = Cardinality(Due(report, DOMAIN report.selected))
          /\ Cardinality(report.events) = Cardinality(SuccessfulRuns(report))
=============================================================================
