------------------------------ MODULE Collectors ------------------------------
(***************************************************************************)
(* The evidence adapters in one specification.  Each import has an adapter  *)
(* made for it, and adapters share nothing but what their modules say, so   *)
(* that kind chooses the adapter that is at work and the variables of the   *)
(* others stay None.                                                        *)
(***************************************************************************)
EXTENDS Integers, Sequences, SequencesExt

CONSTANTS
  None,
  Disks, Requests, MaxWrites, MaxImports,   \* see DiskImage
  Mount, Depth, MftFiles, Journal,          \* see MftPaths
  Inputs, Expected,                         \* see MemoryExports
  Imports                                   \* see PcapImports

VARIABLES kind,
          disk, version, phase, job, stored, reports,
          rows, path, origin, pending,
          exports, step, at, runs, skipped, events,
          created, whole, import

\* What TShark prints: packets with a time, at most one flag that ends a
\* conversation, and the protocols that are told apart.
IsCapture(capture) ==
  /\ capture \in Seq(ToSet(capture))
  /\ \A p \in ToSet(capture) : /\ p.time \in Int
                               /\ p.flag \in {None, "fin", "rst"}
                               /\ p.kinds \subseteq {"dns", "http", "tls"}

\* The exports of an import are files of their own, which their rows name.
AreExports(input) ==
  /\ input \in Seq(ToSet(input))
  /\ \A i, j \in DOMAIN input : i # j => input[i].rows \cap input[j].rows = {}

ASSUME InputsAssumption == None # "psscan_only" /\ \A input \in Inputs : AreExports(input)

\* Volumes and the artifacts found on them are listed.
ASSUME DisksAssumption ==
  /\ MaxWrites \in Nat
  /\ \A image \in Disks :
       /\ image.volumes \in Seq(ToSet(image.volumes))
       /\ \A volume \in ToSet(image.volumes) : volume.found \in Seq(ToSet(volume.found))

\* What paths are put together from: the parts of the mount point, file names, and
\* the mark of a path the export states.
PathParts == (IF Mount = None THEN {} ELSE ToSet(Mount)) \cup {"stated"} \cup
               UNION {{row.name : row \in ToSet(file)} : file \in MftFiles}

\* None is no path and no number.
ASSUME FilesAssumption ==
  /\ Depth \in Nat
  /\ \A file \in MftFiles : file \in Seq(ToSet(file)) /\ None \notin 0..Len(file)
  /\ Mount # None => Mount \in Seq(PathParts)
  /\ None \notin Seq(PathParts)

ASSUME CapturesAssumption ==
  /\ None \notin {"fin", "rst"}
  /\ \A given \in Imports : \A i \in DOMAIN given : IsCapture(given[i])

Disk == INSTANCE DiskImage
Paths == INSTANCE MftPaths WITH Rows <- MftFiles
Memory == INSTANCE MemoryExports WITH phase <- step
Pcap == INSTANCE PcapImports

diskVars == <<disk, version, phase, job, stored, reports>>
pathVars == <<rows, path, origin, pending>>
memoryVars == <<exports, step, at, runs, skipped, events>>
pcapVars == <<created, whole, import>>
vars == <<kind, diskVars, pathVars, memoryVars, pcapVars>>

NoDisk == disk = None /\ version = None /\ phase = None /\ job = None /\ stored = None
            /\ reports = None
NoPaths == rows = None /\ path = None /\ origin = None /\ pending = None
NoMemory == exports = None /\ step = None /\ at = None /\ runs = None /\ skipped = None
              /\ events = None
NoPcap == created = None /\ whole = None /\ import = None

Init ==
  \/ kind = "disk" /\ Disk!Init /\ NoPaths /\ NoMemory /\ NoPcap
  \/ kind = "paths" /\ Paths!Init /\ NoDisk /\ NoMemory /\ NoPcap
  \/ kind = "memory" /\ Memory!Init /\ NoDisk /\ NoPaths /\ NoPcap
  \/ kind = "pcap" /\ Pcap!Init /\ NoDisk /\ NoPaths /\ NoMemory

Next ==
  /\ UNCHANGED kind
  /\ \/ kind = "disk" /\ Disk!Next /\ UNCHANGED <<pathVars, memoryVars, pcapVars>>
     \/ kind = "paths" /\ Paths!Next /\ UNCHANGED <<diskVars, memoryVars, pcapVars>>
     \/ kind = "memory" /\ Memory!Next /\ UNCHANGED <<diskVars, pathVars, pcapVars>>
     \/ kind = "pcap" /\ Pcap!Next /\ UNCHANGED <<diskVars, pathVars, memoryVars>>

Spec == Init /\ [][Next]_vars

-----------------------------------------------------------------------------
(* The properties of each adapter while it is at work; its module states    *)
(* them in full.                                                            *)

\* What an import stores of an image was read from the image that was hashed: "Original
\* image changed during extraction; events rejected" (images.py, load_file).
EventsMatchTheImage == kind = "disk" => Disk!EventsMatchTheImage

\* So it is for every image run that ended with SUCCESS (load_file).
CompletedExtractionsMatchTheImage == kind = "disk" => Disk!CompletedExtractionsMatchTheImage

\* One artifact fails alone: the others have their runs and events (load_file).
FailuresAreConfined == kind = "disk" => Disk!TypeOK /\ Disk!FailuresAreConfined

\* A journal record is named by the $MFT of its own volume, and takes only the path
\* of its own file and name (load_file, _usn).
JournalNamesAreTheirOwn ==
  /\ kind = "disk" => Disk!NamesStayInTheirVolume
  /\ kind = "paths" => Paths!JournalPathsAreTheirOwn

\* Resolved paths are the chains of references in reach of the depth bound, with
\* their provenance (_resolve_mft).
PathsAreRecorded == kind = "paths" => Paths!TypeOK /\ Paths!PathsAreRecorded

\* Lifetimes of one process number are not merged, parents and owners lived at the
\* time, scanned processes share only their own identity (_processes, convert).
ProcessesAreToldApart == kind = "memory" => Memory!TypeOK /\ Memory!ProcessesAreToldApart

\* The run of an export tells what became of its rows (load_exports).
RunsAgreeWithEvents == kind = "memory" => Memory!RunsAgreeWithEvents

\* No event names a recovered file that is not whole, and a body left out is
\* reported by a warning (_recover_body, _packet).
BodiesAreAccountedFor == kind = "pcap" => Pcap!TypeOK /\ Pcap!BodiesAreAccountedFor

\* A flow has the packets of one conversation and lasts from the earliest to the
\* latest of them (_packet, _flow).
FlowsMatchPackets == kind = "pcap" => Pcap!TypeOK /\ Pcap!FlowsMatchPackets
=============================================================================
