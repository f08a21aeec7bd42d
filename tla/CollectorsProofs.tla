--------------------------- MODULE CollectorsProofs ---------------------------
(***************************************************************************)
(* Proofs about the evidence adapters: DiskImage for every set of disks    *)
(* and import requests, however often the image is written meanwhile;      *)
(* MftPaths for every MFT, depth bound and mount point; MemoryExports for  *)
(* every list of exports; PcapImports for every set of captures and any    *)
(* number of importers that share the files they recover.                  *)
(***************************************************************************)
EXTENDS Collectors, FiniteSetTheorems, TLAPS

-----------------------------------------------------------------------------
(***************************************************************************)
(* Sequences of whatever elements.                                         *)
(***************************************************************************)

IsSequence(s) == s \in Seq(ToSet(s))

LEMMA EmptyIsSequence == IsSequence(<<>>) /\ ToSet(<<>>) = {}
BY DEF IsSequence, ToSet

LEMMA SingletonIsSequence ==
  ASSUME NEW x
  PROVE  IsSequence(<<x>>) /\ ToSet(<<x>>) = {x}
<1>1. <<x>> \in Seq({x}) /\ DOMAIN <<x>> = {1} /\ <<x>>[1] = x
  OBVIOUS
<1>2. ToSet(<<x>>) = {x}
  BY <1>1 DEF ToSet
<1> QED
  BY <1>1, <1>2 DEF IsSequence

LEMMA SequenceDomain ==
  ASSUME NEW s, IsSequence(s)
  PROVE  /\ Len(s) \in Nat /\ DOMAIN s = 1..Len(s)
         /\ \A i \in DOMAIN s : s[i] \in ToSet(s)
         /\ \A x \in ToSet(s) : \E i \in DOMAIN s : x = s[i]
BY DEF IsSequence, ToSet

LEMMA SequenceIsSequence ==
  ASSUME NEW S, NEW s \in Seq(S)
  PROVE  IsSequence(s) /\ ToSet(s) \subseteq S
<1>1. Len(s) \in Nat /\ DOMAIN s = 1..Len(s) /\ \A i \in 1..Len(s) : s[i] \in S
  OBVIOUS
<1>2. s \in [1..Len(s) -> ToSet(s)]
  BY <1>1 DEF ToSet
<1> QED
  BY SMTT(60), <1>1, <1>2 DEF IsSequence, ToSet

LEMMA ConcatenationIsSequence ==
  ASSUME NEW s, NEW t, IsSequence(s), IsSequence(t)
  PROVE  IsSequence(s \o t) /\ ToSet(s \o t) = ToSet(s) \cup ToSet(t)
<1> DEFINE S == ToSet(s) \cup ToSet(t)
<1>1. s \in Seq(S) /\ t \in Seq(S)
  BY DEF IsSequence
<1>2. IsSequence(s \o t) /\ ToSet(s \o t) \subseteq S
  <2>1. s \o t \in Seq(S)
    BY <1>1
  <2> QED
    BY <2>1, SequenceIsSequence
<1>3. ASSUME NEW x \in ToSet(s)
      PROVE  x \in ToSet(s \o t)
  <2>1. PICK i \in 1..Len(s) : x = s[i]
    BY SequenceDomain
  <2>2. i \in 1..Len(s \o t) /\ (s \o t)[i] = s[i]
    BY <1>1
  <2> QED
    BY <1>2, <2>1, <2>2, SequenceDomain
<1>4. ASSUME NEW x \in ToSet(t)
      PROVE  x \in ToSet(s \o t)
  <2>1. PICK i \in 1..Len(t) : x = t[i]
    BY SequenceDomain
  <2>2. Len(s) + i \in 1..Len(s \o t) /\ (s \o t)[Len(s) + i] = t[i]
    BY <1>1
  <2> QED
    BY <1>2, <2>1, <2>2, SequenceDomain
<1> QED
  BY <1>2, <1>3, <1>4

LEMMA AppendIsSequence ==
  ASSUME NEW s, NEW x, IsSequence(s)
  PROVE  /\ IsSequence(Append(s, x)) /\ ToSet(Append(s, x)) = ToSet(s) \cup {x}
         /\ Len(Append(s, x)) = Len(s) + 1
         /\ \A i \in DOMAIN s : Append(s, x)[i] = s[i]
         /\ Append(s, x)[Len(s) + 1] = x
<1> DEFINE S == ToSet(s) \cup {x}
<1>1. s \in Seq(S) /\ x \in S
  BY DEF IsSequence
<1>2. /\ Append(s, x) \in Seq(S)
      /\ Len(Append(s, x)) = Len(s) + 1 /\ Len(s) \in Nat /\ DOMAIN s = 1..Len(s)
      /\ \A i \in 1..Len(s) : Append(s, x)[i] = s[i]
      /\ Append(s, x)[Len(s) + 1] = x
  BY <1>1
<1>3. IsSequence(Append(s, x)) /\ ToSet(Append(s, x)) \subseteq S
  BY <1>2, SequenceIsSequence
<1>4. S \subseteq ToSet(Append(s, x))
  <2>1. \A i \in 1..Len(s) + 1 : Append(s, x)[i] \in ToSet(Append(s, x))
    BY <1>2, <1>3, SequenceDomain
  <2>2. \A y \in ToSet(s) : \E i \in 1..Len(s) : y = s[i]
    BY SequenceDomain
  <2> QED
    BY <1>2, <2>1, <2>2
<1> QED
  BY <1>2, <1>3, <1>4

-----------------------------------------------------------------------------
(***************************************************************************)
(* DiskImage: the invariant.                                               *)
(***************************************************************************)

Fields == {"request", "before", "hash", "selected", "todo", "volume", "volumeId", "mft",
           "items", "events", "runs", "extracted", "status"}

\* load_file is at work with local variables and lists of events and runs.
DiskShape ==
  /\ version \in Nat
  /\ IsSequence(reports)
  /\ phase # "idle" =>
       /\ job = [f \in Fields |-> job[f]]
       /\ IsSequence(job.events) /\ IsSequence(job.runs)

\* The image is looked at first, then hashed, then read, while the clock of the
\* writes goes on.
Ordered(e) ==
  /\ e.hash = job.hash
  /\ e.read \in Nat
  /\ job.hash <= e.read /\ e.read <= version

Clocked ==
  /\ phase \in {"open", "hash", "discover"} => job.events = <<>>
  /\ phase \in {"hash", "discover", "volumes", "artifacts", "after"} =>
       job.before \in Nat /\ job.before <= version
  /\ phase \in {"discover", "volumes", "artifacts", "after"} =>
       /\ job.hash \in Nat /\ job.before <= job.hash /\ job.hash <= version
       /\ \A e \in ToSet(job.events) : Ordered(e)

\* Once the second look at the image found it as it was, all that was read is of
\* the hashed image, whatever is written from then on.
Confirmed ==
  phase = "manifest" \/ (phase = "import" /\ job.status = "SUCCESS") =>
    \A e \in ToSet(job.events) : e.read = job.hash

\* An adapter knows the MFT records of the volume it works for and no others.
NamedByOwn(e) == e.namedBy \subseteq {e.volume}

Named ==
  /\ phase = "artifacts" => \A e \in job.mft : e.volume = job.volume.id
  /\ phase # "idle" => \A e \in ToSet(job.events) : NamedByOwn(e)
  /\ \A e \in stored : NamedByOwn(e)

DiskInv ==
  /\ DiskShape
  /\ Clocked
  /\ Confirmed
  /\ Named
  /\ Disk!CompletedExtractionsMatchTheImage

-----------------------------------------------------------------------------
(***************************************************************************)
(* DiskImage: the steps.                                                   *)
(***************************************************************************)

LEMMA RequestHolds ==
  ASSUME DiskInv, NEW request \in Requests, Disk!Request(request)
  PROVE  DiskInv'
<1>1. /\ phase' = "open" /\ job' = Disk!Fresh(request)
      /\ UNCHANGED <<disk, version, stored, reports>>
  BY DEF Disk!Request, Disk!Continues
<1>2. job' = [f \in Fields |-> job'[f]] /\ job'.events = <<>> /\ job'.runs = <<>>
  BY <1>1 DEF Disk!Fresh, Fields
<1> QED
  BY <1>1, <1>2, EmptyIsSequence
  DEF DiskInv, DiskShape, Clocked, Confirmed, Named, Disk!CompletedExtractionsMatchTheImage

\* load_file ends early, with whatever events it has.
LEMMA EndsHolds ==
  ASSUME DiskInv, NEW status, phase # "idle", Disk!Ends(status),
         status = "SUCCESS" => phase = "manifest"
  PROVE  DiskInv'
<1>1. /\ phase' = "import" /\ job' = [job EXCEPT !.status = status]
      /\ UNCHANGED <<disk, version, stored, reports>>
  BY DEF Disk!Ends
<1>2. /\ job' = [f \in Fields |-> job'[f]] /\ job'.status = status
      /\ job'.events = job.events /\ job'.runs = job.runs /\ job'.hash = job.hash
  BY <1>1 DEF DiskInv, DiskShape, Fields
<1> QED
  BY <1>1, <1>2
  DEF DiskInv, DiskShape, Clocked, Confirmed, Named, Disk!CompletedExtractionsMatchTheImage

LEMMA OpenStreamHolds ==
  ASSUME DiskInv, Disk!OpenStream
  PROVE  DiskInv'
<1>1. phase = "open"
  BY DEF Disk!OpenStream
<1>2. \/ Disk!Continues("hash", [job EXCEPT !.before = version])
      \/ \E status \in {"UNAVAILABLE", "FAILED"} : Disk!Ends(status)
  BY DEF Disk!OpenStream
<1>3. CASE Disk!Continues("hash", [job EXCEPT !.before = version])
  <2>1. /\ phase' = "hash" /\ job' = [job EXCEPT !.before = version]
        /\ UNCHANGED <<disk, version, stored, reports>>
    BY <1>3 DEF Disk!Continues
  <2>2. /\ job' = [f \in Fields |-> job'[f]] /\ job'.before = version
        /\ job'.events = job.events /\ job'.runs = job.runs
    BY <1>1, <2>1 DEF DiskInv, DiskShape, Fields
  <2> QED
    BY <1>1, <2>1, <2>2
    DEF DiskInv, DiskShape, Clocked, Confirmed, Named, Disk!CompletedExtractionsMatchTheImage
<1> QED
  BY <1>1, <1>2, <1>3, EndsHolds

LEMMA HashImageHolds ==
  ASSUME DiskInv, Disk!HashImage
  PROVE  DiskInv'
<1>1. /\ phase = "hash" /\ phase' = "discover" /\ job' = [job EXCEPT !.hash = version]
      /\ UNCHANGED <<disk, version, stored, reports>>
  BY DEF Disk!HashImage, Disk!Continues
<1>2. /\ job' = [f \in Fields |-> job'[f]] /\ job'.hash = version
      /\ job'.before = job.before /\ job'.events = job.events /\ job'.runs = job.runs
  BY <1>1 DEF DiskInv, DiskShape, Fields
<1> QED
  BY <1>1, <1>2, EmptyIsSequence
  DEF DiskInv, DiskShape, Clocked, Confirmed, Named, Disk!CompletedExtractionsMatchTheImage

\* Steps between the hash and the second look that read nothing.
LEMMA GoesOnHolds ==
  ASSUME DiskInv, phase \in {"discover", "volumes", "artifacts"},
         phase' \in {"volumes", "artifacts", "after"},
         UNCHANGED <<version, stored, reports>>,
         job' = [f \in Fields |-> job'[f]],
         \A f \in {"before", "hash", "events"} : job'[f] = job[f],
         IsSequence(job'.runs),
         phase' = "artifacts" => \A e \in job'.mft : e.volume = job'.volume.id
  PROVE  DiskInv'
<1>1. job'.before = job.before /\ job'.hash = job.hash /\ job'.events = job.events
  OBVIOUS
<1> QED
  BY <1>1
  DEF DiskInv, DiskShape, Clocked, Ordered, Confirmed, Named, Disk!CompletedExtractionsMatchTheImage

LEMMA DiscoverVolumesHolds ==
  ASSUME DiskInv, Disk!DiscoverVolumes
  PROVE  DiskInv'
<1>1. phase = "discover"
  BY DEF Disk!DiscoverVolumes
<1>2. CASE Disk!Ends("FAILED")
  BY <1>1, <1>2, EndsHolds
<1>3. ASSUME NEW selected,
             Disk!Continues("volumes", [job EXCEPT !.selected = selected,
                                                   !.todo = DOMAIN selected])
      PROVE  DiskInv'
  <2>1. /\ phase' = "volumes"
        /\ job' = [job EXCEPT !.selected = selected, !.todo = DOMAIN selected]
        /\ UNCHANGED <<disk, version, stored, reports>>
    BY <1>3 DEF Disk!Continues
  <2>2. /\ job' = [f \in Fields |-> job'[f]]
        /\ \A f \in {"before", "hash", "events"} : job'[f] = job[f]
        /\ job'.runs = job.runs
    BY <1>1, <2>1 DEF DiskInv, DiskShape, Fields
  <2>3. IsSequence(job'.runs)
    BY <1>1, <2>2 DEF DiskInv, DiskShape
  <2> QED
    BY <1>1, <2>1, <2>2, <2>3, GoesOnHolds
<1>4. \/ Disk!Ends("FAILED")
      \/ \E selected :
           Disk!Continues("volumes", [job EXCEPT !.selected = selected,
                                                 !.todo = DOMAIN selected])
  BY Zenon DEF Disk!DiscoverVolumes
<1> QED
  BY <1>2, <1>3, <1>4, Zenon

LEMMA VolumeStepsHold ==
  ASSUME DiskInv, Disk!SkipVolume \/ Disk!OpenVolume \/ Disk!LeaveVolume \/ Disk!LastVolume
  PROVE  DiskInv'
<1>1. phase \in {"volumes", "artifacts"}
  BY DEF Disk!SkipVolume, Disk!OpenVolume, Disk!LeaveVolume, Disk!LastVolume
<1>2. CASE Disk!SkipVolume
  <2>1. /\ phase' = "volumes"
        /\ job' = [job EXCEPT !.todo = job.todo \ {Disk!Min(job.todo)}]
        /\ UNCHANGED <<disk, version, stored, reports>>
    BY <1>2 DEF Disk!SkipVolume, Disk!Continues
  <2>2. /\ job' = [f \in Fields |-> job'[f]]
        /\ \A f \in {"before", "hash", "events"} : job'[f] = job[f]
        /\ job'.runs = job.runs
    BY <1>1, <2>1 DEF DiskInv, DiskShape, Fields
  <2>3. IsSequence(job'.runs)
    BY <1>1, <2>2 DEF DiskInv, DiskShape
  <2> QED
    BY <1>1, <2>1, <2>2, <2>3, GoesOnHolds
<1>3. CASE Disk!OpenVolume
  <2>1. CASE Disk!Ends("FAILED")
    BY <1>1, <2>1, EndsHolds
  <2>2. ASSUME NEW volume, Disk!Enter(volume)
        PROVE  DiskInv'
    <3>1. PICK todo, id, items :
            job' = [job EXCEPT !.todo = todo, !.volume = volume, !.volumeId = id,
                               !.mft = {}, !.items = items]
      BY <2>2, Zenon DEF Disk!Enter, Disk!Continues
    <3>2. phase' = "artifacts" /\ UNCHANGED <<disk, version, stored, reports>>
      BY <2>2 DEF Disk!Enter, Disk!Continues
    <3>3. /\ job' = [f \in Fields |-> job'[f]]
          /\ \A f \in {"before", "hash", "events"} : job'[f] = job[f]
          /\ job'.runs = job.runs /\ job'.mft = {}
      BY <1>1, <3>1 DEF DiskInv, DiskShape, Fields
    <3>4. IsSequence(job'.runs)
      BY <1>1, <3>3 DEF DiskInv, DiskShape
    <3> QED
      BY <1>1, <3>2, <3>3, <3>4, GoesOnHolds
  <2> QED
    BY <1>3, <2>1, <2>2 DEF Disk!OpenVolume
<1>4. CASE Disk!LeaveVolume \/ Disk!LastVolume
  <2>1. /\ phase' \in {"volumes", "after"} /\ job' = job
        /\ UNCHANGED <<disk, version, stored, reports>>
    BY <1>4 DEF Disk!LeaveVolume, Disk!LastVolume, Disk!Continues
  <2>2. /\ job' = [f \in Fields |-> job'[f]]
        /\ \A f \in {"before", "hash", "events"} : job'[f] = job[f]
        /\ IsSequence(job'.runs)
    BY <1>1, <2>1 DEF DiskInv, DiskShape
  <2> QED
    BY <1>1, <2>1, <2>2, GoesOnHolds
<1> QED
  BY <1>2, <1>3, <1>4

\* An artifact that could not be copied leaves a failed run.
LEMMA ExtractionFailedHolds ==
  ASSUME DiskInv, phase = "artifacts", NEW item, Disk!ExtractionFailed(item)
  PROVE  DiskInv'
<1>1. /\ phase' = "artifacts"
      /\ job' = [job EXCEPT !.items = job.items \ {Disk!Min(job.items)},
                            !.runs = Append(job.runs, "FAILED")]
      /\ UNCHANGED <<disk, version, stored, reports>>
  BY DEF Disk!ExtractionFailed, Disk!Continues
<1>2. /\ job' = [f \in Fields |-> job'[f]]
      /\ \A f \in {"before", "hash", "events"} : job'[f] = job[f]
      /\ job'.runs = Append(job.runs, "FAILED")
      /\ job'.mft = job.mft /\ job'.volume = job.volume
  BY <1>1 DEF DiskInv, DiskShape, Fields
<1>3. IsSequence(job'.runs)
  BY <1>2, AppendIsSequence DEF DiskInv, DiskShape
<1>4. \A e \in job'.mft : e.volume = job'.volume.id
  BY <1>2 DEF DiskInv, Named
<1> QED
  BY <1>1, <1>2, <1>3, <1>4, GoesOnHolds

\* The event of an artifact that is read now.
LEMMA ParsedEvent ==
  ASSUME DiskInv, phase = "artifacts", NEW item
  PROVE  /\ Ordered(Disk!Parsed(item)) /\ NamedByOwn(Disk!Parsed(item))
         /\ Disk!Parsed(item).volume = job.volume.id
<1> DEFINE e == Disk!Parsed(item)
           naming == IF item.kind = "usn" THEN Disk!Naming(job.mft, job.volumeId) ELSE {}
<1>1. /\ e.hash = job.hash /\ e.read = version /\ e.volume = job.volume.id
      /\ e.namedBy = {f.volume : f \in naming}
  BY DEF Disk!Parsed
<1>2. naming \subseteq job.mft
  BY DEF Disk!Naming
<1>3. \A f \in naming : f.volume = job.volume.id
  BY <1>2 DEF DiskInv, Named
<1> HIDE DEF e, naming
<1>4. Ordered(e) /\ NamedByOwn(e) /\ e.volume = job.volume.id
  BY <1>1, <1>3 DEF DiskInv, DiskShape, Clocked, Ordered, NamedByOwn
<1> QED
  BY <1>4 DEF e

LEMMA ExtractedHolds ==
  ASSUME DiskInv, phase = "artifacts", NEW item, Disk!Extracted(item)
  PROVE  DiskInv'
<1> DEFINE new == IF item.fate = "parsed" THEN <<Disk!Parsed(item)>> ELSE <<>>
<1>1. /\ IsSequence(new)
      /\ \A e \in ToSet(new) : Ordered(e) /\ NamedByOwn(e) /\ e.volume = job.volume.id
  <2>1. CASE item.fate = "parsed"
    <3>1. new = <<Disk!Parsed(item)>>
      BY <2>1
    <3>2. IsSequence(new) /\ ToSet(new) = {Disk!Parsed(item)}
      BY <3>1, SingletonIsSequence
    <3> HIDE DEF new
    <3> QED
      BY <3>2, ParsedEvent
  <2>2. CASE item.fate # "parsed"
    BY <2>2, EmptyIsSequence
  <2> QED
    BY <2>1, <2>2
<1>2. /\ phase' = "artifacts"
      /\ job' = [job EXCEPT !.items = job.items \ {Disk!Min(job.items)},
                   !.events = job.events \o new,
                   !.mft = IF item.kind = "mft" THEN ToSet(new) ELSE job.mft,
                   !.runs = Append(job.runs, Disk!AdapterRun(item)),
                   !.extracted = job.extracted + 1]
      /\ UNCHANGED <<disk, version, stored, reports>>
  BY DEF Disk!Extracted, Disk!Continues, Disk!ToSet, ToSet
<1> HIDE DEF new
<1>3. /\ job' = [f \in Fields |-> job'[f]]
      /\ job'.before = job.before /\ job'.hash = job.hash /\ job'.volume = job.volume
      /\ job'.events = job.events \o new
      /\ job'.runs = Append(job.runs, Disk!AdapterRun(item))
      /\ job'.mft = IF item.kind = "mft" THEN ToSet(new) ELSE job.mft
  BY <1>2 DEF DiskInv, DiskShape, Fields
<1>4. /\ IsSequence(job'.events) /\ IsSequence(job'.runs)
      /\ ToSet(job'.events) = ToSet(job.events) \cup ToSet(new)
  BY <1>1, <1>3, AppendIsSequence, ConcatenationIsSequence DEF DiskInv, DiskShape
<1>5. DiskShape'
  BY <1>2, <1>3, <1>4 DEF DiskInv, DiskShape
<1>6. Clocked' /\ Confirmed'
  BY <1>1, <1>2, <1>3, <1>4 DEF DiskInv, Clocked, Ordered, Confirmed
<1>7. Named'
  BY <1>1, <1>2, <1>3, <1>4 DEF DiskInv, Named, NamedByOwn
<1>8. Disk!CompletedExtractionsMatchTheImage'
  BY <1>2 DEF DiskInv, Disk!CompletedExtractionsMatchTheImage
<1> QED
  BY <1>5, <1>6, <1>7, <1>8 DEF DiskInv

LEMMA ExtractArtifactHolds ==
  ASSUME DiskInv, Disk!ExtractArtifact
  PROVE  DiskInv'
BY ExtractedHolds, ExtractionFailedHolds DEF Disk!ExtractArtifact

\* Nothing was written between the two looks at the image: what was read after
\* the hash and before the second look is of the same version.
LEMMA CompareStatHolds ==
  ASSUME DiskInv, Disk!CompareStat
  PROVE  DiskInv'
<1>1. CASE version = job.before /\ Disk!Continues("manifest", job)
  <2>1. /\ phase = "after" /\ phase' = "manifest" /\ job' = job
        /\ UNCHANGED <<disk, version, stored, reports>>
    BY <1>1 DEF Disk!CompareStat, Disk!Continues
  <2>2. \A e \in ToSet(job.events) : e.read = job.hash
    BY <1>1, <2>1 DEF DiskInv, DiskShape, Clocked, Ordered
  <2> QED
    BY <2>1, <2>2
    DEF DiskInv, DiskShape, Clocked, Confirmed, Named, Disk!CompletedExtractionsMatchTheImage
<1>2. CASE Disk!Continues("import", [job EXCEPT !.events = <<>>, !.status = "FAILED"])
  <2>1. /\ phase = "after" /\ phase' = "import"
        /\ job' = [job EXCEPT !.events = <<>>, !.status = "FAILED"]
        /\ UNCHANGED <<disk, version, stored, reports>>
    BY <1>2 DEF Disk!CompareStat, Disk!Continues
  <2>2. /\ job' = [f \in Fields |-> job'[f]] /\ job'.events = <<>> /\ job'.runs = job.runs
        /\ job'.status = "FAILED"
    BY <2>1 DEF DiskInv, DiskShape, Fields
  <2> QED
    BY <2>1, <2>2, EmptyIsSequence
    DEF DiskInv, DiskShape, Clocked, Confirmed, Named, Disk!CompletedExtractionsMatchTheImage
<1> QED
  BY <1>1, <1>2 DEF Disk!CompareStat

LEMMA WriteManifestHolds ==
  ASSUME DiskInv, Disk!WriteManifest
  PROVE  DiskInv'
<1>1. phase = "manifest" /\ \E status \in {"FAILED", "SUCCESS"} : Disk!Ends(status)
  BY DEF Disk!WriteManifest
<1> QED
  BY <1>1, EndsHolds

LEMMA ImportBatchHolds ==
  ASSUME DiskInv, Disk!ImportBatch
  PROVE  DiskInv'
<1> DEFINE all == <<job.status>> \o job.runs
<1>1. /\ phase = "import" /\ phase' = "idle"
      /\ UNCHANGED <<disk, version>>
  BY DEF Disk!ImportBatch
<1>2. all # <<>> /\ Head(all) = job.status
  <2>1. IsSequence(job.runs)
    BY <1>1 DEF DiskInv, DiskShape
  <2> DEFINE S == ToSet(job.runs) \cup {job.status}
  <2>2. job.runs \in Seq(S) /\ job.status \in S
    BY <2>1 DEF IsSequence
  <2> QED
    BY <2>2
<1> HIDE DEF all
<1> DEFINE ids == {e.id : e \in Disk!ToSet(job.events)}
           refused == \/ Disk!Cardinality(ids) # Len(job.events)
                      \/ ids \cap {e.id : e \in stored} # {}
           Entry(status, added, states) ==
             [ request |-> job.request, selected |-> job.selected, hash |-> job.hash,
               image |-> Head(states), runs |-> Tail(states), status |-> status,
               events |-> added, batch |-> job.events, refused |-> refused ]
<1>3. PICK report :
        /\ reports' = Append(reports, report)
        /\ report.hash = job.hash
        /\ \/ /\ stored' = stored \cup ToSet(job.events)
              /\ report.image = job.status /\ report.events = ToSet(job.events)
           \/ /\ stored' = stored
              /\ report.events = {}
  <2>1. \E status, states :
          \/ /\ stored' = stored \cup ToSet(job.events)
             /\ reports' = Append(reports, Entry(status, ToSet(job.events), all))
          \/ /\ stored' = stored
             /\ reports' = Append(reports, Entry(status, {}, states))
    BY Zenon DEF Disk!ImportBatch, Disk!ToSet, ToSet, all
  <2> QED
    BY <1>2, <2>1
<1>4. /\ IsSequence(reports')
      /\ DOMAIN reports' = 1..Len(reports) + 1 /\ DOMAIN reports = 1..Len(reports)
      /\ \A i \in DOMAIN reports : reports'[i] = reports[i]
      /\ reports'[Len(reports) + 1] = report
  <2>1. IsSequence(reports)
    BY DEF DiskInv, DiskShape
  <2>2. IsSequence(Append(reports, report))
    BY <2>1, AppendIsSequence
  <2> QED
    BY <1>3, <2>1, <2>2, AppendIsSequence, SequenceDomain
<1>5. report.image = "SUCCESS" => \A e \in report.events : e.read = report.hash
  BY <1>1, <1>3 DEF DiskInv, Confirmed
<1>6. Disk!CompletedExtractionsMatchTheImage'
  <2>1. \A i \in 1..Len(reports) + 1 : i \in DOMAIN reports \/ i = Len(reports) + 1
    BY <1>4, SequenceDomain DEF DiskInv, DiskShape
  <2> QED
    BY <1>4, <1>5, <2>1 DEF DiskInv, Disk!CompletedExtractionsMatchTheImage
<1>7. Named'
  BY <1>1, <1>3 DEF DiskInv, Named
<1> QED
  BY <1>1, <1>4, <1>6, <1>7 DEF DiskInv, DiskShape, Clocked, Confirmed

LEMMA WriteImageHolds ==
  ASSUME DiskInv, Disk!WriteImage
  PROVE  DiskInv'
<1>1. version' = version + 1 /\ UNCHANGED <<phase, job, stored, reports>>
  BY DEF Disk!WriteImage
<1>2. DiskShape' /\ Confirmed' /\ Named' /\ Disk!CompletedExtractionsMatchTheImage'
  BY <1>1 DEF DiskInv, DiskShape, Confirmed, Named, Disk!CompletedExtractionsMatchTheImage
<1>3. Clocked'
  BY <1>1 DEF DiskInv, DiskShape, Clocked, Ordered
<1> QED
  BY <1>2, <1>3 DEF DiskInv

LEMMA DiskInitHolds == Disk!Init => DiskInv
BY EmptyIsSequence
DEF Disk!Init, DiskInv, DiskShape, Clocked, Confirmed, Named,
    Disk!CompletedExtractionsMatchTheImage

LEMMA DiskStepHolds == DiskInv /\ [Disk!Next]_Disk!vars => DiskInv'
<1> SUFFICES ASSUME DiskInv, [Disk!Next]_Disk!vars PROVE DiskInv'
  OBVIOUS
<1>1. CASE UNCHANGED Disk!vars
  BY <1>1
  DEF Disk!vars, DiskInv, DiskShape, Clocked, Ordered, Confirmed, Named, NamedByOwn,
      Disk!CompletedExtractionsMatchTheImage
<1>2. CASE Disk!Next
  BY <1>2, RequestHolds, OpenStreamHolds, HashImageHolds, DiscoverVolumesHolds,
     VolumeStepsHold, ExtractArtifactHolds, CompareStatHolds, WriteManifestHolds,
     ImportBatchHolds, WriteImageHolds
  DEF Disk!Next
<1> QED
  BY <1>1, <1>2

-----------------------------------------------------------------------------
(***************************************************************************)
(* PcapImports: the invariant of one importer, m.                          *)
(***************************************************************************)

ImportFields == {"pc", "capture", "at", "body", "warnings", "flows", "events", "batch",
                 "status"}

Now(m) == m.capture[m.at]

\* The frames an importer has passed, and those of one flow.
Passed(m) == {n \in Pcap!Frames(m.capture) : n < m.at}
InFlow(m, key) == {n \in Passed(m) : Pcap!FlowKey(m.capture[n]) = key}

\* How far an importer has come; made are the body files that exist.
Located(m, made) ==
  /\ m = [f \in ImportFields |-> m[f]]
  /\ IsCapture(m.capture)
  /\ m.pc \in {"recover", "write", "verify", "associate", "done"}
  /\ m.at \in 1..Len(m.capture) + 1
  /\ m.pc \in {"write", "verify", "associate"} => m.at <= Len(m.capture)
  /\ m.pc \in {"write", "verify"} => <<m.capture, Now(m).body>> \in made
  /\ m.status = "SUCCESS" =>
       m.pc = "done" /\ m.at = Len(m.capture) + 1 /\ m.capture # <<>>
  /\ m.pc # "done" \/ m.status = "SUCCESS" => \A n \in 1..m.at - 1 : m.capture[n].good
  /\ m.batch = IF m.status = "SUCCESS"
               THEN m.events \cup {Pcap!FlowEvent(f) : f \in Pcap!Range(m.flows)} ELSE {}

\* What it has recovered; full are the body files that hold all their bytes.
Recovered(m, full) ==
  /\ m.pc = "associate" =>
       /\ m.body # None => <<m.capture, m.body>> \in full
       /\ Now(m).body # None /\ m.warnings = {} => m.body = Now(m).body
  /\ \A e \in m.events : /\ e.kind # "flow"
                         /\ e.body # None => <<m.capture, e.body>> \in full
  /\ m.warnings = {} =>
       \A n \in Passed(m) :
         "http" \in m.capture[n].kinds /\ m.capture[n].body # None =>
           \E e \in m.events : e.frame = n /\ e.body = m.capture[n].body

FlowFields == {"network", "start", "end", "frames", "flags"}

\* A flow that has gathered just these frames of a capture.
Gathers(flow, capture, frames) ==
  /\ flow = [f \in FlowFields |-> flow[f]]
  /\ IsSequence(flow.frames) /\ ToSet(flow.frames) = frames
  /\ flow.start \in Int /\ flow.end \in Int
  /\ \A n \in frames : flow.start <= capture[n].time /\ capture[n].time <= flow.end
  /\ \E n \in frames : capture[n].time = flow.start
  /\ \E n \in frames : capture[n].time = flow.end
  /\ flow.flags = {capture[n].flag : n \in frames}

\* Every frame it has passed is in the flow of its key.
Conversing(m) ==
  /\ DOMAIN m.flows = {Pcap!FlowKey(m.capture[n]) : n \in Passed(m)}
  /\ \A key \in DOMAIN m.flows : Gathers(m.flows[key], m.capture, InFlow(m, key))

Sound(m, made, full) == Located(m, made) /\ Recovered(m, full) /\ Conversing(m)

PcapInv ==
  /\ import = [i \in DOMAIN import |-> import[i]]
  /\ whole \subseteq created
  /\ \A i \in DOMAIN import : Sound(import[i], created, whole)

-----------------------------------------------------------------------------
(***************************************************************************)
(* PcapImports: what an importer keeps while the files around it grow.     *)
(***************************************************************************)

LEMMA FilesGrow ==
  ASSUME NEW m, NEW made, NEW full, NEW more, NEW fuller, made \subseteq more,
         full \subseteq fuller, Sound(m, made, full)
  PROVE  Sound(m, more, fuller)
BY DEF Sound, Located, Recovered

\* One importer moves, files are added.
LEMMA OneMoves ==
  ASSUME PcapInv, NEW i \in DOMAIN import,
         DOMAIN import' = DOMAIN import, import' = [j \in DOMAIN import |-> import'[j]],
         \A j \in DOMAIN import \ {i} : import'[j] = import[j],
         created \subseteq created', whole \subseteq whole', whole' \subseteq created',
         Sound(import'[i], created', whole')
  PROVE  PcapInv'
<1>1. ASSUME NEW j \in DOMAIN import
      PROVE  Sound(import'[j], created', whole')
  BY <1>1, FilesGrow DEF PcapInv
<1> QED
  BY <1>1 DEF PcapInv

LEMMA NothingIsDone ==
  ASSUME NEW m, NEW made, NEW full, m = [f \in ImportFields |-> m[f]], IsCapture(m.capture),
         m.pc \in {"recover", "done"}, m.at = 1, m.flows = <<>>, m.events = {}, m.batch = {},
         m.status \in {"FAILED", "UNAVAILABLE"}
  PROVE  Sound(m, made, full)
<1>1. DOMAIN m.capture = 1..Len(m.capture) /\ Len(m.capture) \in Nat
  BY SequenceDomain DEF IsCapture, IsSequence
<1>2. Located(m, made)
  <2>1. m.at \in 1..Len(m.capture) + 1
    BY <1>1
  <2>2. \A n \in 1..m.at - 1 : m.capture[n].good
    OBVIOUS
  <2>3. m.pc \notin {"write", "verify", "associate"} /\ m.status # "SUCCESS"
    OBVIOUS
  <2> QED
    BY <2>1, <2>2, <2>3 DEF Located
<1>3. Passed(m) = {}
  BY <1>1 DEF Passed, Pcap!Frames
<1>4. DOMAIN m.flows = {}
  OBVIOUS
<1>5. Recovered(m, full)
  BY <1>3 DEF Recovered
<1>6. Conversing(m)
  BY <1>3, <1>4 DEF Conversing
<1> QED
  BY <1>2, <1>5, <1>6 DEF Sound

LEMMA FreshIsSound ==
  ASSUME NEW capture, IsCapture(capture), NEW made, NEW full
  PROVE  Sound(Pcap!Fresh(capture), made, full)
<1> DEFINE m == Pcap!Fresh(capture)
<1>1. /\ m = [f \in ImportFields |-> m[f]]
      /\ m.pc = "recover" /\ m.capture = capture /\ m.at = 1 /\ m.flows = <<>>
      /\ m.events = {} /\ m.batch = {} /\ m.status = "FAILED"
  BY DEF Pcap!Fresh, ImportFields
<1> HIDE DEF m
<1>2. Sound(m, made, full)
  BY <1>1, NothingIsDone
<1> QED
  BY <1>2 DEF m

LEMMA RestingIsSound ==
  ASSUME NEW capture, IsCapture(capture), NEW made, NEW full,
         NEW status \in {"FAILED", "UNAVAILABLE"}
  PROVE  Sound(Pcap!Resting(capture, status), made, full)
<1> DEFINE m == Pcap!Resting(capture, status)
<1>1. /\ m = [f \in ImportFields |-> m[f]]
      /\ m.pc = "done" /\ m.capture = capture /\ m.at = 1 /\ m.flows = <<>>
      /\ m.events = {} /\ m.batch = {} /\ m.status = status
  BY DEF Pcap!Resting, Pcap!Fresh, ImportFields
<1> HIDE DEF m
<1>2. Sound(m, made, full)
  BY <1>1, NothingIsDone
<1> QED
  BY <1>2 DEF m

-----------------------------------------------------------------------------
(***************************************************************************)
(* PcapImports: a packet joins its flow.                                   *)
(***************************************************************************)

LEMMA PassedDependsOn ==
  ASSUME NEW m, NEW k, k.capture = m.capture, k.at = m.at
  PROVE  /\ Passed(k) = Passed(m)
         /\ \A key : InFlow(k, key) = InFlow(m, key)
         /\ k.flows = m.flows /\ Conversing(m) => Conversing(k)
BY DEF Passed, InFlow, Conversing

LEMMA ExtendedGathers ==
  ASSUME NEW capture, NEW frames, NEW n, NEW flow,
         \A k \in frames \cup {n} : capture[k].time \in Int,
         \/ Gathers(flow, capture, frames)
         \/ flow = Pcap!NewFlow(capture[n]) /\ frames = {}
  PROVE  Gathers(Pcap!Extended(flow, capture[n], n), capture, frames \cup {n})
<1> DEFINE p == capture[n]
           longer == Pcap!Extended(flow, p, n)
<1>1. /\ flow = [f \in FlowFields |-> flow[f]]
      /\ IsSequence(flow.frames) /\ ToSet(flow.frames) = frames
      /\ flow.start \in Int /\ flow.end \in Int
      /\ \A k \in frames : flow.start <= capture[k].time /\ capture[k].time <= flow.end
      /\ \/ frames = {} /\ flow.start = p.time /\ flow.end = p.time
         \/ /\ \E k \in frames : capture[k].time = flow.start
            /\ \E k \in frames : capture[k].time = flow.end
      /\ flow.flags = {capture[k].flag : k \in frames}
  <2>1. CASE Gathers(flow, capture, frames)
    BY <2>1 DEF Gathers
  <2>2. CASE flow = Pcap!NewFlow(p) /\ frames = {}
    <3>1. /\ flow = [f \in FlowFields |-> flow[f]]
          /\ flow.frames = <<>> /\ flow.start = p.time /\ flow.end = p.time /\ flow.flags = {}
      BY <2>2 DEF Pcap!NewFlow, FlowFields
    <3> QED
      BY <2>2, <3>1, EmptyIsSequence
  <2> QED
    BY <2>1, <2>2
<1>2. /\ longer = [f \in FlowFields |-> longer[f]]
      /\ longer.frames = Append(flow.frames, n)
      /\ longer.flags = flow.flags \cup {p.flag}
      /\ longer.start = IF flow.start <= p.time THEN flow.start ELSE p.time
      /\ longer.end = IF flow.end <= p.time THEN p.time ELSE flow.end
  BY <1>1 DEF Pcap!Extended, Pcap!Smaller, Pcap!Larger, FlowFields
<1> HIDE DEF longer
<1>3. IsSequence(longer.frames) /\ ToSet(longer.frames) = frames \cup {n}
  <2>1. IsSequence(flow.frames) /\ ToSet(flow.frames) = frames
    BY <1>1
  <2>2. /\ IsSequence(Append(flow.frames, n))
        /\ ToSet(Append(flow.frames, n)) = ToSet(flow.frames) \cup {n}
    BY <2>1, AppendIsSequence
  <2> QED
    BY <1>2, <2>1, <2>2
<1>4. /\ longer.start \in Int /\ longer.end \in Int
      /\ longer.start <= flow.start /\ longer.start <= p.time
      /\ flow.end <= longer.end /\ p.time <= longer.end
  BY <1>1, <1>2
<1>5. \A k \in frames \cup {n} : longer.start <= capture[k].time /\ capture[k].time <= longer.end
  <2>1. ASSUME NEW k \in frames
        PROVE  longer.start <= capture[k].time /\ capture[k].time <= longer.end
    BY <1>1, <1>4
  <2> QED
    BY <1>4, <2>1
<1>6. \E k \in frames \cup {n} : capture[k].time = longer.start
  BY <1>1, <1>2
<1>7. \E k \in frames \cup {n} : capture[k].time = longer.end
  BY <1>1, <1>2
<1>8. longer.flags = {capture[k].flag : k \in frames \cup {n}}
  BY <1>1, <1>2
<1> QED
  BY <1>2, <1>3, <1>4, <1>5, <1>6, <1>7, <1>8 DEF Gathers, longer

LEMMA FlowJoins ==
  ASSUME NEW m, NEW k, IsCapture(m.capture), m.at \in DOMAIN m.capture, Now(m).ends # None,
         Conversing(m), k.capture = m.capture, k.at = m.at + 1,
         k.flows = Pcap!WithPacket(m.flows, Now(m), m.at)
  PROVE  Conversing(k)
<1> DEFINE p == Now(m)
           own == Pcap!FlowKey(p)
           Flow(key) == IF own \in DOMAIN m.flows THEN m.flows[own] ELSE Pcap!NewFlow(p)
<1>1. /\ DOMAIN m.capture = 1..Len(m.capture) /\ Len(m.capture) \in Nat
      /\ \A n \in DOMAIN m.capture : m.capture[n].time \in Int
  BY SequenceDomain DEF IsCapture, IsSequence
<1>2. Passed(k) = Passed(m) \cup {m.at} /\ m.at \notin Passed(m)
  BY <1>1 DEF Passed, Pcap!Frames, Now
<1>3. /\ DOMAIN k.flows = DOMAIN m.flows \cup {own}
      /\ k.flows[own] = Pcap!Extended(Flow(own), p, m.at)
      /\ \A key \in DOMAIN m.flows \ {own} : k.flows[key] = m.flows[key]
  BY DEF Pcap!WithPacket
<1>4. DOMAIN k.flows = {Pcap!FlowKey(k.capture[n]) : n \in Passed(k)}
  BY <1>2, <1>3 DEF Conversing, Now
<1>5. InFlow(k, own) = InFlow(m, own) \cup {m.at}
  BY <1>2 DEF InFlow, Now
<1>6. \A key \in DOMAIN m.flows \ {own} : InFlow(k, key) = InFlow(m, key)
  BY <1>2 DEF InFlow, Now
<1>7. Gathers(k.flows[own], k.capture, InFlow(k, own))
  <2>1. \A n \in InFlow(m, own) \cup {m.at} : m.capture[n].time \in Int
    BY <1>1 DEF InFlow, Passed, Pcap!Frames
  <2>2. \/ Gathers(Flow(own), m.capture, InFlow(m, own))
        \/ Flow(own) = Pcap!NewFlow(m.capture[m.at]) /\ InFlow(m, own) = {}
    <3>1. CASE own \in DOMAIN m.flows
      BY <3>1 DEF Conversing
    <3>2. CASE own \notin DOMAIN m.flows
      BY <3>2 DEF Conversing, InFlow, Now
    <3> QED
      BY <3>1, <3>2
  <2> HIDE DEF Flow
  <2>3. Gathers(Pcap!Extended(Flow(own), m.capture[m.at], m.at), m.capture,
                InFlow(m, own) \cup {m.at})
    BY <2>1, <2>2, ExtendedGathers
  <2> QED
    BY <1>3, <1>5, <2>3 DEF Now
<1>8. \A key \in DOMAIN m.flows \ {own} : Gathers(k.flows[key], k.capture, InFlow(k, key))
  BY <1>3, <1>6 DEF Conversing
<1> QED
  BY <1>3, <1>4, <1>7, <1>8 DEF Conversing

-----------------------------------------------------------------------------
(***************************************************************************)
(* PcapImports: the steps.                                                 *)
(***************************************************************************)

LEMMA ShapeHolds ==
  ASSUME PcapInv, NEW i \in DOMAIN import
  PROVE  /\ import = [j \in DOMAIN import |-> import[j]]
         /\ import[i] = [f \in ImportFields |-> import[i][f]]
         /\ IsCapture(import[i].capture) /\ import[i].at \in Nat /\ Len(import[i].capture) \in Nat
         /\ DOMAIN import[i].capture = 1..Len(import[i].capture)
         /\ Sound(import[i], created, whole)
<1>1. Sound(import[i], created, whole) /\ import = [j \in DOMAIN import |-> import[j]]
  BY DEF PcapInv
<1>2. IsCapture(import[i].capture) /\ import[i].at \in 1..Len(import[i].capture) + 1
  BY <1>1 DEF Sound, Located
<1>3. Len(import[i].capture) \in Nat /\ DOMAIN import[i].capture = 1..Len(import[i].capture)
  BY <1>2, SequenceDomain DEF IsCapture, IsSequence
<1>4. import[i] = [f \in ImportFields |-> import[i][f]]
  BY <1>1 DEF Sound, Located
<1>5. import[i].at \in Nat
  BY <1>2, <1>3
<1> QED
  BY <1>1, <1>2, <1>3, <1>4, <1>5

\* An importer that starts anew, or rests, is sound whatever it did before.
LEMMA ReplacedHolds ==
  ASSUME PcapInv, NEW i \in DOMAIN import, NEW m, import' = [import EXCEPT ![i] = m],
         UNCHANGED <<created, whole>>, Sound(m, created, whole)
  PROVE  PcapInv'
<1>1. /\ DOMAIN import' = DOMAIN import /\ import' = [j \in DOMAIN import |-> import'[j]]
      /\ import'[i] = m /\ \A j \in DOMAIN import \ {i} : import'[j] = import[j]
  BY ShapeHolds
<1>2. whole \subseteq created
  BY DEF PcapInv
<1> QED
  BY <1>1, <1>2, OneMoves

LEMMA StartHolds ==
  ASSUME PcapInv, NEW i \in DOMAIN import, Pcap!Start(i)
  PROVE  PcapInv'
<1> DEFINE capture == import[i].capture
<1>1. PICK next \in {Pcap!Fresh(capture), Pcap!Resting(capture, "UNAVAILABLE"),
                     Pcap!Resting(capture, "FAILED")} :
        import' = [import EXCEPT ![i] = next]
  BY DEF Pcap!Start
<1>2. IsCapture(capture)
  BY ShapeHolds
<1>3. Sound(next, created, whole)
  BY <1>2, FreshIsSound, RestingIsSound
<1>4. UNCHANGED <<created, whole>>
  BY DEF Pcap!Start
<1> QED
  BY <1>1, <1>3, <1>4, ReplacedHolds

LEMMA RestHolds ==
  ASSUME PcapInv, NEW i \in DOMAIN import, UNCHANGED <<created, whole>>,
         import' = [import EXCEPT ![i] = Pcap!Resting(@.capture, "FAILED")]
  PROVE  PcapInv'
<1>1. Sound(Pcap!Resting(import[i].capture, "FAILED"), created, whole)
  BY ShapeHolds, RestingIsSound
<1> QED
  BY <1>1, ReplacedHolds

\* Importer i moves from m to k, and adds files to those that exist and are whole.
LEMMA MovesHold ==
  ASSUME PcapInv, NEW i \in DOMAIN import, NEW k,
         DOMAIN import' = DOMAIN import, import' = [j \in DOMAIN import |-> import'[j]],
         \A j \in DOMAIN import \ {i} : import'[j] = import[j], import'[i] = k,
         created \subseteq created', whole \subseteq whole', whole' \subseteq created',
         Located(k, created'), Recovered(k, whole'), Conversing(k)
  PROVE  PcapInv'
<1>1. Sound(import'[i], created', whole')
  BY DEF Sound
<1> QED
  BY <1>1, OneMoves

\* m stays at its packet.
LEMMA StillLocated ==
  ASSUME NEW m, NEW k, NEW made, NEW more, Located(m, made), m.pc # "done",
         k = [f \in ImportFields |-> k[f]], k.capture = m.capture, k.at = m.at,
         k.status = m.status, k.batch = m.batch, m.at \in Nat, m.at <= Len(m.capture),
         k.pc \in {"write", "verify", "associate"},
         k.pc \in {"write", "verify"} => <<k.capture, Now(k).body>> \in more
  PROVE  Located(k, more)
<1>1. k.status # "SUCCESS" /\ k.batch = {}
  BY DEF Located
<1>2. /\ IsCapture(k.capture) /\ k.at \in 1..Len(k.capture) + 1 /\ k.at <= Len(k.capture)
      /\ \A n \in 1..k.at - 1 : k.capture[n].good
  BY DEF Located
<1>3. k.pc # "done" /\ k.pc \in {"recover", "write", "verify", "associate", "done"}
  OBVIOUS
<1> QED
  BY <1>1, <1>2, <1>3 DEF Located

LEMMA StillRecovered ==
  ASSUME NEW m, NEW k, NEW full, NEW fuller, Recovered(m, full), full \subseteq fuller,
         k.capture = m.capture, k.at = m.at, k.events = m.events,
         m.warnings \subseteq k.warnings,
         k.pc = "associate" =>
           /\ k.body # None => <<k.capture, k.body>> \in fuller
           /\ Now(k).body # None /\ k.warnings = {} => k.body = Now(k).body
  PROVE  Recovered(k, fuller)
<1>1. Passed(k) = Passed(m)
  BY PassedDependsOn
<1>2. k.warnings = {} => m.warnings = {}
  OBVIOUS
<1>3. k.warnings = {} =>
        \A n \in Passed(k) :
          "http" \in k.capture[n].kinds /\ k.capture[n].body # None =>
            \E e \in k.events : e.frame = n /\ e.body = k.capture[n].body
  BY <1>1, <1>2 DEF Recovered
<1>4. \A e \in k.events : /\ e.kind # "flow"
                          /\ e.body # None => <<k.capture, e.body>> \in fuller
  BY DEF Recovered
<1> QED
  BY <1>3, <1>4 DEF Recovered

LEMMA SettleHolds ==
  ASSUME PcapInv, NEW i \in DOMAIN import, NEW body, NEW warnings,
         Pcap!Settle(i, body, warnings),
         import[i].pc \in {"recover", "write", "verify"}, Pcap!InPacket(i),
         body # None => <<import[i].capture, body>> \in whole',
         Pcap!Packet(i).body # None /\ warnings = {} => body = Pcap!Packet(i).body,
         created \subseteq created', whole \subseteq whole', whole' \subseteq created'
  PROVE  PcapInv'
<1> DEFINE m == import[i]
           k == import'[i]
<1>1. Sound(m, created, whole) /\ m = [f \in ImportFields |-> m[f]] /\ m.at \in Nat
  BY ShapeHolds
<1>2. /\ DOMAIN import' = DOMAIN import /\ import' = [j \in DOMAIN import |-> import'[j]]
      /\ \A j \in DOMAIN import \ {i} : import'[j] = import[j]
      /\ k = [f \in ImportFields |-> k[f]]
      /\ k.pc = "associate" /\ k.capture = m.capture /\ k.at = m.at /\ k.body = body
      /\ k.warnings = m.warnings \cup warnings /\ k.flows = m.flows /\ k.events = m.events
      /\ k.batch = m.batch /\ k.status = m.status
  BY <1>1, ShapeHolds DEF Pcap!Settle, ImportFields
<1>3. m.at <= Len(m.capture) /\ m.status # "SUCCESS" /\ Now(k) = Now(m)
  BY <1>1, <1>2 DEF Pcap!InPacket, Sound, Located, Now
<1>4. /\ m.pc # "done" /\ whole \subseteq whole'
      /\ body # None => <<m.capture, body>> \in whole'
      /\ Now(m).body # None /\ warnings = {} => body = Now(m).body
  BY DEF Pcap!Packet, Now
<1> HIDE DEF m, k
<1>5. Located(k, created')
  BY <1>1, <1>2, <1>3, <1>4, StillLocated DEF Sound
<1>6. Conversing(k)
  BY <1>1, <1>2, PassedDependsOn DEF Sound
<1>7. Recovered(k, whole')
  <2>1. /\ m.warnings \subseteq k.warnings
        /\ k.body # None => <<k.capture, k.body>> \in whole'
        /\ Now(k).body # None /\ k.warnings = {} => k.body = Now(k).body
    BY <1>2, <1>3, <1>4
  <2>2. Recovered(m, whole)
    BY <1>1 DEF Sound
  <2> QED
    BY <1>2, <1>4, <2>1, <2>2, StillRecovered
<1> QED
  BY <1>2, <1>5, <1>6, <1>7, MovesHold DEF k

LEMMA RecoverBodyHolds ==
  ASSUME PcapInv, NEW i \in DOMAIN import, Pcap!RecoverBody(i)
  PROVE  PcapInv'
<1> DEFINE m == import[i]
           k == import'[i]
<1>1. m.pc = "recover" /\ Pcap!InPacket(i) /\ whole' = whole /\ whole \subseteq created
  BY DEF Pcap!RecoverBody, PcapInv
<1>2. CASE Pcap!Packet(i).body = None /\ Pcap!Settle(i, None, {}) /\ created' = created
  BY <1>1, <1>2, SettleHolds
<1>3. CASE Pcap!Settle(i, None, {"unclear"}) /\ created' = created
  BY <1>1, <1>3, SettleHolds
<1>4. CASE /\ created' = created \cup {Pcap!File(i)}
           /\ import' = [import EXCEPT
                ![i].pc = IF Pcap!File(i) \in created THEN "verify" ELSE "write"]
  <2>1. /\ Sound(m, created, whole) /\ m = [f \in ImportFields |-> m[f]]
        /\ m.at \in Nat /\ m.at <= Len(m.capture)
    BY <1>1, ShapeHolds DEF Pcap!InPacket
  <2>2. /\ DOMAIN import' = DOMAIN import /\ import' = [j \in DOMAIN import |-> import'[j]]
        /\ \A j \in DOMAIN import \ {i} : import'[j] = import[j]
        /\ k = [f \in ImportFields |-> k[f]]
        /\ k.pc \in {"verify", "write"} /\ k.capture = m.capture /\ k.at = m.at
        /\ k.warnings = m.warnings /\ k.flows = m.flows /\ k.events = m.events
        /\ k.batch = m.batch /\ k.status = m.status
    BY <1>4, <2>1, ShapeHolds DEF ImportFields
  <2>3. <<k.capture, Now(k).body>> \in created'
    <3>1. Pcap!File(i) \in created'
      BY <1>4
    <3>2. Pcap!File(i) = <<m.capture, Now(m).body>>
      BY DEF Pcap!File, Pcap!Packet, Now
    <3>3. Now(m) = Now(k) /\ k.capture = m.capture
      BY <2>2 DEF Now
    <3> QED
      BY <3>1, <3>2, <3>3
  <2>4. m.pc = "recover"
    BY <1>1
  <2> HIDE DEF m, k
  <2>5. Located(k, created')
    BY <2>1, <2>2, <2>3, <2>4, StillLocated DEF Sound
  <2>6. Conversing(k)
    BY <2>1, <2>2, PassedDependsOn DEF Sound
  <2>7. Recovered(k, whole')
    BY <1>1, <2>1, <2>2, StillRecovered DEF Sound
  <2> QED
    BY <1>1, <1>4, <2>2, <2>5, <2>6, <2>7, MovesHold DEF k
<1> QED
  BY <1>2, <1>3, <1>4 DEF Pcap!RecoverBody

LEMMA WriteAndVerifyHold ==
  ASSUME PcapInv, NEW i \in DOMAIN import,
         Pcap!WriteBody(i) \/ Pcap!WriteFails(i) \/ Pcap!VerifyBody(i)
  PROVE  PcapInv'
<1>1. /\ import[i].pc \in {"write", "verify"} /\ created' = created
      /\ whole \subseteq created
  BY DEF Pcap!WriteBody, Pcap!WriteFails, Pcap!VerifyBody, PcapInv
<1>2. Pcap!InPacket(i) /\ Pcap!File(i) \in created
  BY <1>1, ShapeHolds DEF Sound, Located, Pcap!InPacket, Pcap!File, Pcap!Packet, Now
<1>3. CASE Pcap!WriteBody(i)
  <2>1. whole' = whole \cup {Pcap!File(i)} /\ Pcap!Settle(i, Pcap!Packet(i).body, {})
    BY <1>3 DEF Pcap!WriteBody
  <2>2. <<import[i].capture, Pcap!Packet(i).body>> \in whole'
    BY <2>1 DEF Pcap!File
  <2> QED
    BY <1>1, <1>2, <2>1, <2>2, SettleHolds
<1>4. CASE Pcap!WriteFails(i)
  BY <1>1, <1>2, <1>4, SettleHolds DEF Pcap!WriteFails
<1>5. CASE /\ whole' = whole /\ Pcap!File(i) \in whole
           /\ Pcap!Settle(i, Pcap!Packet(i).body, {})
  BY <1>1, <1>2, <1>5, SettleHolds DEF Pcap!File
<1>6. CASE whole' = whole /\ Pcap!Settle(i, None, {"integrity"})
  BY <1>1, <1>2, <1>6, SettleHolds
<1> QED
  BY <1>3, <1>4, <1>5, <1>6 DEF Pcap!VerifyBody

\* The events of a packet: none is a flow, and an HTTP message has the body.
LEMMA PacketEventsFit ==
  ASSUME NEW p, p.kinds \subseteq {"dns", "http", "tls"}, NEW frame, NEW body
  PROVE  /\ \A e \in Pcap!PacketEvents(p, frame, body) :
              e.kind # "flow" /\ (e.body # None => e.body = body)
         /\ "http" \in p.kinds =>
              \E e \in Pcap!PacketEvents(p, frame, body) : e.frame = frame /\ e.body = body
<1> DEFINE Event(kind1) ==
             [ kind |-> kind1, frame |-> frame, network |-> <<p.proto, p.stream, p.ends>>,
               body |-> IF kind1 = "http" THEN body ELSE None, start |-> p.time,
               end |-> p.time, frames |-> <<frame>>, state |-> None ]
<1>1. Pcap!PacketEvents(p, frame, body) = {Event(k) : k \in p.kinds}
  BY DEF Pcap!PacketEvents
<1>2. \A k : /\ Event(k).kind = k /\ Event(k).frame = frame
             /\ Event(k).body = IF k = "http" THEN body ELSE None
  OBVIOUS
<1> HIDE DEF Event
<1> QED
  BY <1>1, <1>2

\* What an importer has when it goes on to the next packet.
LEMMA PassesPacket ==
  ASSUME NEW m, NEW k, NEW made, NEW full, Sound(m, made, full), m.pc = "associate",
         Now(m).good, m.at \in Nat, Len(m.capture) \in Nat,
         DOMAIN m.capture = 1..Len(m.capture),
         k = [f \in ImportFields |-> k[f]], k.pc = "recover", k.capture = m.capture,
         k.at = m.at + 1, k.status = m.status, k.batch = m.batch, k.warnings = m.warnings,
         \/ Now(m).ends = None /\ k.flows = m.flows /\ k.events = m.events
         \/ /\ Now(m).ends # None
            /\ k.flows = Pcap!WithPacket(m.flows, Now(m), m.at)
            /\ k.events = m.events \cup Pcap!PacketEvents(Now(m), m.at, m.body)
  PROVE  Sound(k, made, full)
<1>1. Located(m, made) /\ Recovered(m, full) /\ Conversing(m)
  BY DEF Sound
<1>2. /\ m.at \in DOMAIN m.capture /\ m.at <= Len(m.capture) /\ IsCapture(m.capture)
      /\ m.status # "SUCCESS" /\ m.batch = {}
      /\ \A n \in 1..m.at - 1 : m.capture[n].good
  BY <1>1 DEF Located
<1>3. Located(k, made)
  <2>1. \A n \in 1..k.at - 1 : k.capture[n].good
    BY <1>2 DEF Now
  <2>2. k.at \in 1..Len(k.capture) + 1
    BY <1>2
  <2> QED
    BY <1>2, <2>1, <2>2 DEF Located
<1>4. Now(m).kinds \subseteq {"dns", "http", "tls"}
  BY <1>2, SequenceDomain DEF IsCapture, IsSequence, Now
<1>5. CASE Now(m).ends = None /\ k.flows = m.flows /\ k.events = m.events
  <2>1. Passed(k) = Passed(m)
    BY <1>2, <1>5 DEF Passed, Pcap!Frames, Now
  <2>2. Conversing(k)
    BY ZenonT(60), <1>1, <1>5, <2>1 DEF Conversing, InFlow
  <2>3. Recovered(k, full)
    <3>1. \A e \in k.events : /\ e.kind # "flow"
                              /\ e.body # None => <<k.capture, e.body>> \in full
      BY <1>1, <1>5 DEF Recovered
    <3>2. k.warnings = {} =>
            \A n \in Passed(k) :
              "http" \in k.capture[n].kinds /\ k.capture[n].body # None =>
                \E e \in k.events : e.frame = n /\ e.body = k.capture[n].body
      <4>1. m.warnings = {} =>
              \A n \in Passed(m) :
                "http" \in m.capture[n].kinds /\ m.capture[n].body # None =>
                  \E e \in m.events : e.frame = n /\ e.body = m.capture[n].body
        BY <1>1 DEF Recovered
      <4>2. k.warnings = m.warnings /\ k.capture = m.capture /\ k.events = m.events
        BY <1>5
      <4> QED
        BY SMTT(60), <2>1, <4>1, <4>2
    <3> QED
      BY <3>1, <3>2 DEF Recovered
  <2> QED
    BY <1>3, <2>2, <2>3 DEF Sound
<1>6. CASE /\ Now(m).ends # None
           /\ k.flows = Pcap!WithPacket(m.flows, Now(m), m.at)
           /\ k.events = m.events \cup Pcap!PacketEvents(Now(m), m.at, m.body)
  <2>1. Passed(k) = Passed(m) \cup {m.at}
    BY <1>2, <1>6 DEF Passed, Pcap!Frames, Now
  <2>2. Conversing(k)
    BY <1>1, <1>2, <1>6, FlowJoins
  <2>3. \A e \in k.events : /\ e.kind # "flow"
                            /\ e.body # None => <<k.capture, e.body>> \in full
    <3> SUFFICES ASSUME NEW e \in k.events
                 PROVE  e.kind # "flow" /\ (e.body # None => <<m.capture, e.body>> \in full)
      OBVIOUS
    <3>1. CASE e \in m.events
      BY <1>1, <3>1 DEF Recovered
    <3>2. CASE e \in Pcap!PacketEvents(Now(m), m.at, m.body)
      <4>1. e.kind # "flow" /\ (e.body # None => e.body = m.body)
        BY <1>4, <3>2, PacketEventsFit
      <4> QED
        BY <1>1, <4>1 DEF Recovered
    <3> QED
      BY <1>6, <3>1, <3>2
  <2>4. k.warnings = {} =>
          \A n \in Passed(k) :
            "http" \in k.capture[n].kinds /\ k.capture[n].body # None =>
              \E e \in k.events : e.frame = n /\ e.body = k.capture[n].body
    <3> SUFFICES ASSUME m.warnings = {}, NEW n \in Passed(m) \cup {m.at},
                        "http" \in m.capture[n].kinds, m.capture[n].body # None
                 PROVE  \E e \in k.events : e.frame = n /\ e.body = m.capture[n].body
      BY SMTT(60), <2>1
    <3>1. CASE n \in Passed(m)
      BY <1>1, <1>6, <3>1 DEF Recovered
    <3>2. CASE n = m.at
      <4>1. m.body = m.capture[n].body
        BY <1>1, <3>2 DEF Recovered, Now
      <4>2. PICK e \in Pcap!PacketEvents(Now(m), m.at, m.body) : e.frame = m.at /\ e.body = m.body
        <5>1. "http" \in Now(m).kinds
          BY <3>2 DEF Now
        <5> QED
          BY ZenonT(60), <1>4, <5>1, PacketEventsFit
      <4> QED
        BY <1>6, <3>2, <4>1, <4>2
    <3> QED
      BY <3>1, <3>2
  <2>5. Recovered(k, full)
    BY <2>3, <2>4 DEF Recovered
  <2> QED
    BY <1>3, <2>2, <2>5 DEF Sound
<1> QED
  BY <1>5, <1>6

LEMMA AssociatePacketHolds ==
  ASSUME PcapInv, NEW i \in DOMAIN import, Pcap!AssociatePacket(i)
  PROVE  PcapInv'
<1> DEFINE m == import[i]
           k == import'[i]
<1>1. /\ Sound(m, created, whole) /\ m = [f \in ImportFields |-> m[f]] /\ m.at \in Nat
      /\ Len(m.capture) \in Nat /\ DOMAIN m.capture = 1..Len(m.capture)
  BY ShapeHolds
<1>2. /\ m.pc = "associate" /\ UNCHANGED <<created, whole>> /\ whole \subseteq created
      /\ Pcap!Packet(i) = Now(m)
  BY DEF Pcap!AssociatePacket, Pcap!Packet, Now, PcapInv
<1>3. CASE import' = [import EXCEPT ![i] = Pcap!Resting(@.capture, "FAILED")]
  BY <1>2, <1>3, RestHolds
<1>4. CASE /\ Now(m).good /\ Now(m).ends = None
           /\ import' = [import EXCEPT ![i].pc = "recover", ![i].at = @ + 1]
  <2>1. /\ DOMAIN import' = DOMAIN import /\ import' = [j \in DOMAIN import |-> import'[j]]
        /\ \A j \in DOMAIN import \ {i} : import'[j] = import[j]
        /\ k = [f \in ImportFields |-> k[f]] /\ k.pc = "recover" /\ k.capture = m.capture
        /\ k.at = m.at + 1 /\ k.status = m.status /\ k.batch = m.batch
        /\ k.warnings = m.warnings /\ k.flows = m.flows /\ k.events = m.events
    BY <1>1, <1>4, ShapeHolds DEF ImportFields
  <2> HIDE DEF m, k
  <2>2. Sound(k, created, whole)
    BY <1>1, <1>2, <1>4, <2>1, PassesPacket
  <2> QED
    BY <1>2, <2>1, <2>2, OneMoves DEF k
<1>5. CASE /\ Now(m).good /\ Now(m).ends # None
           /\ import' = [import EXCEPT
                ![i].pc = "recover", ![i].at = @ + 1,
                ![i].flows = Pcap!WithPacket(@, Now(m), import[i].at),
                ![i].events = @ \cup Pcap!PacketEvents(Now(m), import[i].at, import[i].body)]
  <2>1. /\ DOMAIN import' = DOMAIN import /\ import' = [j \in DOMAIN import |-> import'[j]]
        /\ \A j \in DOMAIN import \ {i} : import'[j] = import[j]
        /\ k = [f \in ImportFields |-> k[f]] /\ k.pc = "recover" /\ k.capture = m.capture
        /\ k.at = m.at + 1 /\ k.status = m.status /\ k.batch = m.batch
        /\ k.warnings = m.warnings
        /\ k.flows = Pcap!WithPacket(m.flows, Now(m), m.at)
        /\ k.events = m.events \cup Pcap!PacketEvents(Now(m), m.at, m.body)
    BY <1>1, <1>5, ShapeHolds DEF ImportFields
  <2> HIDE DEF m, k
  <2>2. Sound(k, created, whole)
    BY <1>1, <1>2, <1>5, <2>1, PassesPacket
  <2> QED
    BY <1>2, <2>1, <2>2, OneMoves DEF k
<1> QED
  BY <1>2, <1>3, <1>4, <1>5 DEF Pcap!AssociatePacket

LEMMA FinishHolds ==
  ASSUME PcapInv, NEW i \in DOMAIN import, Pcap!Finish(i)
  PROVE  PcapInv'
<1> DEFINE m == import[i]
           k == import'[i]
           flows == {Pcap!FlowEvent(f) : f \in Pcap!Range(m.flows)}
<1>1. /\ Sound(m, created, whole) /\ m = [f \in ImportFields |-> m[f]] /\ m.at \in Nat
      /\ Len(m.capture) \in Nat
  BY ShapeHolds
<1>2. /\ m.pc = "recover" /\ ~Pcap!InPacket(i) /\ UNCHANGED <<created, whole>>
      /\ whole \subseteq created
  BY DEF Pcap!Finish, PcapInv
<1>3. CASE import' = [import EXCEPT ![i] = Pcap!Resting(@.capture, "FAILED")]
  BY <1>2, <1>3, RestHolds
<1>4. CASE /\ m.capture # <<>>
           /\ import' = [import EXCEPT ![i].pc = "done", ![i].status = "SUCCESS",
                           ![i].batch = import[i].events \cup flows]
  <2>1. /\ DOMAIN import' = DOMAIN import /\ import' = [j \in DOMAIN import |-> import'[j]]
        /\ \A j \in DOMAIN import \ {i} : import'[j] = import[j]
        /\ k = [f \in ImportFields |-> k[f]] /\ k.pc = "done" /\ k.capture = m.capture
        /\ k.at = m.at /\ k.status = "SUCCESS" /\ k.batch = m.events \cup flows
        /\ k.warnings = m.warnings /\ k.flows = m.flows /\ k.events = m.events
    BY <1>1, <1>4, ShapeHolds DEF ImportFields
  <2>2. m.at = Len(m.capture) + 1
    BY <1>1, <1>2 DEF Pcap!InPacket, Sound, Located
  <2>3. k.batch = k.events \cup {Pcap!FlowEvent(f) : f \in Pcap!Range(k.flows)}
    BY <2>1
  <2> HIDE DEF flows
  <2>4. m.pc = "recover" /\ m.capture # <<>>
    BY <1>2, <1>4
  <2> HIDE DEF m, k
  <2>5. /\ IsCapture(m.capture) /\ \A n \in 1..m.at - 1 : m.capture[n].good
        /\ m.at \in 1..Len(m.capture) + 1
    BY <1>1, <2>4 DEF Sound, Located
  <2>6. /\ IsCapture(k.capture) /\ \A n \in 1..k.at - 1 : k.capture[n].good
        /\ k.at \in 1..Len(k.capture) + 1 /\ k.at = Len(k.capture) + 1 /\ k.capture # <<>>
    BY <2>1, <2>2, <2>4, <2>5
  <2>7. Located(k, created)
    BY <2>1, <2>3, <2>6 DEF Located
  <2>8. Recovered(m, whole) /\ Conversing(m)
    BY <1>1 DEF Sound
  <2>9. Recovered(k, whole)
    BY <2>1, <2>8, StillRecovered
  <2>10. Conversing(k)
    BY <2>1, <2>8, PassedDependsOn
  <2>11. Sound(k, created, whole)
    BY <2>7, <2>9, <2>10 DEF Sound
  <2> QED
    BY <1>2, <2>1, <2>11, OneMoves DEF k
<1> QED
  BY <1>3, <1>4 DEF Pcap!Finish

LEMMA KillHolds ==
  ASSUME PcapInv, NEW i \in DOMAIN import, Pcap!Kill(i)
  PROVE  PcapInv'
BY RestHolds DEF Pcap!Kill

LEMMA PcapInitHolds == Pcap!Init => PcapInv
<1> SUFFICES ASSUME Pcap!Init PROVE PcapInv
  OBVIOUS
<1>1. PICK given \in Imports :
        import = [i \in DOMAIN given |-> Pcap!Resting(given[i], "FAILED")]
  BY DEF Pcap!Init
<1>2. \A i \in DOMAIN given : IsCapture(given[i])
  BY CapturesAssumption
<1>3. \A i \in DOMAIN import : Sound(import[i], created, whole)
  BY <1>1, <1>2, RestingIsSound
<1> QED
  BY <1>1, <1>3 DEF PcapInv, Pcap!Init

LEMMA PcapStepHolds == PcapInv /\ [Pcap!Next]_Pcap!vars => PcapInv'
<1> SUFFICES ASSUME PcapInv, [Pcap!Next]_Pcap!vars PROVE PcapInv'
  OBVIOUS
<1>1. CASE UNCHANGED Pcap!vars
  BY <1>1 DEF Pcap!vars, PcapInv
<1>2. CASE Pcap!Next
  <2>1. PICK i \in DOMAIN import :
          \/ Pcap!Start(i) \/ Pcap!RecoverBody(i) \/ Pcap!WriteBody(i) \/ Pcap!WriteFails(i)
          \/ Pcap!VerifyBody(i) \/ Pcap!AssociatePacket(i) \/ Pcap!Finish(i) \/ Pcap!Kill(i)
    BY <1>2 DEF Pcap!Next, Pcap!Importers
  <2> QED
    BY <2>1, StartHolds, RecoverBodyHolds, WriteAndVerifyHold, AssociatePacketHolds,
       FinishHolds, KillHolds
<1> QED
  BY <1>1, <1>2

-----------------------------------------------------------------------------
(***************************************************************************)
(* PcapImports: what the invariant says of an import that succeeded.       *)
(***************************************************************************)

\* The import has passed every frame, and its flows are those of the batch.
LEMMA SucceededImport ==
  ASSUME PcapInv, NEW i \in Pcap!Succeeded
  PROVE  /\ i \in DOMAIN import /\ import[i].status = "SUCCESS"
         /\ Passed(import[i]) = Pcap!Frames(import[i].capture)
         /\ import[i].batch = import[i].events \cup
              {Pcap!FlowEvent(import[i].flows[key]) : key \in DOMAIN import[i].flows}
         /\ Pcap!FlowsOf(i) =
              {Pcap!FlowEvent(import[i].flows[key]) : key \in DOMAIN import[i].flows}
         /\ \A key \in DOMAIN import[i].flows :
              Pcap!Range(import[i].flows[key].frames) = InFlow(import[i], key)
<1> DEFINE m == import[i]
           flows == {Pcap!FlowEvent(m.flows[key]) : key \in DOMAIN m.flows}
<1>1. /\ i \in DOMAIN import /\ m.status = "SUCCESS"
      /\ Sound(m, created, whole) /\ Len(m.capture) \in Nat
      /\ DOMAIN m.capture = 1..Len(m.capture)
  BY ShapeHolds DEF Pcap!Succeeded, Pcap!Importers
<1>2. Passed(m) = Pcap!Frames(m.capture)
  BY <1>1 DEF Sound, Located, Passed, Pcap!Frames
<1>3. m.batch = m.events \cup flows
  <2>1. {Pcap!FlowEvent(f) : f \in Pcap!Range(m.flows)} = flows
    BY DEF Pcap!Range
  <2> QED
    BY <1>1, <2>1 DEF Sound, Located
<1>4. Pcap!FlowsOf(i) = flows
  <2>1. \A e \in m.events : e.kind # "flow"
    BY <1>1 DEF Sound, Recovered
  <2>2. \A e \in flows : e.kind = "flow"
    BY DEF Pcap!FlowEvent
  <2> HIDE DEF flows
  <2> QED
    BY <1>3, <2>1, <2>2 DEF Pcap!FlowsOf
<1>5. ASSUME NEW key \in DOMAIN m.flows
      PROVE  Pcap!Range(m.flows[key].frames) = InFlow(m, key)
  BY <1>1, <1>5 DEF Sound, Conversing, Gathers, Pcap!Range, ToSet
<1> QED
  BY <1>1, <1>2, <1>3, <1>4, <1>5

LEMMA ShapesAreTyped == PcapInv => Pcap!TypeOK
<1> SUFFICES ASSUME PcapInv PROVE Pcap!TypeOK
  OBVIOUS
<1>1. ASSUME NEW i \in DOMAIN import
      PROVE  LET m == import[i]
             IN  /\ m.pc \in {"recover", "write", "verify", "associate", "done"}
                 /\ m.at \in 1..Len(m.capture) + 1
                 /\ m.status = "SUCCESS" =>
                      m.capture # <<>> /\ \A n \in DOMAIN m.capture : m.capture[n].good
                 /\ m.batch # {} => m.status = "SUCCESS"
  <2>1. /\ Sound(import[i], created, whole) /\ Len(import[i].capture) \in Nat
        /\ DOMAIN import[i].capture = 1..Len(import[i].capture)
    BY <1>1, ShapeHolds
  <2>2. import[i].status = "SUCCESS" =>
          import[i].at = Len(import[i].capture) + 1 /\ import[i].capture # <<>>
    BY <2>1 DEF Sound, Located
  <2>3. import[i].status = "SUCCESS" =>
          \A n \in 1..import[i].at - 1 : import[i].capture[n].good
    BY <2>1 DEF Sound, Located
  <2>4. import[i].batch # {} => import[i].status = "SUCCESS"
    BY <2>1 DEF Sound, Located
  <2>5. /\ import[i].pc \in {"recover", "write", "verify", "associate", "done"}
        /\ import[i].at \in 1..Len(import[i].capture) + 1
    BY <2>1 DEF Sound, Located
  <2> QED
    BY <2>1, <2>2, <2>3, <2>4, <2>5
<1> QED
  BY <1>1 DEF PcapInv, Pcap!TypeOK, Pcap!Importers

LEMMA BodiesAreWhole == PcapInv => Pcap!RecoveredBodiesAreWhole
<1> SUFFICES ASSUME PcapInv, NEW i \in DOMAIN import,
                    NEW e \in import[i].events \cup import[i].batch, e.body # None
             PROVE  <<import[i].capture, e.body>> \in whole
  BY DEF Pcap!RecoveredBodiesAreWhole, Pcap!Importers
<1>1. Sound(import[i], created, whole)
  BY ShapeHolds
<1>2. CASE e \in import[i].events
  BY <1>1, <1>2 DEF Sound, Recovered
<1>3. CASE e \notin import[i].events
  <2>1. PICK f : e = Pcap!FlowEvent(f)
    BY <1>1, <1>3 DEF Sound, Located
  <2> QED
    BY <2>1 DEF Pcap!FlowEvent
<1> QED
  BY <1>2, <1>3

LEMMA LossesAreReported == PcapInv => Pcap!LostBodiesAreReported
<1> SUFFICES ASSUME PcapInv, NEW i \in Pcap!Succeeded, NEW n \in Pcap!Frames(import[i].capture),
                    "http" \in import[i].capture[n].kinds, import[i].capture[n].body # None,
                    import[i].warnings = {}
             PROVE  \E e \in import[i].batch :
                      e.frame = n /\ e.body = import[i].capture[n].body
  BY DEF Pcap!LostBodiesAreReported
<1>1. /\ n \in Passed(import[i]) /\ Recovered(import[i], whole)
      /\ import[i].events \subseteq import[i].batch
  BY SucceededImport, ShapeHolds DEF Sound
<1> QED
  BY <1>1 DEF Recovered

LEMMA FlowsConverse == PcapInv => Pcap!FlowsAreConversations
<1> SUFFICES ASSUME PcapInv, NEW i \in Pcap!Succeeded,
                    NEW n \in Pcap!Frames(import[i].capture),
                    NEW k \in Pcap!Frames(import[i].capture)
             PROVE  Pcap!FlowKey(import[i].capture[n]) = Pcap!FlowKey(import[i].capture[k]) <=>
                      \E e \in Pcap!FlowsOf(i) :
                        n \in Pcap!Range(e.frames) /\ k \in Pcap!Range(e.frames)
  BY ZenonT(60) DEF Pcap!FlowsAreConversations, Pcap!FlowKey
<1> DEFINE m == import[i]
           Key(j) == Pcap!FlowKey(m.capture[j])
<1>1. /\ n \in Passed(m) /\ k \in Passed(m)
      /\ Pcap!FlowsOf(i) = {Pcap!FlowEvent(m.flows[key]) : key \in DOMAIN m.flows}
      /\ \A key \in DOMAIN m.flows : Pcap!Range(m.flows[key].frames) = InFlow(m, key)
      /\ DOMAIN m.flows = {Key(j) : j \in Passed(m)}
  BY SucceededImport, ShapeHolds DEF Sound, Conversing
<1>2. \A flow : Pcap!FlowEvent(flow).frames = flow.frames
  BY DEF Pcap!FlowEvent
<1>3. \A key, j : j \in InFlow(m, key) <=> j \in Passed(m) /\ Key(j) = key
  BY DEF InFlow
<1> HIDE DEF m, Key
<1>4. ASSUME Key(n) = Key(k)
      PROVE  \E e \in Pcap!FlowsOf(i) :
               n \in Pcap!Range(e.frames) /\ k \in Pcap!Range(e.frames)
  <2>1. Key(n) \in DOMAIN m.flows /\ n \in InFlow(m, Key(n)) /\ k \in InFlow(m, Key(n))
    BY <1>1, <1>3, <1>4
  <2> QED
    BY <1>1, <1>2, <2>1
<1>5. ASSUME NEW e \in Pcap!FlowsOf(i), n \in Pcap!Range(e.frames), k \in Pcap!Range(e.frames)
      PROVE  Key(n) = Key(k)
  <2>1. PICK key \in DOMAIN m.flows : e = Pcap!FlowEvent(m.flows[key])
    BY <1>1
  <2>2. n \in InFlow(m, key) /\ k \in InFlow(m, key)
    BY <1>1, <1>2, <1>5, <2>1
  <2> QED
    BY <1>3, <2>2
<1> QED
  BY <1>4, <1>5 DEF Key, m

LEMMA FlowsSpan == PcapInv => Pcap!FlowsSpanTheirPackets
<1> SUFFICES ASSUME PcapInv, NEW i \in Pcap!Succeeded, NEW e \in Pcap!FlowsOf(i)
             PROVE  LET packets == {import[i].capture[n] : n \in Pcap!Range(e.frames)}
                    IN  /\ \A p \in packets : e.start <= p.time /\ p.time <= e.end
                        /\ \E p, q \in packets : p.time = e.start /\ q.time = e.end
                        /\ (\E p \in packets : p.flag = "rst") <=> e.state = "RST observed"
                        /\ (\A p \in packets : p.flag = None) <=> e.state = "observed packets"
  BY DEF Pcap!FlowsSpanTheirPackets
<1> DEFINE m == import[i]
           packets == {m.capture[n] : n \in Pcap!Range(e.frames)}
<1>1. /\ Pcap!FlowsOf(i) = {Pcap!FlowEvent(m.flows[key]) : key \in DOMAIN m.flows}
      /\ \A key \in DOMAIN m.flows : Pcap!Range(m.flows[key].frames) = InFlow(m, key)
      /\ Sound(m, created, whole) /\ IsCapture(m.capture)
  BY SucceededImport, ShapeHolds
<1>2. PICK key \in DOMAIN m.flows : e = Pcap!FlowEvent(m.flows[key])
  BY <1>1
<1> DEFINE flow == m.flows[key]
           frames == InFlow(m, key)
<1>3. /\ \A n \in frames : flow.start <= m.capture[n].time /\ m.capture[n].time <= flow.end
      /\ \E n \in frames : m.capture[n].time = flow.start
      /\ \E n \in frames : m.capture[n].time = flow.end
      /\ flow.flags = {m.capture[n].flag : n \in frames}
  BY <1>1, <1>2 DEF Sound, Conversing, Gathers
<1>4. /\ e.start = flow.start /\ e.end = flow.end /\ e.frames = flow.frames
      /\ e.state = IF "rst" \in flow.flags THEN "RST observed"
                   ELSE IF "fin" \in flow.flags THEN "FIN observed" ELSE "observed packets"
  BY <1>2 DEF Pcap!FlowEvent, Pcap!FlowState
<1>5. packets = {m.capture[n] : n \in frames}
  BY <1>1, <1>2, <1>4
<1>6. \A p \in packets : p.flag \in {None, "fin", "rst"}
  <2>1. \A n \in frames : n \in DOMAIN m.capture
    BY DEF InFlow, Passed, Pcap!Frames
  <2>2. \A n \in DOMAIN m.capture : m.capture[n] \in ToSet(m.capture)
    BY <1>1, SequenceDomain DEF IsCapture, IsSequence
  <2> HIDE DEF packets, frames, m
  <2> QED
    BY <1>1, <1>5, <2>1, <2>2 DEF IsCapture
<1> HIDE DEF packets, frames, flow, m
<1>7. flow.flags = {p.flag : p \in packets}
  BY <1>3, <1>5
<1>8. /\ \A p \in packets : e.start <= p.time /\ p.time <= e.end
      /\ \E p, q \in packets : p.time = e.start /\ q.time = e.end
  BY <1>3, <1>4, <1>5
<1>9. (\E p \in packets : p.flag = "rst") <=> e.state = "RST observed"
  BY <1>4, <1>7
<1>10. (\A p \in packets : p.flag = None) <=> e.state = "observed packets"
  <2>1. e.state = "observed packets" <=> "rst" \notin flow.flags /\ "fin" \notin flow.flags
    BY <1>4
  <2>2. None \notin {"fin", "rst"}
    BY CapturesAssumption
  <2> QED
    BY <1>6, <1>7, <2>1, <2>2
<1> QED
  BY <1>8, <1>9, <1>10 DEF packets, m

-----------------------------------------------------------------------------
(***************************************************************************)
(* MemoryExports: the processes of the rows.                               *)
(***************************************************************************)

\* One, and what is not one.
LEMMA Singles ==
  /\ Memory!Cardinality({}) = 0
  /\ \A x : Memory!Cardinality({x}) = 1
  /\ \A S : Memory!Cardinality(S) = 1 => Memory!OneOf(S) \in S
<1>1. \A S : Memory!Cardinality(S) = Cardinality(S)
  BY DEF Memory!Cardinality, Cardinality
<1>2. Cardinality({}) = 0 /\ \A x : Cardinality({x}) = 1
  BY FS_EmptySet, FS_Singleton
<1>3. ASSUME NEW S, Memory!Cardinality(S) = 1
      PROVE  Memory!OneOf(S) \in S
  <2>1. S # {}
    BY <1>1, <1>2, <1>3
  <2> QED
    BY <2>1 DEF Memory!OneOf
<1> QED
  BY <1>1, <1>2, <1>3

\* The process of a group of rows.
ProcessOf(group, pid, start) ==
  [ pid |-> pid, start |-> start,
    name |-> Memory!OneOf(Memory!Values(group, Memory!Name)),
    ppid |-> Memory!OneOf(Memory!Values(group, Memory!Ppid)),
    exit |-> Memory!OneOf(Memory!Values(group, Memory!Exit)),
    rows |-> group ]

LEMMA ProcessesOfRows ==
  ASSUME NEW given
  PROVE  Memory!Processes(given) =
           {ProcessOf(Memory!SameProcess(given, r), r.pid, Memory!StartOf(given, r)) :
              r \in Memory!ProcessRows(given)}
BY DEF Memory!Processes, ProcessOf, Memory!Values, Memory!Name, Memory!Ppid, Memory!Exit

LEMMA FactsOfProcess ==
  ASSUME NEW group, NEW pid, NEW start
  PROVE  LET p == ProcessOf(group, pid, start)
         IN  p.pid = pid /\ p.start = start /\ p.rows = group
BY DEF ProcessOf, Memory!Values, Memory!Name, Memory!Ppid, Memory!Exit

LEMMA InstancesTell ==
  ASSUME NEW p, NEW q, Memory!Instance(p) = Memory!Instance(q)
  PROVE  p.pid = q.pid /\ p.start = q.start
<1> DEFINE I(o) == IF o.start # None THEN <<"start", o.start>>
                   ELSE <<"offset", Memory!OneOf({r.offset : r \in o.rows} \ {None})>>
<1>1. \A o : Memory!Instance(o) = <<"process", o.pid, I(o)>>
  BY DEF Memory!Instance, Memory!Values, Memory!Offset
<1> QED
  BY <1>1

LEMMA InstancesAreNoScans ==
  ASSUME NEW p
  PROVE  /\ \A a, b, c : Memory!Instance(p) # <<"scan", a, b, c>>
         /\ \A row : Memory!Instance(p) # <<"unresolved", row>>
<1> DEFINE I(o) == IF o.start # None THEN <<"start", o.start>>
                   ELSE <<"offset", Memory!OneOf({r.offset : r \in o.rows} \ {None})>>
<1>1. Memory!Instance(p) = <<"process", p.pid, I(p)>>
  BY DEF Memory!Instance, Memory!Values, Memory!Offset
<1> HIDE DEF I
<1> QED
  BY <1>1

\* A row is of one process, the one with its PID and the start of its lifetime.
LEMMA ProcessesPartition ==
  ASSUME NEW given
  PROVE  /\ \A p \in Memory!Processes(given) : p.rows \subseteq Memory!ProcessRows(given)
         /\ \A r \in Memory!ProcessRows(given) :
              \E p \in Memory!Processes(given) : r \in p.rows
         /\ \A p \in Memory!Processes(given) : \A r \in p.rows :
              p.pid = r.pid /\ p.start = Memory!StartOf(given, r)
         /\ \A p, q \in Memory!Processes(given) :
              p.pid = q.pid /\ p.start = q.start => p = q
<1> DEFINE Group(r) == Memory!SameProcess(given, r)
           Of(r) == ProcessOf(Group(r), r.pid, Memory!StartOf(given, r))
<1>1. Memory!Processes(given) = {Of(r) : r \in Memory!ProcessRows(given)}
  BY ProcessesOfRows
<1>2. \A r : Of(r).pid = r.pid /\ Of(r).start = Memory!StartOf(given, r) /\ Of(r).rows = Group(r)
  BY FactsOfProcess
<1>3. \A r, s : s \in Group(r) <=>
        /\ s \in Memory!ProcessRows(given) /\ s.pid = r.pid
        /\ Memory!StartOf(given, s) = Memory!StartOf(given, r)
  BY DEF Memory!SameProcess
<1>4. \A r, s : r.pid = s.pid /\ Memory!StartOf(given, r) = Memory!StartOf(given, s)
                  => Of(r) = Of(s)
  <2>1. \A r, s : r.pid = s.pid /\ Memory!StartOf(given, r) = Memory!StartOf(given, s)
                    => Group(r) = Group(s)
    BY DEF Memory!SameProcess
  <2> QED
    BY <2>1
<1> HIDE DEF Of, Group
<1> QED
  BY <1>1, <1>2, <1>3, <1>4

LEMMA OwnersAreProcesses ==
  ASSUME NEW row, NEW processes
  PROVE  LET owner == Memory!OwnerOf(row, processes)
         IN  owner # None =>
               owner \in processes /\ (row.time # None => Memory!Alive(owner, row.time))
<1> DEFINE found == {p \in processes :
                      /\ p.pid = row.pid
                      /\ row.name = None \/ p.name = row.name
                      /\ row.time = None \/ Memory!Alive(p, row.time)}
<1>1. Memory!OwnerOf(row, processes) =
        IF Memory!Cardinality(found) = 1 THEN Memory!OneOf(found) ELSE None
  BY DEF Memory!OwnerOf
<1>2. Memory!Cardinality(found) = 1 => Memory!OneOf(found) \in found
  BY Singles
<1> QED
  BY <1>1, <1>2

LEMMA ParentsAreProcesses ==
  ASSUME NEW p, NEW processes
  PROVE  LET parent == Memory!ParentOf(p, processes)
         IN  parent # None =>
               \E q \in processes : /\ parent = Memory!Instance(q)
                                    /\ p.start # None => Memory!Alive(q, p.start)
<1> DEFINE named == {q \in processes : q.pid = p.ppid}
           found == Memory!PossibleParents(p, named)
<1>1. found \subseteq processes
  BY DEF Memory!PossibleParents
<1>2. \A q \in found : p.start # None => Memory!Alive(q, p.start)
  BY DEF Memory!PossibleParents
<1>3. Memory!Cardinality(found) = 1 => Memory!OneOf(found) \in found
  BY Singles
<1> HIDE DEF found
<1>4. Memory!ParentOf(p, processes) =
        IF p.ppid # None /\ p.ppid # p.pid /\ Memory!Cardinality(found) = 1
        THEN Memory!Instance(Memory!OneOf(found)) ELSE None
  BY DEF Memory!ParentOf, found
<1> QED
  BY <1>1, <1>2, <1>3, <1>4

EventFields == {"type", "instance", "pid", "name", "start", "exit", "time", "parent", "rows",
                "signal"}

LEMMA ProcessEventIs ==
  ASSUME NEW p, NEW processes
  PROVE  LET e == Memory!ProcessEvent(p, processes)
         IN  /\ e = [f \in EventFields |-> e[f]]
             /\ e.type = "process" /\ e.instance = Memory!Instance(p) /\ e.pid = p.pid
             /\ e.name = p.name /\ e.start = p.start /\ e.exit = p.exit /\ e.rows = p.rows
             /\ e.parent = Memory!ParentOf(p, processes) /\ e.signal = None
BY DEF Memory!ProcessEvent, EventFields

LEMMA OwnedEventIs ==
  ASSUME NEW row, NEW processes
  PROVE  LET e == Memory!OwnedEvent(row, processes, "object")
             owner == Memory!OwnerOf(row, processes)
         IN  /\ e = [f \in EventFields |-> e[f]]
             /\ e.type = "object" /\ e.parent = None /\ e.signal = None /\ e.time = row.time
             /\ \/ e.instance = None
                \/ owner = None /\ e.instance = <<"unresolved", row>>
                \/ owner # None /\ e.instance = Memory!Instance(owner)
             /\ \/ owner = None /\ e.rows = {row}
                \/ owner # None /\ e.rows = {row} \cup owner.rows
BY DEF Memory!OwnedEvent, EventFields

-----------------------------------------------------------------------------
(***************************************************************************)
(* MemoryExports: the invariant.                                           *)
(***************************************************************************)

\* The exports whose rows are behind the events by now.
Done == {i \in DOMAIN exports : runs[i] = "SUCCESS" /\ (Memory!IsMerged(i) \/ at > i)}

MemoryShape ==
  /\ AreExports(exports)
  /\ step \in {"load", "convert", "done"}
  /\ at \in 1..Len(exports) + 1
  /\ step = "done" => at = Len(exports) + 1
  /\ runs = [i \in DOMAIN exports |-> runs[i]]
  /\ \A i \in DOMAIN exports : runs[i] \in {"SUCCESS", "FAILED"}
  /\ step = "load" => events = {}
  /\ \A e \in events : /\ e = [f \in EventFields |-> e[f]]
                       /\ e.type \in {"process", "object", "scan"}
                       /\ step # "done" => e.signal = None

\* The rows behind the events are those of the exports that have succeeded so far.
Behind == UNION {e.rows : e \in events}
RowsAreBehind == step # "load" => Behind = UNION {exports[i].rows : i \in Done}

\* PID and start tell processes apart, and so does their identity.
Identified(d, e) ==
  /\ d.instance = e.instance \/ (d.pid = e.pid /\ d.start = e.start) => d = e
  /\ d # e => d.rows \cap e.rows = {}

Lived(e) == \A r, s \in e.rows : r.created # None /\ s.created # None => r.created = s.created

ProcessesAreIdentified ==
  /\ \A d, e \in Memory!ProcessEvents : Identified(d, e)
  /\ \A e \in Memory!ProcessEvents : Lived(e) /\ \A row : e.instance # <<"unresolved", row>>
  /\ \A e \in Memory!ProcessEvents : \A a, b, c : e.instance # <<"scan", a, b, c>>

\* A scan with a time of creation is the listed process exactly if they agree.
ScansAreCompared ==
  \A e \in events, p \in Memory!ProcessEvents :
    e.type = "scan" =>
      /\ e.instance = p.instance => e.start = p.start /\ e.name = p.name
      /\ /\ e.start # None /\ p.pid = e.pid /\ p.start = e.start /\ p.name = e.name
         => e.instance = p.instance

MemoryInv ==
  /\ MemoryShape
  /\ RowsAreBehind
  /\ ProcessesAreIdentified
  /\ Memory!RelationsFitLifetimes
  /\ ScansAreCompared
  /\ Memory!ScanOnlyIsNotListed

LEMMA ExportsAreFiles ==
  ASSUME AreExports(exports)
  PROVE  /\ Len(exports) \in Nat /\ DOMAIN exports = 1..Len(exports)
         /\ \A i, j \in DOMAIN exports : i # j => exports[i].rows \cap exports[j].rows = {}
BY SequenceDomain DEF AreExports, IsSequence

LEMMA MemoryInitHolds == Memory!Init => MemoryInv
<1> SUFFICES ASSUME Memory!Init PROVE MemoryInv
  OBVIOUS
<1>1. /\ exports \in Inputs /\ step = "load" /\ at = 1 /\ events = {}
      /\ runs = [i \in DOMAIN exports |-> "FAILED"]
  BY DEF Memory!Init
<1>2. AreExports(exports)
  BY <1>1, InputsAssumption
<1>3. MemoryShape
  BY <1>1, <1>2, ExportsAreFiles DEF MemoryShape
<1> QED
  BY <1>1, <1>3
  DEF MemoryInv, RowsAreBehind, ProcessesAreIdentified, Memory!RelationsFitLifetimes,
      ScansAreCompared, Memory!ScanOnlyIsNotListed, Memory!ProcessEvents

LEMMA LoadExportHolds ==
  ASSUME MemoryInv, Memory!LoadExport
  PROVE  MemoryInv'
<1>1. /\ step = "load" /\ at <= Len(exports) /\ at' = at + 1
      /\ UNCHANGED <<exports, step, skipped, events>>
      /\ \E state \in {"SUCCESS", "FAILED"} : runs' = [runs EXCEPT ![at] = state]
  BY DEF Memory!LoadExport
<1>2. events = {} /\ AreExports(exports) /\ at \in 1..Len(exports) + 1
  BY <1>1 DEF MemoryInv, MemoryShape
<1>3. MemoryShape'
  BY SMTT(60), <1>1, <1>2, ExportsAreFiles DEF MemoryInv, MemoryShape
<1> QED
  BY <1>1, <1>2, <1>3
  DEF MemoryInv, RowsAreBehind, ProcessesAreIdentified, Memory!RelationsFitLifetimes,
      ScansAreCompared, Memory!ScanOnlyIsNotListed, Memory!ProcessEvents

\* What the merge makes of rows.
LEMMA MergeFits ==
  ASSUME NEW given, NEW made, made = Memory!MergedEvents(given)
  PROVE  /\ \A e \in made : /\ e = [f \in EventFields |-> e[f]]
                            /\ e.type \in {"process", "object"} /\ e.signal = None
         /\ UNION {e.rows : e \in made} = given
         /\ \A d, e \in made : d.type = "process" /\ e.type = "process" => Identified(d, e)
         /\ \A e \in made : e.type = "process" =>
              /\ Lived(e) /\ \A row : e.instance # <<"unresolved", row>>
              /\ \A a, b, c : e.instance # <<"scan", a, b, c>>
         /\ \A e, p \in made :
              LET time == IF e.type = "process" THEN e.start ELSE e.time
                  related == {e.parent} \cup IF e.type = "object" THEN {e.instance} ELSE {}
              IN  p.type = "process" /\ p.instance \in related \ {None} /\ time # None =>
                    Memory!Alive(p, time)
<1> DEFINE processes == Memory!Processes(given)
           Proc(p) == Memory!ProcessEvent(p, processes)
           Owned(r) == Memory!OwnedEvent(r, processes, "object")
           others == given \ Memory!ProcessRows(given)
<1>1. made = {Proc(p) : p \in processes} \cup {Owned(r) : r \in others}
  BY DEF Memory!MergedEvents
<1>2. Memory!ProcessRows(given) \subseteq given
  BY DEF Memory!ProcessRows
<1>3. /\ \A p \in processes : p.rows \subseteq Memory!ProcessRows(given)
      /\ \A r \in Memory!ProcessRows(given) : \E p \in processes : r \in p.rows
      /\ \A p \in processes : \A r \in p.rows :
           p.pid = r.pid /\ p.start = Memory!StartOf(given, r)
      /\ \A p, q \in processes : p.pid = q.pid /\ p.start = q.start => p = q
  BY ProcessesPartition
<1>4. \A p : /\ Proc(p) = [f \in EventFields |-> Proc(p)[f]]
             /\ Proc(p).type = "process" /\ Proc(p).instance = Memory!Instance(p)
             /\ Proc(p).pid = p.pid /\ Proc(p).start = p.start /\ Proc(p).exit = p.exit
             /\ Proc(p).rows = p.rows /\ Proc(p).parent = Memory!ParentOf(p, processes)
             /\ Proc(p).signal = None
  BY ProcessEventIs
<1>5. \A r : /\ Owned(r) = [f \in EventFields |-> Owned(r)[f]]
             /\ Owned(r).type = "object" /\ Owned(r).parent = None /\ Owned(r).signal = None
             /\ Owned(r).time = r.time
             /\ \/ Owned(r).instance = None
                \/ Owned(r).instance = <<"unresolved", r>>
                \/ /\ Memory!OwnerOf(r, processes) # None
                   /\ Owned(r).instance = Memory!Instance(Memory!OwnerOf(r, processes))
             /\ \/ Owned(r).rows = {r}
                \/ /\ Memory!OwnerOf(r, processes) # None
                   /\ Owned(r).rows = {r} \cup Memory!OwnerOf(r, processes).rows
  BY OwnedEventIs
<1>6. \A r : LET owner == Memory!OwnerOf(r, processes)
             IN  owner # None =>
                   owner \in processes /\ (r.time # None => Memory!Alive(owner, r.time))
  BY OwnersAreProcesses
<1>7. \A p : LET parent == Memory!ParentOf(p, processes)
             IN  parent # None =>
                   \E q \in processes : /\ parent = Memory!Instance(q)
                                        /\ p.start # None => Memory!Alive(q, p.start)
  BY ParentsAreProcesses
<1>8. \A p, q \in processes : Memory!Instance(p) = Memory!Instance(q) => p = q
  BY <1>3, InstancesTell
<1>9. \A p, t : Memory!Alive(p, t) => Memory!Alive(Proc(p), t)
  BY <1>4 DEF Memory!Alive
<1> HIDE DEF processes, Proc, Owned
<1>10. \A e \in made : \/ \E p \in processes : e = Proc(p)
                       \/ \E r \in others : e = Owned(r)
  BY <1>1
<1>11. \A e \in made : e.type = "process" => \E p \in processes : e = Proc(p)
  BY <1>5, <1>10
<1>12. \A e \in made : /\ e = [f \in EventFields |-> e[f]]
                       /\ e.type \in {"process", "object"} /\ e.signal = None
  BY <1>4, <1>5, <1>10
<1>13. UNION {e.rows : e \in made} = given
  <2>1. \A e \in made : e.rows \subseteq given
    <3>1. \A p \in processes : Proc(p).rows \subseteq given
      BY <1>2, <1>3, <1>4
    <3>2. ASSUME NEW r \in others PROVE Owned(r).rows \subseteq given
      BY <1>2, <1>3, <1>5, <1>6
    <3> QED
      BY <1>10, <3>1, <3>2
  <2>2. ASSUME NEW r \in given PROVE \E e \in made : r \in e.rows
    <3>1. CASE r \in others
      BY <1>1, <1>5, <3>1
    <3>2. CASE r \in Memory!ProcessRows(given)
      BY <1>1, <1>3, <1>4, <3>2
    <3> QED
      BY <3>1, <3>2
  <2> HIDE DEF others
  <2> QED
    BY <2>1, <2>2
<1>14. ASSUME NEW p \in processes, NEW q \in processes PROVE Identified(Proc(p), Proc(q))
  <2>1. Proc(p).instance = Proc(q).instance \/ (Proc(p).pid = Proc(q).pid /\ Proc(p).start = Proc(q).start)
          => p = q
    BY <1>3, <1>4, <1>8
  <2>2. p # q => p.rows \cap q.rows = {}
    BY <1>3
  <2> QED
    BY <1>4, <2>1, <2>2 DEF Identified
<1>15. ASSUME NEW p \in processes
       PROVE  /\ Lived(Proc(p)) /\ \A row : Proc(p).instance # <<"unresolved", row>>
              /\ \A a, b, c : Proc(p).instance # <<"scan", a, b, c>>
  <2>1. \A r : r.created # None => Memory!StartOf(given, r) = r.created
    BY DEF Memory!StartOf
  <2>2. Lived(Proc(p))
    BY <1>3, <1>4, <2>1 DEF Lived
  <2>3. Proc(p).instance = Memory!Instance(p)
    BY <1>4
  <2>4. /\ \A row : Memory!Instance(p) # <<"unresolved", row>>
        /\ \A a, b, c : Memory!Instance(p) # <<"scan", a, b, c>>
    BY InstancesAreNoScans
  <2> QED
    BY <2>2, <2>3, <2>4
<1>16. ASSUME NEW e \in made, NEW p \in processes, NEW time, time # None,
              time = (IF e.type = "process" THEN e.start ELSE e.time),
              Proc(p).instance # None,
              Proc(p).instance = e.parent \/ (e.type = "object" /\ Proc(p).instance = e.instance)
       PROVE  Memory!Alive(Proc(p), time)
  <2>1. CASE \E q \in processes : e = Proc(q)
    <3>1. PICK q \in processes : e = Proc(q)
      BY <2>1
    <3>2. /\ time = q.start /\ Memory!Instance(p) = Memory!ParentOf(q, processes)
          /\ Memory!Instance(p) # None
      BY <1>4, <1>16, <3>1
    <3>3. Memory!Alive(p, time)
      BY <1>7, <1>8, <1>16, <3>2
    <3> QED
      BY <1>9, <3>3
  <2>2. CASE \E r \in others : e = Owned(r)
    <3>1. PICK r \in others : e = Owned(r)
      BY <2>2
    <3>2. time = r.time /\ Memory!Instance(p) = e.instance /\ Memory!Instance(p) # None
      BY <1>4, <1>5, <1>16, <3>1
    <3>3. /\ Memory!OwnerOf(r, processes) # None
          /\ Memory!Instance(p) = Memory!Instance(Memory!OwnerOf(r, processes))
      BY <1>5, <3>1, <3>2, InstancesAreNoScans
    <3>4. Memory!Alive(p, time)
      BY <1>6, <1>8, <1>16, <3>2, <3>3
    <3> QED
      BY <1>9, <3>4
  <2> QED
    BY <1>10, <2>1, <2>2
<1>17. \A d, e \in made : d.type = "process" /\ e.type = "process" => Identified(d, e)
  BY <1>11, <1>14
<1>18. \A e \in made : e.type = "process" =>
         /\ Lived(e) /\ \A row : e.instance # <<"unresolved", row>>
         /\ \A a, b, c : e.instance # <<"scan", a, b, c>>
  BY <1>11, <1>15
<1>19. \A e, p \in made :
         LET time == IF e.type = "process" THEN e.start ELSE e.time
             related == {e.parent} \cup IF e.type = "object" THEN {e.instance} ELSE {}
         IN  p.type = "process" /\ p.instance \in related \ {None} /\ time # None =>
               Memory!Alive(p, time)
  BY <1>11, <1>16
<1> QED
  BY <1>12, <1>13, <1>17, <1>18, <1>19

\* The properties of the processes and their relations, for events that are known.
LEMMA MergeExportsHolds ==
  ASSUME MemoryInv, Memory!MergeExports
  PROVE  MemoryInv'
<1> DEFINE given == Memory!Rows(Memory!Joint)
<1>1. /\ step = "load" /\ at > Len(exports) /\ at' = 1 /\ step' = "convert"
      /\ UNCHANGED <<exports, skipped>>
  BY DEF Memory!MergeExports
<1>2. /\ events = {} /\ AreExports(exports) /\ Len(exports) \in Nat
      /\ DOMAIN exports = 1..Len(exports)
      /\ runs = [i \in DOMAIN exports |-> runs[i]]
      /\ \A i \in DOMAIN exports : runs[i] \in {"SUCCESS", "FAILED"}
  BY <1>1, ExportsAreFiles DEF MemoryInv, MemoryShape
<1>3. CASE events' = Memory!MergedEvents(given) /\ runs' = runs
  <2>1. given = UNION {exports[i].rows : i \in Done'}
    <3>1. Done' = {i \in DOMAIN exports : runs[i] = "SUCCESS" /\ Memory!IsMerged(i)}
      BY <1>1, <1>2, <1>3 DEF Done, Memory!IsMerged
    <3>2. given = UNION {exports[i].rows : i \in Memory!Joint}
      BY DEF Memory!Rows
    <3>3. Memory!Joint = {i \in Done' : exports[i].rows # {}}
      BY <3>1 DEF Memory!Joint, Memory!Loaded
    <3> HIDE DEF given
    <3> QED
      BY <3>2, <3>3
  <2> HIDE DEF given
  <2>2. MemoryShape'
    BY <1>1, <1>2, <1>3, MergeFits DEF MemoryShape
  <2>3. RowsAreBehind'
    <3>1. UNION {e.rows : e \in events'} = given
      BY <1>3, MergeFits
    <3> QED
      BY <1>1, <2>1, <3>1 DEF RowsAreBehind, Behind
  <2>4. ProcessesAreIdentified'
    <3>1. /\ \A d, e \in events' : d.type = "process" /\ e.type = "process" => Identified(d, e)
          /\ \A e \in events' : e.type = "process" =>
               /\ Lived(e) /\ \A row : e.instance # <<"unresolved", row>>
               /\ \A a, b, c : e.instance # <<"scan", a, b, c>>
      BY <1>3, MergeFits
    <3> QED
      BY <3>1 DEF ProcessesAreIdentified, Memory!ProcessEvents
  <2>5. Memory!RelationsFitLifetimes'
    <3>1. \A e, p \in events' :
            LET time == IF e.type = "process" THEN e.start ELSE e.time
                related == {e.parent} \cup IF e.type = "object" THEN {e.instance} ELSE {}
            IN  p.type = "process" /\ p.instance \in related \ {None} /\ time # None =>
                  Memory!Alive(p, time)
      BY <1>3, MergeFits
    <3> QED
      BY <3>1 DEF Memory!RelationsFitLifetimes, Memory!ProcessEvents
  <2>6. \A e \in events' : e.type # "scan" /\ e.signal = None
    BY <1>3, MergeFits
  <2>7. ScansAreCompared' /\ Memory!ScanOnlyIsNotListed'
    BY <2>6, InputsAssumption DEF ScansAreCompared, Memory!ScanOnlyIsNotListed
  <2> QED
    BY <2>2, <2>3, <2>4, <2>5, <2>7 DEF MemoryInv
<1>4. CASE /\ events' = {}
           /\ runs' = [i \in DOMAIN exports |->
                         IF i \in Memory!Loaded /\ Memory!IsMerged(i) THEN "FAILED" ELSE runs[i]]
  <2>1. Done' = {}
    BY <1>1, <1>2, <1>4 DEF Done, Memory!Loaded, Memory!IsMerged
  <2>2. MemoryShape'
    BY <1>1, <1>2, <1>4 DEF MemoryShape
  <2>3. Behind' = {}
    BY <1>4 DEF Behind
  <2> QED
    BY <1>4, <2>1, <2>2, <2>3
    DEF MemoryInv, RowsAreBehind, ProcessesAreIdentified, Memory!RelationsFitLifetimes,
        ScansAreCompared, Memory!ScanOnlyIsNotListed, Memory!ProcessEvents
<1> QED
  BY <1>2, <1>3, <1>4 DEF Memory!MergeExports

\* The owners an object or a scan is compared with are the processes of the events.
LEMMA OwnersAreEvents ==
  /\ \A o \in Memory!Owners : \E e \in Memory!ProcessEvents :
       /\ o.pid = e.pid /\ o.start = e.start /\ o.name = e.name /\ o.exit = e.exit
       /\ o.instance = e.instance /\ o.rows = e.rows
       /\ o = [ pid |-> e.pid, start |-> e.start, name |-> e.name, exit |-> e.exit,
                instance |-> e.instance, rows |-> e.rows ]
  /\ \A e \in Memory!ProcessEvents :
       [ pid |-> e.pid, start |-> e.start, name |-> e.name, exit |-> e.exit,
         instance |-> e.instance, rows |-> e.rows ] \in Memory!Owners
BY DEF Memory!Owners, Memory!ProcessEvents

\* The event of one converted row.
LEMMA HeldFits ==
  ASSUME NEW row
  PROVE  LET e == Memory!HeldEvent(row)
         IN  /\ e = [f \in EventFields |-> e[f]]
             /\ e.type = "object" /\ e.signal = None /\ e.parent = None /\ e.time = None
             /\ row \in e.rows /\ e.rows \subseteq {row} \cup Behind
<1> DEFINE found == {o \in Memory!Owners : o.pid = row.pid /\ (row.name = None \/ o.name = row.name)}
           e == Memory!HeldEvent(row)
<1>1. /\ e = [f \in EventFields |-> e[f]]
      /\ e.type = "object" /\ e.signal = None /\ e.parent = None /\ e.time = None
      /\ e.rows = {row} \cup IF Memory!Cardinality(found) = 1 THEN Memory!OneOf(found).rows ELSE {}
  BY DEF Memory!HeldEvent, EventFields
<1>2. Memory!Cardinality(found) = 1 => Memory!OneOf(found) \in Memory!Owners
  <2>1. found \subseteq Memory!Owners
    OBVIOUS
  <2> HIDE DEF found
  <2> QED
    BY <2>1, Singles
<1>3. \A o \in Memory!Owners : o.rows \subseteq Behind
  BY OwnersAreEvents DEF Behind, Memory!ProcessEvents
<1> HIDE DEF found, e
<1>4. row \in e.rows /\ e.rows \subseteq {row} \cup Behind
  BY <1>1, <1>2, <1>3
<1> QED
  BY <1>1, <1>4 DEF e

LEMMA ScanFits ==
  ASSUME NEW row, ProcessesAreIdentified
  PROVE  LET e == Memory!ScanEvent(row)
         IN  /\ e = [f \in EventFields |-> e[f]]
             /\ e.type = "scan" /\ e.signal = None /\ e.parent = None /\ e.time = None
             /\ e.rows = {row}
             /\ \A p \in Memory!ProcessEvents :
                  /\ e.instance = p.instance => e.start = p.start /\ e.name = p.name
                  /\ /\ e.start # None /\ p.pid = e.pid /\ p.start = e.start /\ p.name = e.name
                     => e.instance = p.instance
<1> DEFINE found == Memory!Scanned(row)
           e == Memory!ScanEvent(row)
<1>1. /\ e = [f \in EventFields |-> e[f]]
      /\ e.type = "scan" /\ e.signal = None /\ e.parent = None /\ e.time = None
      /\ e.rows = {row} /\ e.pid = row.pid /\ e.name = row.name /\ e.start = row.created
      /\ e.instance = IF Memory!Cardinality(found) = 1 THEN Memory!OneOf(found).instance
                      ELSE <<"scan", row.pid, row.created, row.offset>>
  BY DEF Memory!ScanEvent, EventFields
<1>2. \A o : o \in found <=> /\ o \in Memory!Owners /\ o.pid = row.pid
                             /\ row.created # None /\ o.start = row.created
                             /\ o.name = row.name
  BY DEF Memory!Scanned
<1>3. Memory!Cardinality(found) = 1 => Memory!OneOf(found) \in found
  BY Singles
<1> HIDE DEF found, e
<1>4. ASSUME NEW p \in Memory!ProcessEvents, e.instance = p.instance
      PROVE  e.start = p.start /\ e.name = p.name
  <2>1. e.instance # <<"scan", row.pid, row.created, row.offset>>
    BY <1>4 DEF ProcessesAreIdentified
  <2>2. PICK o \in found : e.instance = o.instance
    BY <1>1, <1>3, <2>1
  <2>3. PICK d \in Memory!ProcessEvents :
          o.instance = d.instance /\ o.start = d.start /\ o.name = d.name
    BY <1>2, <2>2, OwnersAreEvents
  <2>4. d = p
    BY <1>4, <2>2, <2>3 DEF ProcessesAreIdentified, Identified
  <2> QED
    BY <1>1, <1>2, <2>2, <2>3, <2>4
<1>5. ASSUME NEW p \in Memory!ProcessEvents, e.start # None, p.pid = e.pid,
             p.start = e.start, p.name = e.name
      PROVE  e.instance = p.instance
  <2> DEFINE own == [ pid |-> p.pid, start |-> p.start, name |-> p.name, exit |-> p.exit,
                      instance |-> p.instance, rows |-> p.rows ]
  <2>1. own \in found
    BY <1>1, <1>2, <1>5, OwnersAreEvents
  <2>2. ASSUME NEW o \in found PROVE o = own
    <3>1. PICK d \in Memory!ProcessEvents :
            /\ o.pid = d.pid /\ o.start = d.start
            /\ o = [ pid |-> d.pid, start |-> d.start, name |-> d.name, exit |-> d.exit,
                     instance |-> d.instance, rows |-> d.rows ]
      BY <1>2, <2>2, OwnersAreEvents
    <3>2. d = p
      BY <1>1, <1>2, <1>5, <2>2, <3>1 DEF ProcessesAreIdentified, Identified
    <3> QED
      BY <3>1, <3>2
  <2>3. own.instance = p.instance
    OBVIOUS
  <2> HIDE DEF own
  <2>4. found = {own}
    BY <2>1, <2>2
  <2>5. Memory!Cardinality(found) = 1
    BY <2>4, Singles
  <2> QED
    BY <1>1, <1>3, <2>2, <2>3, <2>5
<1> QED
  BY <1>1, <1>4, <1>5 DEF e

\* A row of another plugin becomes an event of its own.
LEMMA ConvertedFits ==
  ASSUME ProcessesAreIdentified, NEW r, NEW e, e = Memory!Converted(r)
  PROVE  /\ e = [f \in EventFields |-> e[f]]
         /\ e.type \in {"object", "scan"} /\ e.signal = None
         /\ e.parent = None /\ e.time = None
         /\ r \in e.rows /\ e.rows \subseteq {r} \cup Behind
         /\ \A p \in Memory!ProcessEvents :
              e.type = "scan" =>
                /\ e.instance = p.instance => e.start = p.start /\ e.name = p.name
                /\ /\ e.start # None /\ p.pid = e.pid /\ p.start = e.start
                   /\ p.name = e.name
                   => e.instance = p.instance
<1>1. CASE r.plugin = "psscan"
  <2>1. e = Memory!ScanEvent(r)
    BY <1>1 DEF Memory!Converted
  <2> QED
    BY <2>1, ScanFits
<1>2. CASE r.plugin # "psscan"
  <2>1. e = Memory!HeldEvent(r)
    BY <1>2 DEF Memory!Converted
  <2> QED
    BY <2>1, HeldFits
<1> QED
  BY <1>1, <1>2

LEMMA ConvertExportHolds ==
  ASSUME MemoryInv, Memory!ConvertExport
  PROVE  MemoryInv'
<1>1. /\ step = "convert" /\ at <= Len(exports) /\ at' = at + 1 /\ at \in DOMAIN exports
      /\ UNCHANGED <<exports, step, skipped>>
      /\ AreExports(exports) /\ Len(exports) \in Nat
      /\ DOMAIN exports = 1..Len(exports) /\ at \in Nat
      /\ runs = [i \in DOMAIN exports |-> runs[i]]
      /\ \A i \in DOMAIN exports : runs[i] \in {"SUCCESS", "FAILED"}
  BY ExportsAreFiles DEF Memory!ConvertExport, MemoryInv, MemoryShape
<1>2. Behind = UNION {exports[i].rows : i \in Done}
  BY <1>1 DEF MemoryInv, RowsAreBehind
<1>3. CASE at \notin Memory!Loaded \/ Memory!IsMerged(at)
  <2>1. runs' = runs /\ events' = events
    BY <1>3 DEF Memory!ConvertExport
  <2>2. Done' = Done
    BY <1>1, <1>3, <2>1 DEF Done, Memory!Loaded, Memory!IsMerged
  <2>3. MemoryShape'
    BY <1>1, <2>1 DEF MemoryInv, MemoryShape
  <2> QED
    BY <1>1, <1>2, <2>1, <2>2, <2>3
    DEF MemoryInv, RowsAreBehind, Behind, ProcessesAreIdentified,
        Memory!RelationsFitLifetimes, ScansAreCompared, Memory!ScanOnlyIsNotListed,
        Memory!ProcessEvents
<1>4. CASE /\ at \in Memory!Loaded /\ ~Memory!IsMerged(at)
           /\ runs' = [runs EXCEPT ![at] = "FAILED"] /\ events' = events
  <2>1. Done' = Done
    BY <1>1, <1>4 DEF Done, Memory!Loaded, Memory!IsMerged
  <2>2. MemoryShape'
    <3>1. /\ runs' = [i \in DOMAIN exports |-> runs'[i]]
          /\ \A i \in DOMAIN exports : runs'[i] \in {"SUCCESS", "FAILED"}
      BY <1>1, <1>4
    <3> QED
      BY <1>1, <1>4, <3>1 DEF MemoryInv, MemoryShape
  <2>3. Memory!ScanOnlyIsNotListed'
    BY <1>1, <1>4, InputsAssumption DEF MemoryInv, MemoryShape, Memory!ScanOnlyIsNotListed
  <2>4. Memory!ProcessEvents' = Memory!ProcessEvents
    BY <1>4 DEF Memory!ProcessEvents
  <2>5. RowsAreBehind'
    BY <1>1, <1>2, <1>4, <2>1 DEF RowsAreBehind, Behind
  <2>6. ProcessesAreIdentified'
    BY <2>4 DEF MemoryInv, ProcessesAreIdentified
  <2>7. Memory!RelationsFitLifetimes' /\ ScansAreCompared'
    BY <1>4, <2>4 DEF MemoryInv, Memory!RelationsFitLifetimes, ScansAreCompared
  <2> QED
    BY <2>2, <2>3, <2>5, <2>6, <2>7 DEF MemoryInv
<1>5. CASE /\ at \in Memory!Loaded /\ ~Memory!IsMerged(at) /\ runs' = runs
           /\ events' = events \cup {Memory!Converted(r) : r \in exports[at].rows}
  <2> DEFINE added == {Memory!Converted(r) : r \in exports[at].rows}
             group == exports[at].rows
  <2>1. Done' = Done \cup {at}
    BY <1>1, <1>5 DEF Done, Memory!Loaded, Memory!IsMerged
  <2>2. ProcessesAreIdentified
    BY DEF MemoryInv
  <2> HIDE DEF added, group
  <2>3. /\ \A e \in added : /\ e = [f \in EventFields |-> e[f]]
                            /\ e.type \in {"object", "scan"} /\ e.signal = None
                            /\ e.parent = None /\ e.time = None
        /\ \A e \in added : e.rows \subseteq group \cup Behind
        /\ \A r \in group : \E e \in added : r \in e.rows
        /\ \A e \in added, p \in Memory!ProcessEvents :
             e.type = "scan" =>
               /\ e.instance = p.instance => e.start = p.start /\ e.name = p.name
               /\ /\ e.start # None /\ p.pid = e.pid /\ p.start = e.start /\ p.name = e.name
                  => e.instance = p.instance
    <3>1. \A e : e \in added <=> \E r \in group : e = Memory!Converted(r)
      BY DEF added, group
    <3>2. \A e \in added : /\ e = [f \in EventFields |-> e[f]]
                            /\ e.type \in {"object", "scan"} /\ e.signal = None
                            /\ e.parent = None /\ e.time = None
      <4> SUFFICES ASSUME NEW e \in added
                   PROVE  /\ e = [f \in EventFields |-> e[f]]
                          /\ e.type \in {"object", "scan"} /\ e.signal = None
                          /\ e.parent = None /\ e.time = None
        OBVIOUS
      <4>1. PICK r \in group : e = Memory!Converted(r)
        BY <3>1
      <4> QED
        BY <2>2, <4>1, ConvertedFits
    <3>3. ASSUME NEW e \in added
          PROVE  e.rows \subseteq group \cup Behind
      <4>1. PICK r \in group : e = Memory!Converted(r)
        BY <3>1
      <4>2. e.rows \subseteq {r} \cup Behind
        BY <2>2, <4>1, ConvertedFits
      <4> QED
        BY <4>2
    <3>4. ASSUME NEW r \in group
          PROVE  \E e \in added : r \in e.rows
      <4> DEFINE e == Memory!Converted(r)
      <4>1. e \in added
        BY <3>1
      <4>2. r \in e.rows
        BY <2>2, ConvertedFits
      <4> HIDE DEF e
      <4> QED
        BY <4>1, <4>2
    <3>5. ASSUME NEW e \in added, NEW p \in Memory!ProcessEvents, e.type = "scan"
          PROVE  /\ e.instance = p.instance => e.start = p.start /\ e.name = p.name
                 /\ /\ e.start # None /\ p.pid = e.pid /\ p.start = e.start /\ p.name = e.name
                    => e.instance = p.instance
      <4>1. PICK r \in group : e = Memory!Converted(r)
        BY <3>1
      <4> QED
        BY <2>2, <3>5, <4>1, ConvertedFits
    <3> QED
      BY <3>2, <3>3, <3>4, <3>5
  <2>4. events' = events \cup added
    BY <1>5 DEF added
  <2>5. Memory!ProcessEvents' = Memory!ProcessEvents
    BY <2>3, <2>4 DEF Memory!ProcessEvents
  <2>6. MemoryShape'
    BY <1>1, <1>5, <2>3, <2>4 DEF MemoryInv, MemoryShape
  <2>7. RowsAreBehind'
    <3>1. Behind' = Behind \cup group
      BY <2>3, <2>4 DEF Behind
    <3>2. UNION {exports[i].rows : i \in Done \cup {at}} =
            group \cup UNION {exports[i].rows : i \in Done}
      BY DEF group
    <3> QED
      BY <1>1, <1>2, <2>1, <3>1, <3>2 DEF RowsAreBehind
  <2>8. Memory!RelationsFitLifetimes'
    <3> SUFFICES ASSUME NEW e \in events \cup added, NEW p \in Memory!ProcessEvents,
                        NEW time, time # None,
                        time = (IF e.type = "process" THEN e.start ELSE e.time),
                        p.instance \in ({e.parent} \cup IF e.type = "object"
                                         THEN {e.instance} ELSE {}) \ {None}
                 PROVE  Memory!Alive(p, time)
      BY <2>4, <2>5 DEF Memory!RelationsFitLifetimes
    <3>1. CASE e \in events
      BY <3>1 DEF MemoryInv, Memory!RelationsFitLifetimes
    <3>2. CASE e \in added
      BY <2>3, <3>2
    <3> QED
      BY <3>1, <3>2
  <2>9. ScansAreCompared'
    BY <2>3, <2>4, <2>5 DEF MemoryInv, ScansAreCompared
  <2>10. Memory!ScanOnlyIsNotListed'
    BY <1>1, <2>6, InputsAssumption DEF MemoryShape, Memory!ScanOnlyIsNotListed
  <2>11. ProcessesAreIdentified'
    BY <2>2, <2>5 DEF ProcessesAreIdentified
  <2> QED
    BY <2>6, <2>7, <2>8, <2>9, <2>10, <2>11 DEF MemoryInv
<1> QED
  BY <1>3, <1>4, <1>5 DEF Memory!ConvertExport

\* Only the signal of the scans changes.
LEMMA CompareScansHolds ==
  ASSUME MemoryInv, Memory!CompareScans
  PROVE  MemoryInv'
<1> DEFINE With(e) == [e EXCEPT !.signal = Memory!Signal(e)]
<1>1. /\ step = "convert" /\ at > Len(exports) /\ step' = "done"
      /\ UNCHANGED <<exports, at, runs>>
      /\ events' = {With(e) : e \in events}
      /\ AreExports(exports) /\ Len(exports) \in Nat /\ at \in 1..Len(exports) + 1
  BY ExportsAreFiles DEF Memory!CompareScans, MemoryInv, MemoryShape
<1>2. \A e \in events : /\ With(e) = [f \in EventFields |-> With(e)[f]]
                        /\ \A f \in EventFields \ {"signal"} : With(e)[f] = e[f]
                        /\ With(e).signal = Memory!Signal(e)
  BY DEF MemoryInv, MemoryShape, EventFields
<1> HIDE DEF With
<1>3. \A e \in events : /\ With(e).type = e.type /\ With(e).instance = e.instance
                        /\ With(e).pid = e.pid /\ With(e).name = e.name
                        /\ With(e).start = e.start /\ With(e).exit = e.exit
                        /\ With(e).time = e.time /\ With(e).parent = e.parent
                        /\ With(e).rows = e.rows
  BY <1>2 DEF EventFields
<1>4. Memory!ProcessEvents' = {With(e) : e \in Memory!ProcessEvents}
  BY <1>1, <1>3 DEF Memory!ProcessEvents
<1>5. MemoryShape'
  BY <1>1, <1>2, <1>3 DEF MemoryInv, MemoryShape
<1>6. RowsAreBehind'
  <2>1. Behind' = Behind
    BY <1>1, <1>3 DEF Behind
  <2>2. Done' = Done
    BY <1>1 DEF Done, Memory!IsMerged
  <2> QED
    BY <1>1, <2>1, <2>2 DEF MemoryInv, RowsAreBehind
<1>7. Memory!ProcessEvents \subseteq events
  BY DEF Memory!ProcessEvents
<1>8. ProcessesAreIdentified'
  <2>1. ASSUME NEW d \in Memory!ProcessEvents, NEW e \in Memory!ProcessEvents
        PROVE  Identified(With(d), With(e))
    <3>1. Identified(d, e)
      BY DEF MemoryInv, ProcessesAreIdentified
    <3> QED
      BY <1>3, <1>7, <3>1 DEF Identified
  <2>2. ASSUME NEW e \in Memory!ProcessEvents
        PROVE  /\ Lived(With(e)) /\ \A row : With(e).instance # <<"unresolved", row>>
               /\ \A a, b, c : With(e).instance # <<"scan", a, b, c>>
    <3>1. /\ Lived(e) /\ \A row : e.instance # <<"unresolved", row>>
          /\ \A a, b, c : e.instance # <<"scan", a, b, c>>
      BY DEF MemoryInv, ProcessesAreIdentified
    <3>2. With(e).rows = e.rows /\ With(e).instance = e.instance
      BY <1>3, <1>7
    <3> QED
      BY <3>1, <3>2 DEF Lived
  <2> QED
    BY <1>4, <2>1, <2>2 DEF ProcessesAreIdentified
<1>9. Memory!RelationsFitLifetimes'
  <2> SUFFICES ASSUME NEW e \in events, NEW p \in Memory!ProcessEvents, NEW time, time # None,
                      time = (IF e.type = "process" THEN e.start ELSE e.time),
                      p.instance \in ({e.parent} \cup IF e.type = "object"
                                       THEN {e.instance} ELSE {}) \ {None}
               PROVE  Memory!Alive(With(p), time)
    BY <1>1, <1>3, <1>4, <1>7 DEF Memory!RelationsFitLifetimes
  <2>1. Memory!Alive(p, time)
    BY DEF MemoryInv, Memory!RelationsFitLifetimes
  <2> QED
    BY <1>3, <1>7, <2>1 DEF Memory!Alive
<1>10. ScansAreCompared'
  <2>1. ASSUME NEW e \in events, NEW p \in Memory!ProcessEvents, e.type = "scan"
        PROVE  /\ e.instance = p.instance => e.start = p.start /\ e.name = p.name
               /\ /\ e.start # None /\ p.pid = e.pid /\ p.start = e.start /\ p.name = e.name
                  => e.instance = p.instance
    BY <2>1 DEF MemoryInv, ScansAreCompared
  <2> QED
    BY <1>1, <1>3, <1>4, <1>7, <2>1 DEF ScansAreCompared
<1>11. Memory!ScanOnlyIsNotListed'
  <2> DEFINE Said(e) ==
               /\ \E i \in DOMAIN exports : exports[i].plugin = "pslist" /\ runs[i] = "SUCCESS"
               /\ e.start # None =>
                    \A p \in Memory!ProcessEvents :
                      ~(p.pid = e.pid /\ p.start = e.start /\ p.name = e.name)
  <2>1. ASSUME NEW e \in events, Memory!Signal(e) = "psscan_only"
        PROVE  Said(e)
    <3>1. /\ e.type = "scan" /\ Memory!PluginLoaded("pslist")
          /\ \A o \in Memory!Owners : o.instance # e.instance
      BY <2>1, InputsAssumption DEF Memory!Signal
    <3>2. \A p \in Memory!ProcessEvents : p.instance # e.instance
      BY <3>1, OwnersAreEvents
    <3>3. e.start # None =>
            \A p \in Memory!ProcessEvents :
              ~(p.pid = e.pid /\ p.start = e.start /\ p.name = e.name)
      BY <3>1, <3>2 DEF MemoryInv, ScansAreCompared
    <3> QED
      BY <3>1, <3>3 DEF Memory!PluginLoaded, Memory!Loaded
  <2>2. ASSUME NEW e \in events, With(e).signal = "psscan_only"
        PROVE  /\ \E i \in DOMAIN exports : exports[i].plugin = "pslist" /\ runs[i] = "SUCCESS"
               /\ With(e).start # None =>
                    \A p \in Memory!ProcessEvents : ~(/\ With(p).pid = With(e).pid
                                                      /\ With(p).start = With(e).start
                                                      /\ With(p).name = With(e).name)
    <3>1. Said(e)
      <4>1. With(e).signal = Memory!Signal(e)
        BY <1>2
      <4> HIDE DEF Said
      <4> QED
        BY <2>1, <2>2, <4>1
    <3> QED
      BY <1>3, <1>7, <3>1
  <2> QED
    BY <1>1, <1>2, <1>4, <2>2 DEF Memory!ScanOnlyIsNotListed
<1> QED
  BY <1>5, <1>6, <1>8, <1>9, <1>10, <1>11 DEF MemoryInv

LEMMA MemoryStepHolds == MemoryInv /\ [Memory!Next]_Memory!vars => MemoryInv'
<1> SUFFICES ASSUME MemoryInv, [Memory!Next]_Memory!vars PROVE MemoryInv'
  OBVIOUS
<1>1. CASE UNCHANGED Memory!vars
  <2>1. UNCHANGED <<exports, step, at, runs, events>>
    BY <1>1 DEF Memory!vars
  <2>2. Memory!ProcessEvents' = Memory!ProcessEvents /\ Done' = Done /\ Behind' = Behind
    BY <2>1 DEF Memory!ProcessEvents, Done, Behind, Memory!IsMerged
  <2>3. MemoryShape' /\ RowsAreBehind'
    BY <2>1, <2>2 DEF MemoryInv, MemoryShape, RowsAreBehind
  <2>4. ProcessesAreIdentified'
    BY <2>2 DEF MemoryInv, ProcessesAreIdentified
  <2>5. Memory!RelationsFitLifetimes' /\ ScansAreCompared' /\ Memory!ScanOnlyIsNotListed'
    BY <2>1, <2>2
    DEF MemoryInv, Memory!RelationsFitLifetimes, ScansAreCompared, Memory!ScanOnlyIsNotListed
  <2> QED
    BY <2>3, <2>4, <2>5 DEF MemoryInv
<1>2. CASE Memory!Next
  BY <1>2, LoadExportHolds, MergeExportsHolds, ConvertExportHolds, CompareScansHolds
  DEF Memory!Next
<1> QED
  BY <1>1, <1>2

LEMMA RunsAgree == MemoryInv => Memory!RunsAgreeWithEvents
<1> SUFFICES ASSUME MemoryInv, step = "done", NEW i \in DOMAIN exports
             PROVE  IF runs[i] = "SUCCESS" THEN exports[i].rows \subseteq Behind
                    ELSE exports[i].rows \cap Behind = {}
  BY DEF Memory!RunsAgreeWithEvents, Behind
<1>1. /\ DOMAIN exports = 1..Len(exports) /\ Len(exports) \in Nat /\ at = Len(exports) + 1
      /\ \A k, j \in DOMAIN exports : k # j => exports[k].rows \cap exports[j].rows = {}
  BY ExportsAreFiles DEF MemoryInv, MemoryShape
<1>2. Done = {j \in DOMAIN exports : runs[j] = "SUCCESS"}
  BY <1>1 DEF Done
<1>3. Behind = UNION {exports[j].rows : j \in Done}
  BY DEF MemoryInv, RowsAreBehind
<1> QED
  BY <1>1, <1>2, <1>3

LEMMA ProcessesDiffer == MemoryInv => Memory!TypeOK /\ Memory!ProcessesAreToldApart
<1> SUFFICES ASSUME MemoryInv PROVE Memory!TypeOK /\ Memory!ProcessesAreToldApart
  OBVIOUS
<1>1. Memory!TypeOK
  BY DEF MemoryInv, MemoryShape, ProcessesAreIdentified, Identified, Memory!TypeOK
<1>2. Memory!LifetimesStayApart
  BY DEF MemoryInv, ProcessesAreIdentified, Identified, Lived, Memory!LifetimesStayApart
<1>3. Memory!SharedIdentitiesAgree
  BY DEF MemoryInv, ScansAreCompared, Memory!SharedIdentitiesAgree
<1> QED
  BY <1>1, <1>2, <1>3 DEF MemoryInv, Memory!ProcessesAreToldApart

-----------------------------------------------------------------------------
(***************************************************************************)
(* Induction, and functions defined by recursion.                          *)
(***************************************************************************)

\* A nonempty family of subsets of a finite set has a smallest member: the form of
\* induction that needs no operator to stand for the property.
LEMMA MinimalSet ==
  ASSUME NEW S, IsFiniteSet(S), NEW family \in SUBSET SUBSET S, family # {}
  PROVE  \E T \in family : \A U \in family : U \subseteq T => U = T
<1>1. IsWellFoundedOn(StrictSubsetOrdering(S), SUBSET S)
  BY FS_FiniteSubsetsOfFinite, FS_StrictSubsetOrderingWellFounded
<1>2. \E T \in family : \A U \in family : ~(<<U, T>> \in StrictSubsetOrdering(S))
  BY <1>1, WFMin
<1> QED
  BY <1>2 DEF StrictSubsetOrdering

\* Induction over the naturals, with the set of those that have the property.
LEMMA AllNaturals ==
  ASSUME NEW S, 0 \in S, \A n \in Nat : n \in S => n + 1 \in S
  PROVE  \A n \in Nat : n \in S
<1> SUFFICES ASSUME NEW n \in Nat, n \notin S PROVE FALSE
  OBVIOUS
<1> DEFINE family == {0..k : k \in {k \in 0..n : k \notin S}}
<1>1. family \in SUBSET SUBSET (0..n) /\ 0..n \in family
  OBVIOUS
<1>2. IsFiniteSet(0..n)
  BY FS_Interval
<1> HIDE DEF family
<1> DEFINE within == 0..n
<1> HIDE DEF within
<1>3. PICK T \in family : \A U \in family : U \subseteq T => U = T
  <2>1. IsFiniteSet(within) /\ family \in SUBSET SUBSET within /\ family # {}
    BY <1>1, <1>2 DEF within
  <2> QED
    BY <2>1, MinimalSet
<1>4. PICK k \in 0..n : k \notin S /\ T = 0..k
  BY <1>3 DEF family
<1>5. k - 1 \in 0..n /\ k - 1 \notin S
  BY <1>4
<1>6. 0..k - 1 \in family /\ 0..k - 1 \subseteq 0..k /\ k \in 0..k /\ k \notin 0..k - 1
  BY <1>4, <1>5 DEF family
<1> QED
  BY <1>3, <1>4, <1>6

\* The function that applies another one again and again.
Repeats(f, n, x, next) ==
  f = [k \in 0..n |-> IF k = 0 THEN x ELSE next[f[k - 1]]]

LEMMA RepeatsExists ==
  ASSUME NEW A, NEW next \in [A -> A], NEW x \in A
  PROVE  \A n \in Nat : \E f \in [0..n -> A] : Repeats(f, n, x, next)
<1> DEFINE S == {n \in Nat : \E f \in [0..n -> A] : Repeats(f, n, x, next)}
<1>1. 0 \in S
  <2>1. [k \in 0..0 |-> x] \in [0..0 -> A] /\ Repeats([k \in 0..0 |-> x], 0, x, next)
    BY DEF Repeats
  <2> QED
    BY <2>1
<1>2. ASSUME NEW n \in Nat, n \in S
      PROVE  n + 1 \in S
  <2>1. PICK f \in [0..n -> A] : Repeats(f, n, x, next)
    BY <1>2
  <2> DEFINE g == [k \in 0..n + 1 |-> IF k = 0 THEN x ELSE next[f[k - 1]]]
  <2>2. \A k \in 0..n : g[k] = f[k]
    BY <2>1 DEF Repeats
  <2>3. g \in [0..n + 1 -> A]
    OBVIOUS
  <2>4. \A k \in 0..n + 1 : g[k] = IF k = 0 THEN x ELSE next[g[k - 1]]
    <3> SUFFICES ASSUME NEW k \in 0..n + 1, k # 0 PROVE next[f[k - 1]] = next[g[k - 1]]
      OBVIOUS
    <3>1. k - 1 \in 0..n
      OBVIOUS
    <3> QED
      BY <2>2, <3>1
  <2> HIDE DEF g
  <2>5. Repeats(g, n + 1, x, next)
    BY <2>3, <2>4 DEF Repeats
  <2> QED
    BY <2>3, <2>5
<1> HIDE DEF S
<1>3. \A n \in Nat : n \in S
  BY <1>1, <1>2, AllNaturals
<1> QED
  BY <1>3 DEF S

LEMMA RepeatsAgree ==
  ASSUME NEW x, NEW next, NEW m \in Nat, NEW n \in Nat, NEW f, NEW g,
         Repeats(f, m, x, next), Repeats(g, n, x, next)
  PROVE  \A k \in Nat : k <= m /\ k <= n => f[k] = g[k]
<1> DEFINE S == {k \in Nat : k <= m /\ k <= n => f[k] = g[k]}
<1>1. 0 \in S
  BY DEF Repeats
<1>2. ASSUME NEW k \in Nat, k \in S
      PROVE  k + 1 \in S
  <2> SUFFICES ASSUME k + 1 <= m /\ k + 1 <= n PROVE f[k + 1] = g[k + 1]
    OBVIOUS
  <2>1. f[k + 1] = next[f[k]]
    BY DEF Repeats
  <2>2. g[k + 1] = next[g[k]]
    BY DEF Repeats
  <2> QED
    BY <1>2, <2>1, <2>2
<1> HIDE DEF S
<1>3. \A k \in Nat : k \in S
  BY <1>1, <1>2, AllNaturals
<1> QED
  BY <1>3 DEF S

-----------------------------------------------------------------------------
(***************************************************************************)
(* DiskImage: counting the runs and events of an import.                   *)
(***************************************************************************)

LEMMA LeastIsIn ==
  ASSUME NEW S \in SUBSET Nat, S # {}
  PROVE  Disk!Min(S) \in S
<1> SUFFICES \E x \in S : \A y \in S : x <= y
  BY DEF Disk!Min
<1>1. SUFFICES ASSUME \A x \in S : \E y \in S : ~(x <= y)
               PROVE  FALSE
  OBVIOUS
<1> DEFINE below == {n \in Nat : \A x \in 0..n : x \notin S}
<1>2. 0 \in below
  BY <1>1
<1>3. ASSUME NEW n \in Nat, n \in below
      PROVE  n + 1 \in below
  <2>1. \A x \in 0..n + 1 : x \in 0..n \/ x = n + 1
    OBVIOUS
  <2>2. n + 1 \notin S
    BY <1>1, <1>3
  <2> QED
    BY <1>3, <2>1, <2>2
<1>4. \A n \in Nat : n \in below
  <2> HIDE DEF below
  <2> QED
    BY <1>2, <1>3, AllNaturals
<1>5. PICK x \in S : TRUE
  OBVIOUS
<1>6. x \in Nat /\ x \in 0..x
  BY <1>5
<1> QED
  BY <1>4, <1>5, <1>6

Successes(outcomes) == {k \in DOMAIN outcomes : outcomes[k] = "SUCCESS"}

LEMMA NothingSucceeded == Successes(<<>>) = {}
BY DEF Successes

LEMMA SuccessesGrow ==
  ASSUME NEW outcomes, IsSequence(outcomes), NEW outcome
  PROVE  Cardinality(Successes(Append(outcomes, outcome))) =
           Cardinality(Successes(outcomes)) + (IF outcome = "SUCCESS" THEN 1 ELSE 0)
<1> DEFINE longer == Append(outcomes, outcome)
           last == Len(outcomes) + 1
<1>1. /\ Len(outcomes) \in Nat /\ DOMAIN outcomes = 1..Len(outcomes)
      /\ DOMAIN longer = 1..last
      /\ \A k \in 1..Len(outcomes) : longer[k] = outcomes[k]
      /\ longer[last] = outcome
  BY AppendIsSequence, SequenceDomain
<1> HIDE DEF longer
<1>2. IsFiniteSet(Successes(outcomes))
  <2>1. IsFiniteSet(1..Len(outcomes)) /\ Successes(outcomes) \in SUBSET (1..Len(outcomes))
    BY <1>1, FS_Interval DEF Successes
  <2> QED
    BY <2>1, FS_Subset
<1>3. last \notin Successes(outcomes)
  BY <1>1 DEF Successes
<1>4. Successes(longer) = IF outcome = "SUCCESS" THEN Successes(outcomes) \cup {last}
                                               ELSE Successes(outcomes)
  BY <1>1 DEF Successes
<1>5. Cardinality(Successes(outcomes)) \in Nat
  BY <1>2, FS_CardinalityType
<1> HIDE DEF last
<1>6. Cardinality(Successes(longer)) =
        Cardinality(Successes(outcomes)) + (IF outcome = "SUCCESS" THEN 1 ELSE 0)
  BY SMTT(60), <1>2, <1>3, <1>4, <1>5, FS_AddElement
<1> QED
  BY <1>6 DEF longer

LEMMA DueIs ==
  ASSUME NEW report, NEW places, NEW p
  PROVE  p \in Disk!Due(report, places) <=>
           \E n \in places : /\ Disk!Readable(report.selected[n])
                            /\ p \in {n} \X Disk!Wanted(report.selected[n], report.request)
BY DEF Disk!Due

\* A volume adds the artifacts wanted from it, or none when it cannot be read.
LEMMA DueGrows ==
  ASSUME NEW report, NEW places, NEW n, n \notin places,
         IsFiniteSet(Disk!Due(report, places)),
         IsFiniteSet(Disk!Wanted(report.selected[n], report.request))
  PROVE  /\ IsFiniteSet(Disk!Due(report, places \cup {n}))
         /\ Cardinality(Disk!Due(report, places \cup {n})) =
              Cardinality(Disk!Due(report, places)) +
                (IF Disk!Readable(report.selected[n])
                 THEN Cardinality(Disk!Wanted(report.selected[n], report.request)) ELSE 0)
<1> DEFINE wanted == Disk!Wanted(report.selected[n], report.request)
           own == {n} \X wanted
           before == Disk!Due(report, places)
           after == Disk!Due(report, places \cup {n})
<1>1. before \cap own = {}
  <2> SUFFICES ASSUME NEW p \in before, p \in own PROVE FALSE
    OBVIOUS
  <2>1. PICK m \in places : p \in {m} \X Disk!Wanted(report.selected[m], report.request)
    BY DueIs
  <2> QED
    BY <2>1
<1>2. after = IF Disk!Readable(report.selected[n]) THEN before \cup own ELSE before
  <2>1. \A p : p \in after <=>
          p \in before \/ (Disk!Readable(report.selected[n]) /\ p \in own)
    <3> TAKE p
    <3>1. p \in before <=>
            \E m \in places : /\ Disk!Readable(report.selected[m])
                             /\ p \in {m} \X Disk!Wanted(report.selected[m], report.request)
      BY DueIs
    <3>2. p \in after <=>
            \E m \in places \cup {n} :
               /\ Disk!Readable(report.selected[m])
               /\ p \in {m} \X Disk!Wanted(report.selected[m], report.request)
      BY DueIs
    <3> HIDE DEF before, after
    <3> QED
      BY <3>1, <3>2
  <2> HIDE DEF before, after, own
  <2> QED
    BY <2>1
<1>3. IsFiniteSet(own) /\ Cardinality(own) = Cardinality(wanted)
  <2>1. IsFiniteSet({n}) /\ Cardinality({n}) = 1
    BY FS_Singleton
  <2>2. Cardinality(wanted) \in Nat
    BY FS_CardinalityType
  <2>3. IsFiniteSet(own) /\ Cardinality(own) = Cardinality({n}) * Cardinality(wanted)
    BY <2>1, FS_Product
  <2> QED
    BY <2>1, <2>2, <2>3
<1>4. Cardinality(before) \in Nat /\ Cardinality(own) \in Nat
  BY <1>3, FS_CardinalityType
<1>5. /\ IsFiniteSet(before \cup own)
      /\ Cardinality(before \cup own) = Cardinality(before) + Cardinality(own)
  <2>1. Cardinality(before \cap own) = 0
    BY <1>1, FS_EmptySet
  <2>2. /\ IsFiniteSet(before \cup own)
        /\ Cardinality(before \cup own) =
              Cardinality(before) + Cardinality(own) - Cardinality(before \cap own)
    BY <1>3, FS_Union
  <2> QED
    BY <1>4, <2>1, <2>2
<1> QED
  <2> HIDE DEF before, after, own
  <2>1. CASE Disk!Readable(report.selected[n])
    BY <1>2, <1>3, <1>5, <2>1 DEF after, before, wanted
  <2>2. CASE ~Disk!Readable(report.selected[n])
    BY <1>2, <1>4, <2>2 DEF after, before
  <2> QED
    BY <2>1, <2>2

\* What was due from the volumes that are done with, or being done.
Begun == Disk!Due(job, DOMAIN job.selected \ job.todo)

\* Once the volumes are known, every artifact due has its run, or is still to be
\* extracted from the volume at hand.
Counted ==
  phase \in {"volumes", "artifacts", "after", "manifest"} \/
  (phase = "import" /\ job.status = "SUCCESS") =>
    /\ DOMAIN job.selected \subseteq Nat
    /\ \A n \in DOMAIN job.selected : IsSequence(job.selected[n].found)
    /\ job.todo \subseteq DOMAIN job.selected
    /\ phase \in {"after", "manifest", "import"} => job.todo = {}
    /\ phase = "artifacts" => IsFiniteSet(job.items) /\ job.items \subseteq Nat
    /\ IsFiniteSet(Begun)
    /\ Len(job.runs) + (IF phase = "artifacts" THEN Cardinality(job.items) ELSE 0) =
         Cardinality(Begun)

\* What FailuresAreConfined says of one report.
Confined(report) ==
  report.image = "SUCCESS" =>
    /\ Len(report.runs) = Cardinality(Disk!Due(report, DOMAIN report.selected))
    /\ Cardinality(report.events) = Cardinality(Successes(report.runs))

\* Every successful run is that of an artifact with an event, unless the image
\* changed, which rejects the events and not the runs.
Matched ==
  /\ phase \in {"open", "hash", "discover"} => job.runs = <<>>
  /\ phase # "idle" /\ (phase = "import" => job.status = "SUCCESS") =>
       Cardinality(Successes(job.runs)) = Len(job.events)

DiskCounts ==
  /\ Disk!TypeOK
  /\ phase # "idle" => job.extracted \in Nat
  /\ Counted
  /\ Matched
  /\ \A i \in DOMAIN reports : Confined(reports[i])

LEMMA ConfinedIs == DiskCounts => Disk!FailuresAreConfined
<1>1. \A S : Disk!Cardinality(S) = Cardinality(S)
  BY DEF Disk!Cardinality, Cardinality
<1>2. \A report : Disk!SuccessfulRuns(report) = Successes(report.runs)
  BY DEF Disk!SuccessfulRuns, Successes
<1> QED
  BY <1>1, <1>2 DEF DiskCounts, Confined, Disk!FailuresAreConfined

\* Steps of load_file that leave the events and runs alone.
LEMMA SteadyCounts ==
  ASSUME DiskInv, DiskCounts, phase \notin {"idle", "import"},
         phase' \in Disk!Phase, phase' # "idle",
         phase' \in {"open", "hash", "discover"} => phase \in {"open", "hash", "discover"},
         UNCHANGED <<disk, version, stored, reports>>,
         \A f \in {"request", "events", "runs", "extracted"} : job'[f] = job[f],
         job'.before \in 0..version \cup {None},
         job'.hash \in 0..version \cup {None},
         Counted'
  PROVE  DiskCounts'
<1>1. /\ job'.request = job.request /\ job'.events = job.events /\ job'.runs = job.runs
      /\ job'.extracted = job.extracted
  OBVIOUS
<1>2. Disk!TypeOK' /\ (phase' # "idle" => job'.extracted \in Nat)
  BY <1>1 DEF DiskCounts, Disk!TypeOK
<1>3. Matched'
  BY <1>1 DEF DiskCounts, Matched
<1>4. (\A i \in DOMAIN reports : Confined(reports[i]))'
  BY DEF DiskCounts
<1> QED
  BY <1>2, <1>3, <1>4 DEF DiskCounts

LEMMA RequestCounts ==
  ASSUME DiskInv, DiskCounts, NEW request \in Requests, Disk!Request(request)
  PROVE  DiskCounts'
<1>1. /\ phase' = "open" /\ job' = Disk!Fresh(request)
      /\ UNCHANGED <<disk, version, stored, reports>>
  BY DEF Disk!Request, Disk!Continues
<1>2. /\ job'.request = request /\ job'.before = None /\ job'.hash = None
      /\ job'.events = <<>> /\ job'.runs = <<>> /\ job'.extracted = 0
  BY <1>1 DEF Disk!Fresh
<1>3. Disk!TypeOK'
  BY <1>1, <1>2 DEF DiskCounts, Disk!TypeOK, Disk!Phase
<1>4. Matched'
  <2>1. Cardinality(Successes(<<>>)) = 0
    BY NothingSucceeded, FS_EmptySet
  <2> QED
    BY <1>1, <1>2, <2>1 DEF Matched
<1>5. Counted'
  BY <1>1 DEF Counted
<1>6. (\A i \in DOMAIN reports : Confined(reports[i]))'
  BY <1>1 DEF DiskCounts
<1> QED
  BY <1>1, <1>2, <1>3, <1>4, <1>5, <1>6 DEF DiskCounts

LEMMA EndsCounts ==
  ASSUME DiskInv, DiskCounts, NEW status, phase \notin {"idle", "import"}, Disk!Ends(status),
         status = "SUCCESS" => phase = "manifest"
  PROVE  DiskCounts'
<1>1. /\ phase' = "import" /\ job' = [job EXCEPT !.status = status]
      /\ UNCHANGED <<disk, version, stored, reports>>
  BY DEF Disk!Ends
<1>2. /\ job'.status = status /\ job'.selected = job.selected /\ job'.todo = job.todo
      /\ job'.request = job.request /\ job'.events = job.events /\ job'.runs = job.runs
      /\ job'.extracted = job.extracted /\ job'.before = job.before /\ job'.hash = job.hash
  BY <1>1 DEF DiskInv, DiskShape, Fields
<1>3. Begun' = Begun
  BY <1>2 DEF Begun, Disk!Due
<1>4. Counted'
  BY <1>1, <1>2, <1>3 DEF DiskCounts, Counted
<1>5. /\ \A f \in {"request", "events", "runs", "extracted"} : job'[f] = job[f]
      /\ job'.before \in 0..version \cup {None} /\ job'.hash \in 0..version \cup {None}
  BY <1>2 DEF DiskCounts, Disk!TypeOK
<1> QED
  BY <1>1, <1>4, <1>5, SteadyCounts DEF Disk!Phase

LEMMA OpenStreamCounts ==
  ASSUME DiskInv, DiskCounts, Disk!OpenStream
  PROVE  DiskCounts'
<1>1. phase = "open"
  BY DEF Disk!OpenStream
<1>2. \/ Disk!Continues("hash", [job EXCEPT !.before = version])
      \/ \E status \in {"UNAVAILABLE", "FAILED"} : Disk!Ends(status)
  BY DEF Disk!OpenStream
<1>3. CASE Disk!Continues("hash", [job EXCEPT !.before = version])
  <2>1. /\ phase' = "hash" /\ job' = [job EXCEPT !.before = version]
        /\ UNCHANGED <<disk, version, stored, reports>>
    BY <1>3 DEF Disk!Continues
  <2>2. /\ \A f \in {"request", "events", "runs", "extracted"} : job'[f] = job[f]
        /\ job'.before = version /\ job'.hash = job.hash
    BY <1>1, <2>1 DEF DiskInv, DiskShape, Fields
  <2>3. job'.before \in 0..version \cup {None} /\ job'.hash \in 0..version \cup {None}
    BY <1>1, <2>2 DEF DiskInv, DiskShape, DiskCounts, Disk!TypeOK
  <2> QED
    BY <1>1, <2>1, <2>2, <2>3, SteadyCounts DEF Disk!Phase, Counted
<1> QED
  BY <1>1, <1>2, <1>3, EndsCounts

LEMMA HashImageCounts ==
  ASSUME DiskInv, DiskCounts, Disk!HashImage
  PROVE  DiskCounts'
<1>1. /\ phase = "hash" /\ phase' = "discover" /\ job' = [job EXCEPT !.hash = version]
      /\ UNCHANGED <<disk, version, stored, reports>>
  BY DEF Disk!HashImage, Disk!Continues
<1>2. /\ \A f \in {"request", "events", "runs", "extracted"} : job'[f] = job[f]
      /\ job'.hash = version /\ job'.before = job.before
  BY <1>1 DEF DiskInv, DiskShape, Fields
<1>3. job'.before \in 0..version \cup {None} /\ job'.hash \in 0..version \cup {None}
  BY <1>1, <1>2 DEF DiskInv, DiskShape, DiskCounts, Disk!TypeOK
<1> QED
  BY <1>1, <1>2, <1>3, SteadyCounts DEF Disk!Phase, Counted

LEMMA DiscoverVolumesCounts ==
  ASSUME DiskInv, DiskCounts, Disk!DiscoverVolumes
  PROVE  DiskCounts'
<1>1. phase = "discover"
  BY DEF Disk!DiscoverVolumes
<1>2. CASE Disk!Ends("FAILED")
  BY <1>1, <1>2, EndsCounts
<1>3. ASSUME NEW wanted,
             Disk!Continues("volumes",
               [job EXCEPT !.selected = Disk!Selected(disk.volumes, wanted),
                           !.todo = DOMAIN Disk!Selected(disk.volumes, wanted)])
      PROVE  DiskCounts'
  <2> DEFINE selected == Disk!Selected(disk.volumes, wanted)
  <2>1. /\ DOMAIN selected \subseteq Nat
        /\ \A n \in DOMAIN selected : IsSequence(selected[n].found)
    <3>1. disk \in Disks
      BY DEF DiskCounts, Disk!TypeOK
    <3>2. /\ disk.volumes \in Seq(ToSet(disk.volumes))
          /\ \A volume \in ToSet(disk.volumes) : volume.found \in Seq(ToSet(volume.found))
      BY <3>1, DisksAssumption
    <3>3. /\ DOMAIN disk.volumes = 1..Len(disk.volumes) /\ Len(disk.volumes) \in Nat
          /\ \A n \in DOMAIN disk.volumes : disk.volumes[n] \in ToSet(disk.volumes)
      BY <3>2, SequenceDomain DEF IsSequence
    <3>4. /\ DOMAIN selected \subseteq DOMAIN disk.volumes
          /\ \A n \in DOMAIN selected : selected[n] = disk.volumes[n]
      BY DEF Disk!Selected
    <3> HIDE DEF selected
    <3>5. \A volume \in ToSet(disk.volumes) : IsSequence(volume.found)
      BY <3>2 DEF IsSequence
    <3>6. DOMAIN disk.volumes \subseteq Nat
      BY <3>3
    <3> QED
      BY <3>3, <3>4, <3>5, <3>6
  <2>2. /\ phase' = "volumes"
        /\ job' = [job EXCEPT !.selected = selected, !.todo = DOMAIN selected]
        /\ UNCHANGED <<disk, version, stored, reports>>
    BY <1>3 DEF Disk!Continues
  <2> HIDE DEF selected
  <2>3. /\ \A f \in {"request", "events", "runs", "extracted"} : job'[f] = job[f]
        /\ job'.before = job.before /\ job'.hash = job.hash /\ job'.runs = job.runs
        /\ job'.selected = selected /\ job'.todo = DOMAIN selected
    BY <1>1, <2>2 DEF DiskInv, DiskShape, Fields
  <2>4. job'.before \in 0..version \cup {None} /\ job'.hash \in 0..version \cup {None}
    BY <1>1, <2>3 DEF DiskCounts, Disk!TypeOK
  <2>5. Begun' = {}
    BY <2>3 DEF Begun, Disk!Due
  <2>6. IsFiniteSet(Begun') /\ Cardinality(Begun') = 0
    BY <2>5, FS_EmptySet
  <2>7. Len(job'.runs) = 0
    BY <1>1, <2>3 DEF DiskCounts, Matched
  <2>8. Counted'
    BY <2>1, <2>2, <2>3, <2>6, <2>7 DEF Counted
  <2> QED
    BY <1>1, <2>2, <2>3, <2>4, <2>8, SteadyCounts DEF Disk!Phase
<1>4. \/ Disk!Ends("FAILED")
      \/ \E wanted :
           Disk!Continues("volumes",
             [job EXCEPT !.selected = Disk!Selected(disk.volumes, wanted),
                         !.todo = DOMAIN Disk!Selected(disk.volumes, wanted)])
  BY Zenon DEF Disk!DiscoverVolumes
<1> QED
  BY <1>2, <1>3, <1>4, Zenon

LEMMA WantedIsFinite ==
  ASSUME NEW volume, IsSequence(volume.found), NEW request
  PROVE  /\ IsFiniteSet(Disk!Wanted(volume, request))
         /\ Disk!Wanted(volume, request) \subseteq Nat
<1>1. Len(volume.found) \in Nat /\ DOMAIN volume.found = 1..Len(volume.found)
  BY SequenceDomain
<1>2. Disk!Wanted(volume, request) \in SUBSET (1..Len(volume.found))
  BY <1>1 DEF Disk!Wanted
<1>3. IsFiniteSet(1..Len(volume.found))
  BY <1>1, FS_Interval
<1> QED
  BY <1>1, <1>2, <1>3, FS_Subset

\* The next volume is taken up.
LEMMA BegunGrows ==
  ASSUME DiskCounts, phase = "volumes", job.todo # {},
         job'.selected = job.selected, job'.request = job.request,
         job'.todo = job.todo \ {Disk!Min(job.todo)}
  PROVE  /\ job'.todo \subseteq DOMAIN job.selected
         /\ IsFiniteSet(Begun')
         /\ Cardinality(Begun') =
              Cardinality(Begun) +
                (IF Disk!Readable(Disk!NextVolume)
                 THEN Cardinality(Disk!Wanted(Disk!NextVolume, job.request)) ELSE 0)
         /\ IsFiniteSet(Disk!Wanted(Disk!NextVolume, job.request))
         /\ Disk!Wanted(Disk!NextVolume, job.request) \subseteq Nat
<1> DEFINE n == Disk!Min(job.todo)
           places == DOMAIN job.selected \ job.todo
<1>1. /\ DOMAIN job.selected \subseteq Nat /\ job.todo \subseteq DOMAIN job.selected
      /\ \A k \in DOMAIN job.selected : IsSequence(job.selected[k].found)
      /\ IsFiniteSet(Begun)
  BY DEF DiskCounts, Counted
<1>2. n \in job.todo
  BY <1>1, LeastIsIn
<1>3. Disk!NextVolume = job.selected[n]
  BY DEF Disk!NextVolume
<1> HIDE DEF n
<1>4. /\ IsFiniteSet(Disk!Wanted(job.selected[n], job.request))
      /\ Disk!Wanted(job.selected[n], job.request) \subseteq Nat
  BY <1>1, <1>2, WantedIsFinite
<1>5. Begun = Disk!Due(job, places)
  BY DEF Begun
<1>6. Begun' = Disk!Due(job, places \cup {n})
  <2>1. DOMAIN job'.selected \ job'.todo = places \cup {n}
    BY <1>1, <1>2 DEF n
  <2>2. Begun' = Disk!Due(job', places \cup {n})
    BY <2>1 DEF Begun
  <2> QED
    BY <2>2 DEF Disk!Due
<1>7. n \notin places
  BY <1>2
<1> HIDE DEF places
<1>8. /\ IsFiniteSet(Disk!Due(job, places \cup {n}))
      /\ Cardinality(Disk!Due(job, places \cup {n})) =
           Cardinality(Disk!Due(job, places)) +
             (IF Disk!Readable(job.selected[n])
              THEN Cardinality(Disk!Wanted(job.selected[n], job.request)) ELSE 0)
  BY <1>1, <1>4, <1>5, <1>7, DueGrows
<1> QED
  BY <1>1, <1>3, <1>4, <1>5, <1>6, <1>8

LEMMA SkipVolumeCounts ==
  ASSUME DiskInv, DiskCounts, Disk!SkipVolume
  PROVE  DiskCounts'
<1>1. /\ phase = "volumes" /\ job.todo # {} /\ ~Disk!Readable(Disk!NextVolume)
      /\ phase' = "volumes"
      /\ job' = [job EXCEPT !.todo = job.todo \ {Disk!Min(job.todo)}]
      /\ UNCHANGED <<disk, version, stored, reports>>
  BY DEF Disk!SkipVolume, Disk!Continues
<1>2. /\ \A f \in {"request", "events", "runs", "extracted"} : job'[f] = job[f]
      /\ job'.request = job.request /\ job'.runs = job.runs
      /\ job'.before = job.before /\ job'.hash = job.hash
      /\ job'.selected = job.selected /\ job'.todo = job.todo \ {Disk!Min(job.todo)}
  BY <1>1 DEF DiskInv, DiskShape, Fields
<1>3. job'.before \in 0..version \cup {None} /\ job'.hash \in 0..version \cup {None}
  BY <1>1, <1>2 DEF DiskCounts, Disk!TypeOK
<1>4. /\ job'.todo \subseteq DOMAIN job.selected /\ IsFiniteSet(Begun')
      /\ Cardinality(Begun') = Cardinality(Begun) + 0
  BY <1>1, <1>2, BegunGrows
<1>5. Cardinality(Begun) \in Nat
  BY <1>1, FS_CardinalityType DEF DiskCounts, Counted
<1>6. Counted'
  BY <1>1, <1>2, <1>4, <1>5 DEF DiskCounts, Counted
<1> QED
  BY <1>1, <1>2, <1>3, <1>6, SteadyCounts DEF Disk!Phase

LEMMA EnterCounts ==
  ASSUME DiskInv, DiskCounts, phase = "volumes", job.todo # {},
         Disk!Readable(Disk!NextVolume), Disk!Enter(Disk!NextVolume)
  PROVE  DiskCounts'
<1> DEFINE volume == Disk!NextVolume
<1>1. PICK id :
        job' = [job EXCEPT !.todo = job.todo \ {Disk!Min(job.todo)}, !.volume = volume,
                           !.volumeId = id, !.mft = {},
                           !.items = Disk!Wanted(volume, job.request)]
  BY Zenon DEF Disk!Enter, Disk!Continues
<1>2. phase' = "artifacts" /\ UNCHANGED <<disk, version, stored, reports>>
  BY DEF Disk!Enter, Disk!Continues
<1>3. /\ \A f \in {"request", "events", "runs", "extracted"} : job'[f] = job[f]
      /\ job'.request = job.request /\ job'.runs = job.runs
      /\ job'.before = job.before /\ job'.hash = job.hash
      /\ job'.selected = job.selected /\ job'.todo = job.todo \ {Disk!Min(job.todo)}
      /\ job'.items = Disk!Wanted(volume, job.request)
  BY <1>1 DEF DiskInv, DiskShape, Fields
<1>4. job'.before \in 0..version \cup {None} /\ job'.hash \in 0..version \cup {None}
  BY <1>3 DEF DiskCounts, Disk!TypeOK
<1>5. /\ job'.todo \subseteq DOMAIN job.selected /\ IsFiniteSet(Begun')
      /\ Cardinality(Begun') = Cardinality(Begun) + Cardinality(job'.items)
      /\ IsFiniteSet(job'.items) /\ job'.items \subseteq Nat
  BY <1>3, BegunGrows
<1>6. Cardinality(Begun) \in Nat /\ Cardinality(job'.items) \in Nat
  BY <1>5, FS_CardinalityType DEF DiskCounts, Counted
<1> HIDE DEF volume
<1>7. Counted'
  BY <1>2, <1>3, <1>5, <1>6 DEF DiskCounts, Counted
<1> QED
  BY <1>2, <1>3, <1>4, <1>7, SteadyCounts DEF Disk!Phase

LEMMA OpenVolumeCounts ==
  ASSUME DiskInv, DiskCounts, Disk!OpenVolume
  PROVE  DiskCounts'
<1>1. phase = "volumes" /\ job.todo # {} /\ Disk!Readable(Disk!NextVolume)
  BY DEF Disk!OpenVolume
<1>2. Disk!Enter(Disk!NextVolume) \/ Disk!Ends("FAILED")
  BY DEF Disk!OpenVolume
<1> QED
  BY <1>1, <1>2, EnterCounts, EndsCounts

\* Going on with what there is.
LEMMA OnwardsCounts ==
  ASSUME DiskInv, DiskCounts, job' = job, UNCHANGED <<disk, version, stored, reports>>,
         \/ phase = "artifacts" /\ job.items = {} /\ phase' = "volumes"
         \/ phase = "volumes" /\ job.todo = {} /\ phase' = "after"
         \/ phase = "after" /\ phase' = "manifest"
  PROVE  DiskCounts'
<1>1. Begun' = Begun
  BY DEF Begun, Disk!Due
<1>2. Cardinality({}) = 0
  BY FS_EmptySet
<1>3. Cardinality(Begun) \in Nat /\ Len(job.runs) \in Nat
  BY FS_CardinalityType, SequenceDomain DEF DiskCounts, Counted, DiskInv, DiskShape
<1>4. Counted'
  <2>1. CASE phase = "artifacts"
    BY <1>1, <1>2, <1>3, <2>1 DEF DiskCounts, Counted
  <2>2. CASE phase # "artifacts"
    BY <1>1, <1>3, <2>2 DEF DiskCounts, Counted
  <2> QED
    BY <2>1, <2>2
<1>5. job.before \in 0..version \cup {None} /\ job.hash \in 0..version \cup {None}
  BY DEF DiskCounts, Disk!TypeOK
<1> QED
  BY <1>4, <1>5, SteadyCounts DEF Disk!Phase

LEMMA LeaveAndLastCount ==
  ASSUME DiskInv, DiskCounts, Disk!LeaveVolume \/ Disk!LastVolume
  PROVE  DiskCounts'
BY OnwardsCounts DEF Disk!LeaveVolume, Disk!LastVolume, Disk!Continues

LEMMA CompareStatCounts ==
  ASSUME DiskInv, DiskCounts, Disk!CompareStat
  PROVE  DiskCounts'
<1>1. CASE Disk!Continues("manifest", job)
  BY <1>1, OnwardsCounts DEF Disk!CompareStat, Disk!Continues
<1>2. CASE Disk!Continues("import", [job EXCEPT !.events = <<>>, !.status = "FAILED"])
  <2>1. /\ phase = "after" /\ phase' = "import"
        /\ job' = [job EXCEPT !.events = <<>>, !.status = "FAILED"]
        /\ UNCHANGED <<disk, version, stored, reports>>
    BY <1>2 DEF Disk!CompareStat, Disk!Continues
  <2>2. /\ job'.events = <<>> /\ job'.runs = job.runs /\ job'.request = job.request
        /\ job'.before = job.before /\ job'.hash = job.hash
        /\ job'.extracted = job.extracted /\ job'.status = "FAILED"
    BY <2>1 DEF DiskInv, DiskShape, Fields
  <2>3. Disk!TypeOK'
    BY <2>1, <2>2 DEF DiskCounts, Disk!TypeOK, Disk!Phase
  <2>4. (\A i \in DOMAIN reports : Confined(reports[i]))'
    BY <2>1 DEF DiskCounts
  <2> QED
    BY <2>1, <2>2, <2>3, <2>4 DEF DiskCounts, Counted, Matched
<1> QED
  BY <1>1, <1>2 DEF Disk!CompareStat

LEMMA WriteManifestCounts ==
  ASSUME DiskInv, DiskCounts, Disk!WriteManifest
  PROVE  DiskCounts'
<1>1. phase = "manifest" /\ \E status \in {"FAILED", "SUCCESS"} : Disk!Ends(status)
  BY DEF Disk!WriteManifest
<1> QED
  BY <1>1, EndsCounts

\* An artifact leaves one run behind.
LEMMA ArtifactCounted ==
  ASSUME DiskInv, DiskCounts, phase = "artifacts", phase' = "artifacts", job.items # {},
         NEW outcome, job'.runs = Append(job.runs, outcome),
         job'.items = job.items \ {Disk!Min(job.items)},
         job'.selected = job.selected, job'.todo = job.todo, job'.request = job.request
  PROVE  Counted' /\ Len(job'.runs) = Len(job.runs) + 1 /\ Len(job.runs) \in Nat
<1>1. /\ IsFiniteSet(job.items) /\ job.items \subseteq Nat /\ IsFiniteSet(Begun)
      /\ Len(job.runs) + Cardinality(job.items) = Cardinality(Begun)
  BY DEF DiskCounts, Counted
<1>2. Disk!Min(job.items) \in job.items
  BY <1>1, LeastIsIn
<1>3. IsFiniteSet(job'.items) /\ Cardinality(job'.items) = Cardinality(job.items) - 1
  BY <1>1, <1>2, FS_RemoveElement
<1>4. Cardinality(job.items) \in Nat /\ Cardinality(Begun) \in Nat
  BY <1>1, FS_CardinalityType
<1>5. Len(job'.runs) = Len(job.runs) + 1 /\ Len(job.runs) \in Nat
  BY AppendIsSequence, SequenceDomain DEF DiskInv, DiskShape
<1>6. Begun' = Begun
  BY DEF Begun, Disk!Due
<1>7. Len(job'.runs) + Cardinality(job'.items) = Cardinality(Begun)
  BY <1>1, <1>3, <1>4, <1>5
<1> QED
  BY <1>1, <1>3, <1>5, <1>6, <1>7 DEF DiskCounts, Counted

LEMMA ExtractionFailedCounts ==
  ASSUME DiskInv, DiskCounts, phase = "artifacts", job.items # {},
         NEW item, Disk!ExtractionFailed(item)
  PROVE  DiskCounts'
<1>1. /\ phase' = "artifacts"
      /\ job' = [job EXCEPT !.items = job.items \ {Disk!Min(job.items)},
                            !.runs = Append(job.runs, "FAILED")]
      /\ UNCHANGED <<disk, version, stored, reports>>
  BY DEF Disk!ExtractionFailed, Disk!Continues
<1>2. /\ job'.items = job.items \ {Disk!Min(job.items)}
      /\ job'.runs = Append(job.runs, "FAILED")
      /\ job'.selected = job.selected /\ job'.todo = job.todo /\ job'.request = job.request
      /\ job'.before = job.before /\ job'.hash = job.hash
      /\ job'.events = job.events /\ job'.extracted = job.extracted
  BY <1>1 DEF DiskInv, DiskShape, Fields
<1>3. Counted' /\ Len(job'.runs) = Len(job.runs) + 1 /\ Len(job.runs) \in Nat
  BY <1>1, <1>2, ArtifactCounted
<1>4. Disk!TypeOK'
  BY <1>1, <1>2, <1>3 DEF DiskCounts, Disk!TypeOK
<1>5. Cardinality(Successes(job'.runs)) = Cardinality(Successes(job.runs)) + 0
  BY <1>2, SuccessesGrow DEF DiskInv, DiskShape
<1>6. Cardinality(Successes(job.runs)) = Len(job.events) /\ Len(job.events) \in Nat
  BY SequenceDomain DEF DiskInv, DiskShape, DiskCounts, Matched
<1>7. Matched'
  BY <1>1, <1>2, <1>5, <1>6 DEF Matched
<1>8. (\A i \in DOMAIN reports : Confined(reports[i]))'
  BY <1>1 DEF DiskCounts
<1> QED
  BY <1>1, <1>2, <1>3, <1>4, <1>7, <1>8 DEF DiskCounts

LEMMA ExtractedCounts ==
  ASSUME DiskInv, DiskCounts, phase = "artifacts", job.items # {},
         NEW item, Disk!Extracted(item)
  PROVE  DiskCounts'
<1> DEFINE new == IF item.fate = "parsed" THEN <<Disk!Parsed(item)>> ELSE <<>>
           outcome == Disk!AdapterRun(item)
<1>1. IsSequence(new) /\ Len(new) = IF outcome = "SUCCESS" THEN 1 ELSE 0
  <2>1. CASE item.fate = "parsed"
    <3>1. new = <<Disk!Parsed(item)>> /\ outcome = "SUCCESS"
      BY <2>1 DEF Disk!AdapterRun
    <3>2. IsSequence(<<Disk!Parsed(item)>>) /\ Len(<<Disk!Parsed(item)>>) = 1
      BY SingletonIsSequence
    <3> HIDE DEF new, outcome
    <3> QED
      BY <3>1, <3>2
  <2>2. CASE item.fate # "parsed"
    <3>1. new = <<>> /\ outcome # "SUCCESS"
      BY <2>2 DEF Disk!AdapterRun
    <3> HIDE DEF new, outcome
    <3> QED
      BY <3>1, EmptyIsSequence
  <2> QED
    BY <2>1, <2>2
<1>2. /\ phase' = "artifacts"
      /\ job' = [job EXCEPT !.items = job.items \ {Disk!Min(job.items)},
                   !.events = job.events \o new,
                   !.mft = IF item.kind = "mft" THEN ToSet(new) ELSE job.mft,
                   !.runs = Append(job.runs, outcome),
                   !.extracted = job.extracted + 1]
      /\ UNCHANGED <<disk, version, stored, reports>>
  BY DEF Disk!Extracted, Disk!Continues, Disk!ToSet, ToSet
<1> HIDE DEF new, outcome
<1>3. /\ job'.items = job.items \ {Disk!Min(job.items)}
      /\ job'.runs = Append(job.runs, outcome)
      /\ job'.selected = job.selected /\ job'.todo = job.todo /\ job'.request = job.request
      /\ job'.before = job.before /\ job'.hash = job.hash
      /\ job'.events = job.events \o new /\ job'.extracted = job.extracted + 1
  BY <1>2 DEF DiskInv, DiskShape, Fields
<1>4. Counted' /\ Len(job'.runs) = Len(job.runs) + 1 /\ Len(job.runs) \in Nat
  BY <1>2, <1>3, ArtifactCounted
<1>5. Len(job'.events) = Len(job.events) + Len(new) /\ Len(job.events) \in Nat
  <2>1. IsSequence(job.events)
    BY DEF DiskInv, DiskShape
  <2> DEFINE S == ToSet(job.events) \cup ToSet(new)
  <2>2. job.events \in Seq(S) /\ new \in Seq(S)
    BY <1>1, <2>1 DEF IsSequence
  <2> QED
    BY <1>3, <2>2
<1>6. Disk!TypeOK' /\ job'.extracted \in Nat
  <2>1. /\ Len(job.events) <= job.extracted /\ job.extracted <= Len(job.runs)
        /\ job.extracted \in Nat
    BY DEF DiskCounts, Disk!TypeOK
  <2>2. Len(new) = 0 \/ Len(new) = 1
    BY <1>1
  <2>3. /\ Len(job'.events) <= job'.extracted /\ job'.extracted <= Len(job'.runs)
        /\ job'.extracted \in Nat
    <3>1. job'.extracted = job.extracted + 1
      BY <1>3
    <3>2. Len(job'.runs) = Len(job.runs) + 1 /\ Len(job.runs) \in Nat
      BY <1>4
    <3>3. \A a, b, c, d, n : a \in Nat /\ b \in Nat /\ c \in Nat /\ a <= b /\ b <= c /\
                               (n = 0 \/ n = 1) /\ d = a + n =>
            d <= b + 1 /\ b + 1 <= c + 1 /\ b + 1 \in Nat
      OBVIOUS
    <3> QED
      BY <1>5, <2>1, <2>2, <3>1, <3>2, <3>3
  <2> QED
    <3>1. phase' = "artifacts" /\ UNCHANGED <<disk, version, reports>>
      BY <1>2
    <3>2. /\ job'.request \in Requests
          /\ job'.before \in 0..version \cup {None} /\ job'.hash \in 0..version \cup {None}
      BY <1>3 DEF DiskCounts, Disk!TypeOK
    <3> QED
      BY <2>3, <3>1, <3>2 DEF DiskCounts, Disk!TypeOK
<1>7. Cardinality(Successes(job'.runs)) =
        Cardinality(Successes(job.runs)) + (IF outcome = "SUCCESS" THEN 1 ELSE 0)
  BY <1>3, SuccessesGrow DEF DiskInv, DiskShape
<1>8. Cardinality(Successes(job.runs)) = Len(job.events)
  BY DEF DiskCounts, Matched
<1>9. Matched'
  BY <1>1, <1>2, <1>5, <1>7, <1>8 DEF Matched
<1>10. (\A i \in DOMAIN reports : Confined(reports[i]))'
  BY <1>2 DEF DiskCounts
<1> QED
  BY <1>2, <1>4, <1>6, <1>9, <1>10 DEF DiskCounts

LEMMA ExtractArtifactCounts ==
  ASSUME DiskInv, DiskCounts, Disk!ExtractArtifact
  PROVE  DiskCounts'
BY ExtractedCounts, ExtractionFailedCounts DEF Disk!ExtractArtifact

\* As many elements as places: the elements of a sequence differ.
LEMMA NoMoreThanPlaces ==
  ASSUME NEW s, IsSequence(s)
  PROVE  IsFiniteSet(ToSet(s)) /\ Cardinality(ToSet(s)) <= Len(s)
<1> DEFINE f == [i \in 1..Len(s) |-> s[i]]
           S == ToSet(s)
<1>1. Len(s) \in Nat /\ DOMAIN s = 1..Len(s)
  BY SequenceDomain
<1>2. IsFiniteSet(1..Len(s)) /\ Cardinality(1..Len(s)) = Len(s)
  <2> DEFINE n == Len(s)
  <2>1. n \in Nat
    BY <1>1
  <2> HIDE DEF n
  <2>2. IsFiniteSet(1..n) /\ Cardinality(1..n) = n
    BY <2>1, FS_Interval
  <2> QED
    BY <2>2 DEF n
<1>3. f \in Surjection(1..Len(s), S)
  <2>1. /\ \A i \in 1..Len(s) : s[i] \in ToSet(s)
        /\ \A x \in ToSet(s) : \E i \in 1..Len(s) : x = s[i]
    BY SequenceDomain
  <2> QED
    BY <2>1 DEF Surjection
<1> HIDE DEF f, S
<1>4. IsFiniteSet(S) /\ Cardinality(S) <= Cardinality(1..Len(s))
  BY <1>2, <1>3, FS_Surjection
<1> QED
  BY <1>2, <1>4 DEF S

LEMMA DifferentIdentities ==
  ASSUME NEW s, IsSequence(s), Cardinality({e.id : e \in ToSet(s)}) = Len(s)
  PROVE  Cardinality(ToSet(s)) = Len(s)
<1> DEFINE f == [e \in ToSet(s) |-> e.id]
           S == ToSet(s)
           ids == {e.id : e \in S}
<1>1. IsFiniteSet(S) /\ Cardinality(S) <= Len(s) /\ Len(s) \in Nat
  BY NoMoreThanPlaces, SequenceDomain
<1>2. f \in Surjection(S, ids)
  BY DEF Surjection
<1>3. Cardinality(ids) = Len(s)
  OBVIOUS
<1> HIDE DEF f, ids, S
<1>4. Cardinality(ids) <= Cardinality(S) /\ Cardinality(S) \in Nat
  BY <1>1, <1>2, FS_Surjection, FS_CardinalityType
<1>5. Cardinality(S) = Len(s)
  BY <1>1, <1>3, <1>4
<1> QED
  BY <1>5 DEF S

LEMMA ImportStatusIs == \A batch : Disk!ImportStatus(batch) \in Disk!Status
BY DEF Disk!ImportStatus, Disk!Status

LEMMA ImportBatchCounts ==
  ASSUME DiskInv, DiskCounts, Disk!ImportBatch
  PROVE  DiskCounts'
<1> DEFINE all == <<job.status>> \o job.runs
           refusedRuns == [i \in DOMAIN all |-> Disk!Refused(all[i])]
<1>1. /\ phase = "import" /\ phase' = "idle" /\ job' = None
      /\ UNCHANGED <<disk, version>>
  BY DEF Disk!ImportBatch
<1>2. /\ Head(all) = job.status /\ Tail(all) = job.runs
      /\ Head(refusedRuns) # "SUCCESS"
  <2>1. IsSequence(job.runs)
    BY <1>1 DEF DiskInv, DiskShape
  <2> DEFINE S == ToSet(job.runs) \cup {job.status}
             R == {Disk!Refused(outcome) : outcome \in S}
  <2>2. job.runs \in Seq(S) /\ job.status \in S
    BY <2>1 DEF IsSequence
  <2>3. all \in Seq(S) /\ Len(all) = Len(job.runs) + 1 /\ Len(job.runs) \in Nat
        /\ all[1] = job.status /\ DOMAIN all = 1..Len(all)
    BY <2>2
  <2>4. Head(all) = job.status /\ Tail(all) = job.runs
    BY <2>2
  <2> HIDE DEF all
  <2>5. refusedRuns \in Seq(R) /\ 1 \in DOMAIN all /\ Len(refusedRuns) = Len(all)
    <3>1. refusedRuns \in [1..Len(all) -> R] /\ Len(all) \in Nat
      BY <2>3
    <3> QED
      BY <2>3, <3>1
  <2>6. Head(refusedRuns) = Disk!Refused(job.status)
    BY <2>3, <2>5
  <2> QED
    BY <2>4, <2>6 DEF Disk!Refused
<1> HIDE DEF all, refusedRuns
<1> DEFINE ids == {e.id : e \in Disk!ToSet(job.events)}
           refused == \/ Disk!Cardinality(ids) # Len(job.events)
                      \/ ids \cap {e.id : e \in stored} # {}
           batch == [events |-> ToSet(job.events), states |-> ToSet(all)]
           Entry(status, added, states) ==
             [ request |-> job.request, selected |-> job.selected, hash |-> job.hash,
               image |-> Head(states), runs |-> Tail(states), status |-> status,
               events |-> added, batch |-> job.events, refused |-> refused ]
<1>3. PICK report :
        /\ reports' = Append(reports, report)
        /\ report.status \in Disk!Status
        /\ report.image = "SUCCESS" =>
             /\ Cardinality({e.id : e \in ToSet(job.events)}) = Len(job.events)
             /\ job.status = "SUCCESS" /\ report.runs = job.runs
             /\ report.events = ToSet(job.events)
             /\ report.request = job.request /\ report.selected = job.selected
  <2>1. \/ /\ ~refused
           /\ reports' = Append(reports, Entry(Disk!ImportStatus(batch), ToSet(job.events), all))
        \/ reports' = Append(reports, Entry("FAILED", {}, refusedRuns))
    BY Zenon DEF Disk!ImportBatch, Disk!ToSet, ToSet, all, refusedRuns
  <2>2. Disk!ImportStatus(batch) \in Disk!Status
    BY ImportStatusIs
  <2>3. ~refused => Cardinality({e.id : e \in ToSet(job.events)}) = Len(job.events)
    BY Zenon DEF Disk!ToSet, ToSet, Disk!Cardinality, Cardinality
  <2> HIDE DEF refused, batch, ids
  <2>4. CASE ~refused /\ reports' = Append(reports, Entry(Disk!ImportStatus(batch),
                                                        ToSet(job.events), all))
    <3> DEFINE report == Entry(Disk!ImportStatus(batch), ToSet(job.events), all)
    <3>1. /\ report.status = Disk!ImportStatus(batch) /\ report.image = Head(all)
          /\ report.runs = Tail(all) /\ report.events = ToSet(job.events)
          /\ report.request = job.request /\ report.selected = job.selected
      OBVIOUS
    <3> HIDE DEF report
    <3>2. reports' = Append(reports, report)
      BY <2>4 DEF report
    <3>3. Cardinality({e.id : e \in ToSet(job.events)}) = Len(job.events)
      BY <2>3, <2>4
    <3> QED
      BY <1>2, <2>2, <3>1, <3>2, <3>3
  <2>5. CASE reports' = Append(reports, Entry("FAILED", {}, refusedRuns))
    <3> DEFINE report == Entry("FAILED", {}, refusedRuns)
    <3>1. report.status = "FAILED" /\ report.image # "SUCCESS"
      BY <1>2
    <3> HIDE DEF report
    <3>2. reports' = Append(reports, report)
      BY <2>5 DEF report
    <3> QED
      BY <3>1, <3>2 DEF Disk!Status
  <2> QED
    BY <2>1, <2>4, <2>5
<1>4. /\ DOMAIN reports' = 1..Len(reports) + 1 /\ DOMAIN reports = 1..Len(reports)
      /\ Len(reports) \in Nat
      /\ \A i \in DOMAIN reports : reports'[i] = reports[i]
      /\ reports'[Len(reports) + 1] = report
  <2>1. IsSequence(reports)
    BY DEF DiskInv, DiskShape
  <2>2. IsSequence(Append(reports, report))
    BY <2>1, AppendIsSequence
  <2> QED
    BY <1>3, <2>1, <2>2, AppendIsSequence, SequenceDomain
<1>5. Confined(report)
  <2> SUFFICES ASSUME report.image = "SUCCESS"
               PROVE  /\ Len(report.runs) =
                           Cardinality(Disk!Due(report, DOMAIN report.selected))
                      /\ Cardinality(report.events) = Cardinality(Successes(report.runs))
    BY DEF Confined
  <2>1. job.todo = {} /\ Len(job.runs) + 0 = Cardinality(Begun)
    BY <1>1, <1>3 DEF DiskCounts, Counted
  <2>2. Begun = Disk!Due(report, DOMAIN report.selected)
    <3>1. DOMAIN job.selected \ job.todo = DOMAIN report.selected
      BY <1>3, <2>1
    <3> QED
      BY <1>3, <3>1 DEF Begun, Disk!Due
  <2>3. Len(job.runs) \in Nat
    BY <1>1, SequenceDomain DEF DiskInv, DiskShape
  <2>4. Len(report.runs) = Cardinality(Disk!Due(report, DOMAIN report.selected))
    BY <1>3, <2>1, <2>2, <2>3
  <2>5. Cardinality(report.events) = Len(job.events)
    BY <1>1, <1>3, DifferentIdentities DEF DiskInv, DiskShape
  <2>6. Cardinality(report.events) = Cardinality(Successes(report.runs))
    BY <1>1, <1>3, <2>5 DEF DiskCounts, Matched
  <2> QED
    BY <2>4, <2>6
<1>6. \A i \in 1..Len(reports) + 1 : i \in DOMAIN reports \/ i = Len(reports) + 1
  BY <1>4
<1>7. (\A i \in DOMAIN reports : Confined(reports[i]))'
  BY <1>4, <1>5, <1>6
  DEF DiskCounts
<1>8. Disk!TypeOK'
  BY <1>1, <1>3, <1>4, <1>6 DEF DiskCounts, Disk!TypeOK, Disk!Phase
<1> QED
  BY <1>1, <1>7, <1>8 DEF DiskCounts, Counted, Matched

LEMMA WriteImageCounts ==
  ASSUME DiskInv, DiskCounts, Disk!WriteImage
  PROVE  DiskCounts'
<1>1. /\ version < MaxWrites /\ disk' \in Disks /\ version' = version + 1
      /\ UNCHANGED <<phase, job, stored, reports>>
  BY DEF Disk!WriteImage
<1>2. Disk!TypeOK'
  BY <1>1, DisksAssumption DEF DiskCounts, Disk!TypeOK
<1>3. Begun' = Begun
  BY <1>1 DEF Begun, Disk!Due
<1>4. Counted' /\ Matched'
  BY <1>1, <1>3 DEF DiskCounts, Counted, Matched
<1>5. (\A i \in DOMAIN reports : Confined(reports[i]))'
  BY <1>1 DEF DiskCounts
<1> QED
  BY <1>1, <1>2, <1>4, <1>5 DEF DiskCounts

LEMMA DiskInitCounts == Disk!Init => DiskCounts
BY DisksAssumption
DEF Disk!Init, Disk!Phase, DiskCounts, Disk!TypeOK, Counted, Matched

LEMMA DiskStepCounts == DiskInv /\ DiskCounts /\ [Disk!Next]_Disk!vars => DiskCounts'
<1> SUFFICES ASSUME DiskInv, DiskCounts, [Disk!Next]_Disk!vars PROVE DiskCounts'
  OBVIOUS
<1>1. CASE UNCHANGED Disk!vars
  <2>1. UNCHANGED <<disk, version, phase, job, stored, reports>>
    BY <1>1 DEF Disk!vars
  <2>2. Begun' = Begun
    BY <2>1 DEF Begun, Disk!Due
  <2>3. Disk!TypeOK' /\ (phase' # "idle" => job'.extracted \in Nat)
    BY <2>1 DEF DiskCounts, Disk!TypeOK
  <2>4. Counted' /\ Matched'
    BY <2>1, <2>2 DEF DiskCounts, Counted, Matched
  <2>5. (\A i \in DOMAIN reports : Confined(reports[i]))'
    BY <2>1 DEF DiskCounts
  <2> QED
    BY <2>3, <2>4, <2>5 DEF DiskCounts
<1>2. CASE Disk!Next
  BY <1>2, RequestCounts, OpenStreamCounts, HashImageCounts, DiscoverVolumesCounts,
     SkipVolumeCounts, OpenVolumeCounts, ExtractArtifactCounts, LeaveAndLastCount,
     CompareStatCounts, WriteManifestCounts, ImportBatchCounts, WriteImageCounts
  DEF Disk!Next
<1> QED
  BY <1>1, <1>2

-----------------------------------------------------------------------------
(***************************************************************************)
(* MFT rows: their ancestors and how far up a path begins.                 *)
(***************************************************************************)

\* The rows of the file are numbered.
Numbered == rows \in MftFiles

LEMMA RowsAreNumbered ==
  ASSUME Numbered
  PROVE  /\ Len(rows) \in Nat /\ DOMAIN rows = 1..Len(rows)
         /\ None \notin DOMAIN rows /\ None \notin 0..Len(rows)
BY FilesAssumption DEF Numbered

LEMMA LargestIsIn ==
  ASSUME NEW n \in Nat, NEW T \in SUBSET (1..n), T # {}
  PROVE  Paths!Max(T) \in T
<1> DEFINE S == {m \in Nat : \A U \in SUBSET (1..m) : U # {} => \E x \in U : \A y \in U : x >= y}
<1>1. 0 \in S
  <2>1. 1..0 = {}
    OBVIOUS
  <2> QED
    BY <2>1
<1>2. ASSUME NEW m \in Nat, m \in S
      PROVE  m + 1 \in S
  <2> SUFFICES ASSUME NEW U \in SUBSET (1..m + 1), U # {}
               PROVE  \E x \in U : \A y \in U : x >= y
    OBVIOUS
  <2>1. CASE m + 1 \in U
    <3>1. \A y \in U : m + 1 >= y
      OBVIOUS
    <3> QED
      BY <2>1, <3>1
  <2>2. CASE m + 1 \notin U
    <3>1. U \in SUBSET (1..m)
      BY <2>2
    <3> QED
      BY <1>2, <3>1
  <2> QED
    BY <2>1, <2>2
<1> HIDE DEF S
<1>3. n \in S
  BY <1>1, <1>2, AllNaturals
<1>4. \E x \in T : \A y \in T : x >= y
  BY <1>3 DEF S
<1> QED
  BY <1>4 DEF Paths!Max

LEMMA LookupFinds ==
  ASSUME Numbered, NEW reference, Paths!Lookup(reference) # None
  PROVE  Paths!Lookup(reference) \in DOMAIN rows
<1> DEFINE matches == {i \in DOMAIN rows : Paths!Reference(i) = reference}
<1>1. matches # {} /\ Paths!Lookup(reference) = Paths!Max(matches)
  BY DEF Paths!Lookup
<1>2. matches \in SUBSET (1..Len(rows)) /\ Len(rows) \in Nat
  BY RowsAreNumbered
<1> HIDE DEF matches
<1>3. Paths!Max(matches) \in matches
  BY <1>1, <1>2, LargestIsIn
<1> QED
  BY <1>1, <1>3 DEF matches

\* An index or None.
Places == DOMAIN rows \cup {None}

LEMMA AboveIsPlace ==
  ASSUME Numbered, NEW a
  PROVE  Paths!Above(a) \in Places
<1>1. CASE Paths!Above(a) = None
  BY <1>1 DEF Places
<1>2. CASE Paths!Above(a) # None
  <2>1. Paths!Above(a) = Paths!Lookup(rows[a].up)
    BY <1>2 DEF Paths!Above
  <2> QED
    BY <1>2, <2>1, LookupFinds DEF Places
<1> QED
  BY <1>1, <1>2

Upwards == [a \in Places |-> Paths!Above(a)]

LEMMA AncestorRepeats ==
  ASSUME Numbered, NEW i \in DOMAIN rows, NEW n \in Nat
  PROVE  \E f \in [0..n -> Places] :
           /\ Repeats(f, n, i, Upwards)
           /\ Paths!Ancestor(i, n) = f[n]
<1>1. Upwards \in [Places -> Places] /\ i \in Places
  BY AboveIsPlace DEF Upwards, Places
<1>2. PICK f \in [0..n -> Places] : Repeats(f, n, i, Upwards)
  BY <1>1, RepeatsExists
<1> DEFINE Climbs(g) == g = [k \in 0..n |-> IF k = 0 THEN i ELSE Paths!Above(g[k - 1])]
           up == CHOOSE g : Climbs(g)
<1>3. Climbs(f)
  <2>1. \A k \in 0..n : k # 0 => k - 1 \in 0..n /\ Upwards[f[k - 1]] = Paths!Above(f[k - 1])
    BY DEF Upwards
  <2> QED
    BY <1>2, <2>1 DEF Repeats
<1>4. Climbs(up)
  <2>1. \E g : Climbs(g)
    BY <1>3
  <2> HIDE DEF Climbs
  <2> QED
    BY <2>1
<1>5. Paths!Ancestor(i, n) = up[n]
  BY DEF Paths!Ancestor
<1> HIDE DEF up
<1> DEFINE S == {k \in Nat : k <= n => up[k] = f[k]}
<1>6. 0 \in S
  BY <1>3, <1>4
<1>7. ASSUME NEW k \in Nat, k \in S
      PROVE  k + 1 \in S
  <2> SUFFICES ASSUME k + 1 <= n PROVE up[k + 1] = f[k + 1]
    OBVIOUS
  <2>1. up[k + 1] = Paths!Above(up[k]) /\ f[k + 1] = Paths!Above(f[k])
    BY <1>3, <1>4
  <2> QED
    BY <1>7, <2>1
<1> HIDE DEF S
<1>8. n \in S
  BY <1>6, <1>7, AllNaturals
<1> QED
  BY <1>2, <1>5, <1>8 DEF S

LEMMA AncestorSteps ==
  ASSUME Numbered, NEW i \in DOMAIN rows
  PROVE  /\ Paths!Ancestor(i, 0) = i
         /\ \A n \in Nat : /\ Paths!Ancestor(i, n) \in Places
                           /\ Paths!Ancestor(i, n + 1) = Paths!Above(Paths!Ancestor(i, n))
<1>1. Paths!Ancestor(i, 0) = i
  BY AncestorRepeats DEF Repeats
<1>2. ASSUME NEW n \in Nat
      PROVE  /\ Paths!Ancestor(i, n) \in Places
             /\ Paths!Ancestor(i, n + 1) = Paths!Above(Paths!Ancestor(i, n))
  <2>1. PICK f \in [0..n -> Places] :
               Repeats(f, n, i, Upwards) /\ Paths!Ancestor(i, n) = f[n]
    BY AncestorRepeats
  <2>2. PICK g \in [0..n + 1 -> Places] :
               Repeats(g, n + 1, i, Upwards) /\ Paths!Ancestor(i, n + 1) = g[n + 1]
    <3>1. n + 1 \in Nat
      OBVIOUS
    <3> QED
      BY <3>1, AncestorRepeats
  <2>3. f[n] = g[n]
    BY <2>1, <2>2, RepeatsAgree
  <2>4. g[n + 1] = Upwards[g[n]] /\ g[n] \in Places
    BY <2>2 DEF Repeats
  <2> QED
    BY <2>1, <2>2, <2>3, <2>4 DEF Upwards
<1> QED
  BY <1>1, <1>2

LEMMA AncestorFurther ==
  ASSUME Numbered, NEW i \in DOMAIN rows, NEW m \in Nat,
         Paths!Ancestor(i, m) \in DOMAIN rows
  PROVE  \A n \in Nat : Paths!Ancestor(i, m + n) = Paths!Ancestor(Paths!Ancestor(i, m), n)
<1> DEFINE j == Paths!Ancestor(i, m)
           S == {n \in Nat : Paths!Ancestor(i, m + n) = Paths!Ancestor(j, n)}
<1>1. 0 \in S
  BY AncestorSteps
<1>2. ASSUME NEW n \in Nat, n \in S
      PROVE  n + 1 \in S
  <2>1. Paths!Ancestor(i, (m + n) + 1) = Paths!Above(Paths!Ancestor(i, m + n))
    BY AncestorSteps
  <2>2. Paths!Ancestor(j, n + 1) = Paths!Above(Paths!Ancestor(j, n))
    BY AncestorSteps
  <2>3. (m + n) + 1 = m + (n + 1)
    OBVIOUS
  <2> QED
    BY <1>2, <2>1, <2>2, <2>3
<1> HIDE DEF S
<1>3. \A n \in Nat : n \in S
  BY <1>1, <1>2, AllNaturals
<1> QED
  BY <1>3 DEF S

\* The path of a row begins n rows further up.
Reaches(i, n) ==
  n \in Nat /\ Paths!Ancestor(i, n) \in DOMAIN rows /\ Paths!Begins(Paths!Ancestor(i, n))

LEMMA NothingBeyond ==
  ASSUME Numbered, NEW i \in DOMAIN rows, NEW n, Reaches(i, n)
  PROVE  \A k \in Nat : k > n => Paths!Ancestor(i, k) = None
<1> DEFINE S == {k \in Nat : Paths!Ancestor(i, n + 1 + k) = None}
<1>0. n \in Nat
  BY DEF Reaches
<1>1. 0 \in S
  <2>1. Paths!Ancestor(i, n + 1) = Paths!Above(Paths!Ancestor(i, n))
    BY <1>0, AncestorSteps
  <2> QED
    BY <1>0, <2>1 DEF Reaches, Paths!Above
<1>2. ASSUME NEW k \in Nat, k \in S
      PROVE  k + 1 \in S
  <2>1. Paths!Ancestor(i, (n + 1 + k) + 1) = Paths!Above(Paths!Ancestor(i, n + 1 + k))
    BY <1>0, AncestorSteps
  <2>2. (n + 1 + k) + 1 = n + 1 + (k + 1)
    BY <1>0
  <2> QED
    BY <1>2, <2>1, <2>2 DEF Paths!Above
<1> HIDE DEF S
<1>3. \A k \in Nat : k \in S
  BY <1>1, <1>2, AllNaturals
<1> SUFFICES ASSUME NEW k \in Nat, k > n PROVE Paths!Ancestor(i, k) = None
  OBVIOUS
<1>4. k - (n + 1) \in Nat /\ n + 1 + (k - (n + 1)) = k
  BY <1>0
<1> QED
  BY <1>3, <1>4 DEF S

LEMMA ReachesOnce ==
  ASSUME Numbered, NEW i \in DOMAIN rows, NEW m, NEW n, Reaches(i, m), Reaches(i, n)
  PROVE  m = n
<1>1. m \in Nat /\ n \in Nat
  BY DEF Reaches
<1>2. ~(m > n)
  BY <1>1, NothingBeyond, RowsAreNumbered DEF Reaches
<1>3. ~(n > m)
  BY <1>1, NothingBeyond, RowsAreNumbered DEF Reaches
<1> QED
  BY <1>1, <1>2, <1>3

\* There is a row all the way up.
LEMMA WayHasRows ==
  ASSUME Numbered, NEW r \in DOMAIN rows, NEW n, Reaches(r, n)
  PROVE  \A k \in 0..n : Paths!Ancestor(r, k) \in DOMAIN rows
<1>0. n \in Nat
  BY DEF Reaches
<1> SUFFICES ASSUME NEW k \in 0..n, Paths!Ancestor(r, k) = None PROVE FALSE
  BY AncestorSteps DEF Places
<1> DEFINE S == {m \in Nat : Paths!Ancestor(r, k + m) = None}
<1>1. 0 \in S
  OBVIOUS
<1>2. ASSUME NEW m \in Nat, m \in S
      PROVE  m + 1 \in S
  <2>1. Paths!Ancestor(r, (k + m) + 1) = Paths!Above(Paths!Ancestor(r, k + m))
    BY AncestorSteps
  <2>2. (k + m) + 1 = k + (m + 1)
    OBVIOUS
  <2> QED
    BY <1>2, <2>1, <2>2 DEF Paths!Above
<1> HIDE DEF S
<1>3. \A m \in Nat : m \in S
  BY <1>1, <1>2, AllNaturals
<1>4. n - k \in Nat /\ k + (n - k) = n
  BY <1>0
<1>5. Paths!Ancestor(r, n) = None
  BY <1>3, <1>4 DEF S
<1> QED
  BY <1>5, RowsAreNumbered DEF Reaches

\* All the rows on the way up are different, so that there are not too many.
LEMMA WayIsShort ==
  ASSUME Numbered, NEW i \in DOMAIN rows, NEW n, Reaches(i, n)
  PROVE  n < Len(rows)
<1> DEFINE f == [k \in 0..n |-> Paths!Ancestor(i, k)]
<1>0. n \in Nat
  BY DEF Reaches
<1>1. \A k \in 0..n : Paths!Ancestor(i, k) \in DOMAIN rows
  BY WayHasRows
<1>2. \A j, k \in 0..n : j < k => f[j] # f[k]
  <2> SUFFICES ASSUME NEW j \in 0..n, NEW k \in 0..n, j < k, f[j] = f[k] PROVE FALSE
    OBVIOUS
  <2>1. Paths!Ancestor(i, j + (n - k)) = Paths!Ancestor(i, k + (n - k))
    <3>1. n - k \in Nat /\ j \in Nat /\ k \in Nat
      BY <1>0
    <3>2. Paths!Ancestor(i, j) = Paths!Ancestor(i, k)
      OBVIOUS
    <3>3. Paths!Ancestor(i, j + (n - k)) = Paths!Ancestor(Paths!Ancestor(i, j), n - k)
      BY <1>1, <3>1, AncestorFurther
    <3>4. Paths!Ancestor(i, k + (n - k)) = Paths!Ancestor(Paths!Ancestor(i, k), n - k)
      BY <1>1, <3>1, AncestorFurther
    <3> QED
      BY <3>2, <3>3, <3>4
  <2>2. k + (n - k) = n /\ j + (n - k) \in Nat /\ j + (n - k) # n
    BY <1>0
  <2>3. Reaches(i, j + (n - k))
    BY <2>1, <2>2 DEF Reaches
  <2> QED
    BY <2>2, <2>3, ReachesOnce
<1>3. f \in Injection(0..n, 1..Len(rows))
  BY <1>0, <1>1, <1>2, RowsAreNumbered DEF Injection, IsInjective
<1>4. /\ IsFiniteSet(1..Len(rows)) /\ Cardinality(1..Len(rows)) = Len(rows)
      /\ Cardinality(0..n) = n + 1
  <2>1. Len(rows) \in Nat
    BY RowsAreNumbered
  <2>2. /\ IsFiniteSet(1..Len(rows))
        /\ Cardinality(1..Len(rows)) = IF 1 > Len(rows) THEN 0 ELSE Len(rows) - 1 + 1
    BY <2>1, FS_Interval
  <2>3. Cardinality(0..n) = IF 0 > n THEN 0 ELSE n - 0 + 1
    BY <1>0, FS_Interval
  <2> QED
    BY <1>0, <2>1, <2>2, <2>3
<1>5. Cardinality(0..n) <= Cardinality(1..Len(rows))
  BY <1>3, <1>4, FS_Injection
<1> QED
  BY <1>0, <1>4, <1>5, RowsAreNumbered

\* Distance is how far up it begins.
LEMMA DistanceIsReached ==
  ASSUME Numbered, NEW i \in DOMAIN rows
  PROVE  /\ \A n \in Nat : Reaches(i, n) => Paths!Distance(i) = n
         /\ Paths!Distance(i) # None => Reaches(i, Paths!Distance(i))
<1> DEFINE ends == {n \in 0..Len(rows) :
                      LET a == Paths!Ancestor(i, n) IN a # None /\ Paths!Begins(a)}
<1>1. ASSUME NEW n
      PROVE  n \in ends <=> n \in 0..Len(rows) /\ Reaches(i, n)
  <2>1. n \in 0..Len(rows) => n \in Nat /\ Paths!Ancestor(i, n) \in Places
    BY AncestorSteps, RowsAreNumbered
  <2>2. \A a \in Places : a # None <=> a \in DOMAIN rows
    BY RowsAreNumbered DEF Places
  <2> QED
    BY <2>1, <2>2 DEF Reaches
<1>2. Paths!Distance(i) = IF ends = {} THEN None ELSE Paths!Min(ends)
  BY DEF Paths!Distance
<1> HIDE DEF ends
<1>3. ASSUME NEW n \in Nat, Reaches(i, n)
      PROVE  ends = {n}
  <2>1. n \in 0..Len(rows)
    BY <1>3, WayIsShort, RowsAreNumbered
  <2> QED
    BY <1>1, <1>3, <2>1, ReachesOnce
<1>4. \A n \in Nat : Paths!Min({n}) = n
  BY DEF Paths!Min
<1>5. ASSUME NEW n \in Nat, Reaches(i, n)
      PROVE  Paths!Distance(i) = n
  BY <1>2, <1>3, <1>4, <1>5
<1>6. ASSUME Paths!Distance(i) # None
      PROVE  Reaches(i, Paths!Distance(i))
  <2>1. PICK n : n \in ends
    BY <1>2, <1>6
  <2>2. n \in Nat /\ Reaches(i, n)
    BY <1>1, <2>1 DEF Reaches
  <2> QED
    BY <1>5, <2>2
<1> QED
  BY <1>5, <1>6

-----------------------------------------------------------------------------
(***************************************************************************)
(* The walk of _resolve_mft.                                               *)
(***************************************************************************)

\* The walk goes on after its k-th row.
GoesOn(t, k) ==
  /\ path[t[k]] = None
  /\ Paths!Reference(t[k]) \notin {Paths!Reference(t[j]) : j \in 1..k - 1}
  /\ rows[t[k]].rec # Paths!Root
  /\ Paths!Parent(t[k]) # None

IsTrail(t, i) ==
  /\ t \in Seq(DOMAIN rows) /\ Len(t) \in Nat \ {0} /\ t[1] = i
  /\ \A k \in 1..Len(t) - 1 : GoesOn(t, k) /\ t[k + 1] = Paths!Parent(t[k])

Trails == {t \in Seq(DOMAIN rows) : Len(t) \in Nat \ {0}}

LEMMA ParentIsRow ==
  ASSUME Numbered, NEW a, Paths!Parent(a) # None
  PROVE  Paths!Parent(a) \in DOMAIN rows
BY LookupFinds DEF Paths!Parent

LEMMA OnwardIs ==
  ASSUME NEW t
  PROVE  Paths!Onward(t) = IF GoesOn(t, Len(t)) THEN Append(t, Paths!Parent(t[Len(t)])) ELSE t
BY DEF Paths!Onward, GoesOn

LEMMA OnwardIsTrail ==
  ASSUME Numbered, NEW t \in Trails
  PROVE  Paths!Onward(t) \in Trails
<1>1. CASE GoesOn(t, Len(t))
  <2>1. Paths!Onward(t) = Append(t, Paths!Parent(t[Len(t)]))
    BY <1>1, OnwardIs
  <2>2. Paths!Parent(t[Len(t)]) \in DOMAIN rows
    BY <1>1, ParentIsRow DEF GoesOn
  <2> QED
    BY <2>1, <2>2 DEF Trails
<1>2. CASE ~GoesOn(t, Len(t))
  BY <1>2, OnwardIs
<1> QED
  BY <1>1, <1>2

LEMMA TrailGrows ==
  ASSUME Numbered, NEW i, NEW t, IsTrail(t, i), GoesOn(t, Len(t))
  PROVE  /\ IsTrail(Paths!Onward(t), i)
         /\ Len(Paths!Onward(t)) = Len(t) + 1
<1> DEFINE p == Paths!Parent(t[Len(t)])
           u == Append(t, p)
<1>1. p \in DOMAIN rows
  BY ParentIsRow DEF GoesOn
<1> HIDE DEF p
<1>2. /\ u \in Seq(DOMAIN rows) /\ Len(u) = Len(t) + 1 /\ Len(t) \in Nat \ {0}
      /\ \A k \in 1..Len(t) : u[k] = t[k]
      /\ u[Len(t) + 1] = p
  BY <1>1 DEF IsTrail
<1>3. Paths!Onward(t) = u
  BY OnwardIs DEF p
<1> HIDE DEF u
<1>4. \A k \in 1..Len(t) : GoesOn(t, k)
  BY <1>2 DEF IsTrail
<1>5. ASSUME NEW k \in 1..Len(t)
      PROVE  GoesOn(u, k) /\ u[k + 1] = Paths!Parent(u[k])
  <2>1. \A j \in 1..k - 1 : u[j] = t[j]
    BY <1>2
  <2>2. GoesOn(u, k)
    BY <1>2, <1>4, <2>1 DEF GoesOn
  <2>3. CASE k = Len(t)
    BY <1>2, <2>2, <2>3 DEF p
  <2>4. CASE k # Len(t)
    BY <1>2, <2>2, <2>4 DEF IsTrail
  <2> QED
    BY <2>3, <2>4
<1>6. IsTrail(u, i)
  BY <1>2, <1>5 DEF IsTrail
<1> QED
  BY <1>2, <1>3, <1>6

LEMMA WalkIsTrail ==
  ASSUME Numbered, NEW i \in DOMAIN rows
  PROVE  /\ IsTrail(Paths!Walk(i), i)
         /\ Len(Paths!Walk(i)) <= Depth + 2
         /\ \/ Len(Paths!Walk(i)) = Depth + 2
            \/ ~GoesOn(Paths!Walk(i), Len(Paths!Walk(i)))
<1>0. Depth \in Nat /\ Depth + 1 \in Nat
  BY FilesAssumption
<1> DEFINE next == [t \in Trails |-> Paths!Onward(t)]
           Steps(g) == g = [n \in 0..Depth + 1 |->
                              IF n = 0 THEN <<i>> ELSE Paths!Onward(g[n - 1])]
           walk == CHOOSE g : Steps(g)
<1>1. Paths!Walk(i) = walk[Depth + 1]
  BY DEF Paths!Walk
<1>2. \E g : Steps(g)
  <2>1. next \in [Trails -> Trails] /\ <<i>> \in Trails
    BY OnwardIsTrail DEF Trails
  <2> HIDE DEF next
  <2>2. PICK f \in [0..Depth + 1 -> Trails] : Repeats(f, Depth + 1, <<i>>, next)
    BY <1>0, <2>1, RepeatsExists
  <2>3. \A n \in 0..Depth + 1 : n # 0 => n - 1 \in 0..Depth + 1
    BY <1>0
  <2>4. \A n \in 0..Depth + 1 : n # 0 => next[f[n - 1]] = Paths!Onward(f[n - 1])
    BY <2>2, <2>3 DEF next
  <2>5. Steps(f)
    BY <2>2, <2>4 DEF Repeats
  <2> QED
    BY <2>5
<1>3. Steps(walk)
  <2> HIDE DEF Steps
  <2> QED
    BY <1>2
<1> HIDE DEF walk, next
<1> DEFINE Walked(n) ==
             /\ IsTrail(walk[n], i) /\ Len(walk[n]) <= n + 1
             /\ Len(walk[n]) = n + 1 \/ ~GoesOn(walk[n], Len(walk[n]))
           S == {n \in Nat : n <= Depth + 1 => Walked(n)}
<1>4. 0 \in S
  <2>1. walk[0] = <<i>>
    BY <1>0, <1>3
  <2>2. IsTrail(<<i>>, i) /\ Len(<<i>>) = 1
    BY DEF IsTrail
  <2>3. IsTrail(walk[0], i) /\ Len(walk[0]) = 1
    BY <2>1, <2>2
  <2>4. Walked(0)
    <3> HIDE DEF Steps
    <3> QED
      BY <2>3
  <2> HIDE DEF Steps, Walked
  <2> QED
    BY <2>4
<1>5. ASSUME NEW n \in Nat, n \in S
      PROVE  n + 1 \in S
  <2> SUFFICES ASSUME n + 1 <= Depth + 1
               PROVE  /\ IsTrail(walk[n + 1], i) /\ Len(walk[n + 1]) <= n + 2
                      /\ \/ Len(walk[n + 1]) = n + 2
                         \/ ~GoesOn(walk[n + 1], Len(walk[n + 1]))
    OBVIOUS
  <2>1. walk[n + 1] = Paths!Onward(walk[n])
    BY <1>0, <1>3
  <2>2. /\ IsTrail(walk[n], i) /\ Len(walk[n]) <= n + 1
        /\ Len(walk[n]) = n + 1 \/ ~GoesOn(walk[n], Len(walk[n]))
    BY <1>0, <1>5
  <2>3. CASE GoesOn(walk[n], Len(walk[n]))
    <3>1. IsTrail(walk[n + 1], i) /\ Len(walk[n + 1]) = Len(walk[n]) + 1
      BY <2>1, <2>2, <2>3, TrailGrows
    <3> QED
      BY <2>2, <2>3, <3>1
  <2>4. CASE ~GoesOn(walk[n], Len(walk[n]))
    <3>1. walk[n + 1] = walk[n]
      BY <2>1, <2>4, OnwardIs
    <3>2. Len(walk[n]) \in Nat
      BY <2>2 DEF IsTrail
    <3> QED
      BY <2>2, <2>4, <3>1, <3>2
  <2> QED
    BY <2>3, <2>4
<1> HIDE DEF S, Steps
<1>6. Depth + 1 \in S
  BY <1>0, <1>4, <1>5, AllNaturals
<1>7. /\ IsTrail(walk[Depth + 1], i) /\ Len(walk[Depth + 1]) <= (Depth + 1) + 1
      /\ Len(walk[Depth + 1]) = (Depth + 1) + 1 \/ ~GoesOn(walk[Depth + 1], Len(walk[Depth + 1]))
  BY <1>0, <1>6 DEF S
<1> QED
  BY <1>0, <1>1, <1>7

\* Rows with a stated path have it from the beginning.
StatedHavePaths == \A r \in DOMAIN rows : rows[r].given => path[r] # None

\* The rows of a walk are the ancestors of its first.
LEMMA TrailClimbs ==
  ASSUME Numbered, StatedHavePaths, NEW i \in DOMAIN rows, NEW t, IsTrail(t, i)
  PROVE  /\ \A k \in 1..Len(t) : t[k] = Paths!Ancestor(i, k - 1)
         /\ \A k, m \in 1..Len(t) : k <= m => t[m] = Paths!Ancestor(t[k], m - k)
<1>0. Len(t) \in Nat \ {0} /\ \A k \in 1..Len(t) : t[k] \in DOMAIN rows
  BY DEF IsTrail
<1> DEFINE S == {n \in Nat : n < Len(t) => t[n + 1] = Paths!Ancestor(i, n)}
<1>1. 0 \in S
  BY AncestorSteps DEF IsTrail
<1>2. ASSUME NEW n \in Nat, n \in S
      PROVE  n + 1 \in S
  <2> SUFFICES ASSUME n + 1 < Len(t) PROVE t[(n + 1) + 1] = Paths!Ancestor(i, n + 1)
    OBVIOUS
  <2>1. n + 1 \in 1..Len(t) - 1
    BY <1>0
  <2>2. GoesOn(t, n + 1) /\ t[(n + 1) + 1] = Paths!Parent(t[n + 1])
    BY <2>1 DEF IsTrail
  <2>3. ~Paths!Begins(t[n + 1]) /\ t[n + 1] # None
    BY <1>0, <2>1, <2>2, RowsAreNumbered DEF GoesOn, StatedHavePaths, Paths!Begins
  <2>4. Paths!Parent(t[n + 1]) = Paths!Above(t[n + 1])
    BY <2>3 DEF Paths!Above, Paths!Parent
  <2>5. Paths!Ancestor(i, n + 1) = Paths!Above(Paths!Ancestor(i, n))
    BY AncestorSteps
  <2> QED
    BY <1>0, <1>2, <2>1, <2>2, <2>4, <2>5
<1> HIDE DEF S
<1>3. \A n \in Nat : n \in S
  BY <1>1, <1>2, AllNaturals
<1>4. ASSUME NEW k \in 1..Len(t)
      PROVE  t[k] = Paths!Ancestor(i, k - 1)
  <2>1. k - 1 \in Nat /\ k - 1 < Len(t) /\ (k - 1) + 1 = k
    BY <1>0
  <2> QED
    BY <1>3, <2>1 DEF S
<1>5. ASSUME NEW k \in 1..Len(t), NEW m \in 1..Len(t), k <= m
      PROVE  t[m] = Paths!Ancestor(t[k], m - k)
  <2>1. k - 1 \in Nat /\ m - k \in Nat /\ (k - 1) + (m - k) = m - 1
    BY <1>0, <1>5
  <2>2. Paths!Ancestor(i, k - 1) \in DOMAIN rows
    BY <1>0, <1>4
  <2>3. Paths!Ancestor(i, (k - 1) + (m - k)) = Paths!Ancestor(Paths!Ancestor(i, k - 1), m - k)
    BY <2>1, <2>2, AncestorFurther
  <2> QED
    BY <1>4, <2>1, <2>3
<1> QED
  BY <1>4, <1>5

\* All but the last are different.
LEMMA TrailDistinct ==
  ASSUME NEW t, NEW i, IsTrail(t, i), NEW j \in 1..Len(t) - 1, NEW k \in 1..Len(t) - 1,
         t[j] = t[k]
  PROVE  j = k
<1>0. Len(t) \in Nat
  BY DEF IsTrail
<1>1. ASSUME NEW a \in 1..Len(t) - 1, NEW b \in 1..Len(t) - 1, t[a] = t[b]
      PROVE  ~(a < b)
  <2> SUFFICES ASSUME a < b PROVE FALSE
    OBVIOUS
  <2>1. a \in 1..b - 1
    BY <1>0
  <2>2. GoesOn(t, b)
    BY DEF IsTrail
  <2> QED
    BY <1>1, <2>1, <2>2 DEF GoesOn
<1> QED
  BY <1>0, <1>1

-----------------------------------------------------------------------------
(***************************************************************************)
(* The invariant of MftPaths.                                              *)
(***************************************************************************)

\* A path of the row can be told: it begins at a stated path or at the mount point.
Mounted(i) == Mount # None \/ rows[Paths!Ancestor(i, Paths!Distance(i))].given

PathShape ==
  /\ Numbered
  /\ path = [r \in DOMAIN rows |-> path[r]] /\ origin = [r \in DOMAIN rows |-> origin[r]]
  /\ pending \subseteq DOMAIN rows
  /\ \A r \in DOMAIN rows : r \in origin[r] /\ origin[r] \subseteq DOMAIN rows
  /\ StatedHavePaths

\* The path of a row is that of its ancestors; the root directory has none of its own.
PathsAreTrue ==
  \A r \in DOMAIN rows :
    path[r] # None =>
      /\ Reaches(r, Paths!Distance(r)) /\ Mounted(r)
      /\ path[r] = Paths!TruePath(r)
      /\ Paths!Distance(r) = 0 => rows[r].given

OriginsAreTrue ==
  \A r \in DOMAIN rows :
    path[r] # None =>
      \A n \in 0..Paths!Distance(r) : Paths!Ancestor(r, n) \in origin[r]

InReach(r) ==
  LET n == Paths!Distance(r)
  IN  n # None /\ n > 0 /\ n <= Depth /\ Mounted(r) /\ Paths!Simple(r)

ResolvedHavePaths ==
  \A r \in DOMAIN rows \ pending : InReach(r) => path[r] # None

PathsInv == PathShape /\ PathsAreTrue /\ OriginsAreTrue /\ ResolvedHavePaths

LEMMA NamesAreParts ==
  ASSUME Numbered, NEW r \in DOMAIN rows
  PROVE  rows[r].name \in PathParts
<1>1. rows[r] \in ToSet(rows)
  BY DEF ToSet
<1> QED
  BY <1>1 DEF Numbered, PathParts

\* What a path begins with.
BaseOf(r) ==
  LET end == Paths!Ancestor(r, Paths!Distance(r))
  IN  IF rows[end].given THEN Paths!Stated(end) ELSE Mount

NamesOf(r, n) == [j \in 1..n |-> rows[Paths!Ancestor(r, n - j)].name]

LEMMA TruePathIs ==
  ASSUME NEW r
  PROVE  Paths!TruePath(r) = BaseOf(r) \o NamesOf(r, Paths!Distance(r))
BY DEF Paths!TruePath, BaseOf, NamesOf

LEMMA PartsAgree ==
  ASSUME NEW S, NEW s \in Seq(S), NEW t \in Seq(S), Len(s) = Len(t),
         \A j \in 1..Len(s) : s[j] = t[j]
  PROVE  s = t
OBVIOUS

LEMMA PartsJoin ==
  ASSUME NEW S, NEW s \in Seq(S), NEW t \in Seq(S)
  PROVE  /\ s \o t \in Seq(S) /\ Len(s \o t) = Len(s) + Len(t)
         /\ \A j \in 1..Len(s) : (s \o t)[j] = s[j]
         /\ \A j \in 1..Len(t) : (s \o t)[Len(s) + j] = t[j]
<1>1. s \o t \in Seq(S) /\ Len(s \o t) = Len(s) + Len(t)
  OBVIOUS
<1>2. \A j \in 1..Len(s) : (s \o t)[j] = s[j]
  OBVIOUS
<1>3. ASSUME NEW j \in 1..Len(t)
      PROVE  (s \o t)[Len(s) + j] = t[j]
  <2>1. Len(s) \in Nat /\ Len(t) \in Nat
    OBVIOUS
  <2>2. Len(s) + j \in 1..Len(s) + Len(t) /\ Len(s) + j > Len(s) /\ (Len(s) + j) - Len(s) = j
    BY <2>1
  <2> QED
    BY <2>2
<1> QED
  BY <1>1, <1>2, <1>3

LEMMA PartsArePaths ==
  ASSUME Numbered, NEW r \in DOMAIN rows, Reaches(r, Paths!Distance(r)), Mounted(r)
  PROVE  /\ BaseOf(r) \in Seq(PathParts)
         /\ NamesOf(r, Paths!Distance(r)) \in Seq(PathParts)
         /\ Len(NamesOf(r, Paths!Distance(r))) = Paths!Distance(r)
         /\ Paths!TruePath(r) \in Seq(PathParts)
         /\ Paths!TruePath(r) # None
<1> DEFINE n == Paths!Distance(r)
<1>1. n \in Nat /\ Paths!Ancestor(r, n) \in DOMAIN rows
  BY DEF Reaches
<1>2. BaseOf(r) \in Seq(PathParts)
  <2>1. CASE rows[Paths!Ancestor(r, n)].given
    <3>1. rows[Paths!Ancestor(r, n)].name \in PathParts /\ "stated" \in PathParts
      BY <1>1, NamesAreParts DEF PathParts
    <3>2. BaseOf(r) = <<"stated", rows[Paths!Ancestor(r, n)].name>>
      BY <2>1 DEF BaseOf, Paths!Stated
    <3> QED
      BY <3>1, <3>2
  <2>2. CASE ~rows[Paths!Ancestor(r, n)].given
    BY <2>2, FilesAssumption DEF BaseOf, Mounted
  <2> QED
    BY <2>1, <2>2
<1>3. NamesOf(r, n) \in Seq(PathParts) /\ Len(NamesOf(r, n)) = n
  <2>1. \A j \in 1..n : n - j \in 0..n
    BY <1>1
  <2>2. \A j \in 1..n : rows[Paths!Ancestor(r, n - j)].name \in PathParts
    BY <2>1, WayHasRows, NamesAreParts
  <2> QED
    BY <1>1, <2>2 DEF NamesOf
<1>4. Paths!TruePath(r) \in Seq(PathParts)
  BY <1>2, <1>3, TruePathIs, PartsJoin
<1> QED
  BY <1>2, <1>3, <1>4, FilesAssumption

\* A path ends with the name of its row.
LEMMA PathEndsWithName ==
  ASSUME PathShape, PathsAreTrue, NEW r \in DOMAIN rows, path[r] # None
  PROVE  path[r][Len(path[r])] = rows[r].name
<1> DEFINE n == Paths!Distance(r)
<1>1. /\ Numbered /\ Reaches(r, n) /\ Mounted(r) /\ path[r] = BaseOf(r) \o NamesOf(r, n)
      /\ n = 0 => rows[r].given
  BY TruePathIs DEF PathShape, PathsAreTrue
<1>2. /\ BaseOf(r) \in Seq(PathParts) /\ NamesOf(r, n) \in Seq(PathParts)
      /\ Len(NamesOf(r, n)) = n /\ n \in Nat
  BY <1>1, PartsArePaths DEF Reaches
<1>3. Paths!Ancestor(r, 0) = r
  BY <1>1, AncestorSteps
<1>4. CASE n = 0
  <2>1. BaseOf(r) = <<"stated", rows[r].name>>
    BY <1>1, <1>3, <1>4 DEF BaseOf, Paths!Stated
  <2> HIDE DEF n
  <2>2. NamesOf(r, n) = <<>>
    BY <1>2, <1>4
  <2> QED
    BY <1>1, <2>1, <2>2
<1>5. CASE n # 0
  <2>1. NamesOf(r, n)[n] = rows[r].name
    BY <1>2, <1>3, <1>5 DEF NamesOf
  <2> HIDE DEF n
  <2> QED
    BY <1>1, <1>2, <1>5, <2>1
<1> QED
  BY <1>4, <1>5

LEMMA JournalPathsHold ==
  ASSUME PathShape, PathsAreTrue
  PROVE  Paths!JournalPathsAreTheirOwn
<1> SUFFICES ASSUME NEW record \in Journal, Paths!UsnPath(record) # None
             PROVE  \E i \in Paths!Candidates(record) :
                      rows[i].name = record.name /\ Paths!UsnPath(record) = path[i]
  BY DEF Paths!JournalPathsAreTheirOwn
<1> DEFINE paths == {path[i] : i \in {i \in Paths!Candidates(record) : path[i] # None}}
           named == {p \in paths : p[Len(p)] = record.name}
<1>1. /\ Cardinality(paths) = 1 /\ named = paths
      /\ Paths!UsnPath(record) = CHOOSE p \in paths : TRUE
  <2>1. Paths!Cardinality(paths) = Cardinality(paths)
    BY DEF Paths!Cardinality, Cardinality
  <2> QED
    BY <2>1 DEF Paths!UsnPath
<1>2. paths # {}
  <2> HIDE DEF paths
  <2>1. Cardinality({}) = 0
    BY FS_EmptySet
  <2> QED
    BY <1>1, <2>1
<1>3. Paths!UsnPath(record) \in paths
  <2> HIDE DEF paths, named
  <2> QED
    BY <1>1, <1>2
<1>4. PICK i \in Paths!Candidates(record) : path[i] # None /\ Paths!UsnPath(record) = path[i]
  BY <1>3
<1>5. path[i][Len(path[i])] = record.name
  BY <1>1, <1>3, <1>4
<1>6. i \in DOMAIN rows
  BY DEF Paths!Candidates
<1> QED
  BY <1>4, <1>5, <1>6, PathEndsWithName

-----------------------------------------------------------------------------
(***************************************************************************)
(* Resolve keeps the invariant.                                            *)
(***************************************************************************)

LEMMA PartsAssociate ==
  ASSUME NEW S, NEW s \in Seq(S), NEW t \in Seq(S), NEW u \in Seq(S)
  PROVE  s \o (t \o u) = (s \o t) \o u
OBVIOUS

\* The walk ends where a path is known, or at the root directory.
LEMMA EndIsMounted ==
  ASSUME PathShape, PathsAreTrue, OriginsAreTrue, NEW i \in DOMAIN rows, NEW t,
         IsTrail(t, i), Paths!Base(t) # None, NEW e, e = t[Len(t)]
  PROVE  /\ e \in DOMAIN rows
         /\ Reaches(e, Paths!Distance(e)) /\ Mounted(e)
         /\ Paths!Base(t) = Paths!TruePath(e)
         /\ \A n \in 0..Paths!Distance(e) : Paths!Ancestor(e, n) \in origin[e]
<1>1. e \in DOMAIN rows /\ Numbered /\ StatedHavePaths
  BY DEF IsTrail, PathShape
<1>2. CASE path[e] # None
  <2>1. Paths!Base(t) = path[e]
    BY <1>2 DEF Paths!Base
  <2> QED
    BY <1>1, <1>2, <2>1 DEF PathsAreTrue, OriginsAreTrue
<1>3. CASE path[e] = None
  <2>1. rows[e].rec = Paths!Root /\ Paths!Base(t) = Mount /\ Mount # None
    BY <1>3 DEF Paths!Base
  <2>2. ~rows[e].given
    BY <1>1, <1>3 DEF StatedHavePaths
  <2>3. Paths!Ancestor(e, 0) = e
    BY <1>1, AncestorSteps
  <2>4. Reaches(e, 0)
    BY <1>1, <2>1, <2>3 DEF Reaches, Paths!Begins
  <2>5. Paths!Distance(e) = 0
    BY <1>1, <2>4, DistanceIsReached
  <2>6. Paths!TruePath(e) = Mount \o NamesOf(e, 0)
    BY <2>2, <2>3, <2>5, TruePathIs DEF BaseOf
  <2>7. NamesOf(e, 0) = <<>>
    BY DEF NamesOf
  <2>8. Mount \o <<>> = Mount
    BY <2>1, FilesAssumption
  <2>9. Mounted(e)
    BY <2>1 DEF Mounted
  <2>10. \A n \in 0..Paths!Distance(e) : Paths!Ancestor(e, n) \in origin[e]
    BY <1>1, <2>3, <2>5 DEF PathShape
  <2> QED
    BY <1>1, <2>1, <2>4, <2>5, <2>6, <2>7, <2>8, <2>9, <2>10
<1> QED
  BY <1>2, <1>3

\* From there the rows of the walk have their paths.
LEMMA WalkedRowsHavePaths ==
  ASSUME PathShape, PathsAreTrue, OriginsAreTrue, NEW i \in DOMAIN rows, NEW t,
         IsTrail(t, i), Paths!Base(t) # None, NEW k \in 1..Len(t) - 1, NEW r, r = t[k]
  PROVE  /\ r \in DOMAIN rows
         /\ Reaches(r, Paths!Distance(r)) /\ Mounted(r) /\ Paths!Distance(r) # 0
         /\ Paths!TruePath(r) = Paths!Base(t) \o Paths!NamesUpTo(t, k)
         /\ Paths!TruePath(r) # None
         /\ \A n \in 0..Paths!Distance(r) :
              \E j \in k..Len(t) : Paths!Ancestor(r, n) \in origin[t[j]]
<1> DEFINE e == t[Len(t)]
           d == Len(t) - k
           m == Paths!Distance(e)
<1>1. /\ e \in DOMAIN rows /\ Reaches(e, m) /\ Mounted(e) /\ Paths!Base(t) = Paths!TruePath(e)
      /\ \A n \in 0..m : Paths!Ancestor(e, n) \in origin[e]
  BY EndIsMounted
<1>2. /\ Numbered /\ Len(t) \in Nat \ {0} /\ r \in DOMAIN rows /\ d \in Nat \ {0} /\ m \in Nat
      /\ \A q \in 1..Len(t) : t[q] \in DOMAIN rows
  BY <1>1 DEF PathShape, IsTrail, Reaches
<1>3. ASSUME NEW n \in 0..d
      PROVE  Paths!Ancestor(r, n) = t[k + n]
  <2>1. k + n \in 1..Len(t) /\ k <= k + n /\ (k + n) - k = n /\ k \in 1..Len(t)
    BY <1>2
  <2> QED
    <3>1. \A a, b \in 1..Len(t) : a <= b => t[b] = Paths!Ancestor(t[a], b - a)
      BY <1>2, TrailClimbs DEF PathShape
    <3> QED
      BY <2>1, <3>1
<1>4. Paths!Ancestor(r, d) = e
  <2>1. d \in 0..d /\ k + d = Len(t)
    BY <1>2
  <2> QED
    BY <1>3, <2>1
<1>5. \A n \in Nat : Paths!Ancestor(r, d + n) = Paths!Ancestor(e, n)
  BY <1>1, <1>2, <1>4, AncestorFurther
<1>6. Reaches(r, d + m)
  <2>1. Paths!Ancestor(r, d + m) = Paths!Ancestor(e, m) /\ d + m \in Nat
    BY <1>2, <1>5
  <2> QED
    BY <1>1, <2>1 DEF Reaches
<1>7. Paths!Distance(r) = d + m
  BY <1>2, <1>6, DistanceIsReached
<1>8. Paths!Ancestor(r, Paths!Distance(r)) = Paths!Ancestor(e, m)
  BY <1>2, <1>5, <1>7
<1>9. Mounted(r) /\ BaseOf(r) = BaseOf(e)
  BY <1>1, <1>8 DEF Mounted, BaseOf
<1> HIDE DEF e, d, m
<1>10. NamesOf(r, d + m) = NamesOf(e, m) \o Paths!NamesUpTo(t, k)
  <2>1. Paths!NamesUpTo(t, k) = [j \in 1..d |-> rows[t[Len(t) - j]].name]
    BY DEF Paths!NamesUpTo, d
  <2>2. ASSUME NEW j \in 1..m
        PROVE  Paths!Ancestor(r, (d + m) - j) = Paths!Ancestor(e, m - j)
    <3>1. m - j \in Nat /\ d + (m - j) = (d + m) - j
      BY <1>2
    <3> QED
      BY <1>5, <3>1
  <2>3. ASSUME NEW j \in 1..d
        PROVE  Paths!Ancestor(r, (d + m) - (m + j)) = t[Len(t) - j]
    <3>1. (d + m) - (m + j) = d - j /\ d - j \in 0..d /\ k + (d - j) = Len(t) - j
      BY <1>2 DEF d
    <3> QED
      BY <1>3, <3>1
  <2> DEFINE a == NamesOf(e, m)
             b == Paths!NamesUpTo(t, k)
             c == NamesOf(r, d + m)
  <2>4. a \in Seq(PathParts) /\ Len(a) = m /\ \A j \in 1..m : a[j] = rows[Paths!Ancestor(e, m - j)].name
    BY <1>1, <1>2, PartsArePaths DEF m, NamesOf
  <2>5. b \in Seq(PathParts) /\ Len(b) = d /\ \A j \in 1..d : b[j] = rows[t[Len(t) - j]].name
    <3>1. \A j \in 1..d : Len(t) - j \in 1..Len(t)
      BY <1>2 DEF d
    <3>2. \A j \in 1..d : rows[t[Len(t) - j]].name \in PathParts
      BY <1>2, <3>1, NamesAreParts
    <3> QED
      BY <1>2, <2>1, <3>2
  <2>6. /\ c \in Seq(PathParts) /\ Len(c) = d + m
        /\ \A j \in 1..d + m : c[j] = rows[Paths!Ancestor(r, (d + m) - j)].name
    BY <1>2, <1>6, <1>7, <1>9, PartsArePaths DEF NamesOf
  <2> HIDE DEF a, b, c
  <2>7. \A j \in 1..m : c[j] = a[j]
    <3>1. \A j \in 1..m : j \in 1..d + m
      BY <1>2
    <3> QED
      BY <2>2, <2>4, <2>6, <3>1
  <2>8. \A j \in 1..d : c[m + j] = b[j]
    <3>1. \A j \in 1..d : m + j \in 1..d + m
      BY <1>2
    <3> QED
      BY SMTT(60), <2>3, <2>5, <2>6, <3>1
  <2>9. c = a \o b
    <3>1. /\ a \o b \in Seq(PathParts) /\ Len(a \o b) = m + d /\ m + d = d + m
          /\ \A j \in 1..m : (a \o b)[j] = a[j]
          /\ \A j \in 1..d : (a \o b)[m + j] = b[j]
      <4>1. m + d = d + m
        BY <1>2
      <4>2. a \in Seq(PathParts) /\ b \in Seq(PathParts)
        BY <2>4, <2>5
      <4>3. /\ a \o b \in Seq(PathParts) /\ Len(a \o b) = Len(a) + Len(b)
            /\ \A j \in 1..Len(a) : (a \o b)[j] = a[j]
            /\ \A j \in 1..Len(b) : (a \o b)[Len(a) + j] = b[j]
        BY <4>2, PartsJoin
      <4>4. Len(a) = m /\ Len(b) = d
        BY <2>4, <2>5
      <4> QED
        BY <4>1, <4>3, <4>4
    <3>2. ASSUME NEW j \in 1..d + m
          PROVE  c[j] = (a \o b)[j]
      <4>1. CASE j \in 1..m
        BY <2>7, <3>1, <4>1
      <4>2. CASE j \notin 1..m
        <5>1. j - m \in 1..d /\ m + (j - m) = j
          BY <1>2, <4>2
        <5> QED
          BY <2>8, <3>1, <5>1
      <4> QED
        BY <4>1, <4>2
    <3>3. c \in Seq(PathParts) /\ Len(c) = d + m
      BY <2>6
    <3> QED
      BY <3>1, <3>2, <3>3, PartsAgree
  <2> QED
    BY <2>9 DEF a, b, c
<1>11. Paths!TruePath(r) = Paths!Base(t) \o Paths!NamesUpTo(t, k)
  <2>1. BaseOf(e) \in Seq(PathParts) /\ NamesOf(e, m) \in Seq(PathParts)
    BY <1>1, <1>2, PartsArePaths DEF m
  <2>2. Paths!NamesUpTo(t, k) \in Seq(PathParts)
    <3>1. \A j \in 1..Len(t) - k : Len(t) - j \in 1..Len(t)
      BY <1>2
    <3>2. \A j \in 1..Len(t) - k : rows[t[Len(t) - j]].name \in PathParts
      BY <1>2, <3>1, NamesAreParts
    <3>3. Len(t) - k \in Nat
      BY <1>2
    <3> QED
      BY <3>2, <3>3 DEF Paths!NamesUpTo
  <2>3. Paths!TruePath(r) = BaseOf(e) \o NamesOf(r, d + m)
    BY <1>7, <1>9, TruePathIs
  <2>4. Paths!Base(t) = BaseOf(e) \o NamesOf(e, m)
    BY <1>1, TruePathIs DEF m
  <2> QED
    <3> DEFINE a == NamesOf(e, m)
               b == Paths!NamesUpTo(t, k)
    <3>1. BaseOf(e) \o (a \o b) = (BaseOf(e) \o a) \o b
      <4> HIDE DEF a, b
      <4>1. a \in Seq(PathParts) /\ b \in Seq(PathParts)
        BY <2>1, <2>2 DEF a, b
      <4> QED
        BY SMTT(60), <2>1, <4>1, PartsAssociate
    <3>2. NamesOf(r, d + m) = a \o b
      BY <1>10
    <3> HIDE DEF a, b
    <3>3. Paths!Base(t) = BaseOf(e) \o a
      BY <2>4 DEF a
    <3>4. Paths!TruePath(r) = Paths!Base(t) \o b
      BY <2>3, <3>1, <3>2, <3>3
    <3> QED
      BY <3>4 DEF b
<1>12. ASSUME NEW n \in 0..Paths!Distance(r)
       PROVE  \E j \in k..Len(t) : Paths!Ancestor(r, n) \in origin[t[j]]
  <2>1. CASE n <= d
    <3>1. n \in 0..d /\ k + n \in k..Len(t) /\ k + n \in 1..Len(t)
      BY <1>2, <1>7, <2>1 DEF d
    <3>2. t[k + n] \in origin[t[k + n]]
      BY <1>2, <3>1 DEF PathShape
    <3> QED
      BY <1>3, <3>1, <3>2
  <2>2. CASE n > d
    <3>1. n - d \in 0..m /\ n - d \in Nat /\ d + (n - d) = n /\ Len(t) \in k..Len(t)
      BY <1>2, <1>7, <2>2
    <3>2. Paths!Ancestor(r, n) = Paths!Ancestor(e, n - d)
      BY <1>5, <3>1
    <3> QED
      BY <1>1, <3>1, <3>2 DEF e
  <2> QED
    BY <1>2, <1>7, <2>1, <2>2
<1>13. Reaches(r, Paths!Distance(r)) /\ Paths!Distance(r) # 0
  BY <1>2, <1>6, <1>7
<1>14. Paths!TruePath(r) # None
  BY <1>2, <1>9, <1>13, PartsArePaths
<1> QED
  BY <1>2, <1>9, <1>11, <1>12, <1>13, <1>14

\* A row in reach is found to have a path.
LEMMA WalkFindsPath ==
  ASSUME PathShape, NEW i \in DOMAIN rows, InReach(i), path[i] = None, NEW t, IsTrail(t, i),
         Len(t) <= Depth + 2, Len(t) = Depth + 2 \/ ~GoesOn(t, Len(t))
  PROVE  Paths!Base(t) # None /\ Len(t) > 1
<1> DEFINE n == Paths!Distance(i)
           L == Len(t)
           e == t[L]
<1>1. /\ Numbered /\ StatedHavePaths /\ n \in Nat /\ n > 0 /\ n <= Depth /\ Reaches(i, n)
      /\ L \in Nat \ {0} /\ Depth \in Nat /\ e \in DOMAIN rows
  BY DistanceIsReached, FilesAssumption DEF PathShape, InReach, IsTrail, Reaches
<1>2. \A k \in 1..L : t[k] = Paths!Ancestor(i, k - 1)
  BY <1>1, TrailClimbs
<1>3. L <= n + 1
  <2> SUFFICES ASSUME L > n + 1 PROVE FALSE
    BY <1>1
  <2>1. n + 1 \in 1..L - 1 /\ n + 1 \in 1..L /\ (n + 1) - 1 = n
    BY <1>1
  <2>2. GoesOn(t, n + 1) /\ t[n + 1] = Paths!Ancestor(i, n)
    BY <1>2, <2>1 DEF IsTrail
  <2> QED
    BY <1>1, <2>2 DEF GoesOn, Reaches, Paths!Begins, StatedHavePaths
<1>4. ~GoesOn(t, L) /\ L - 1 <= Depth
  BY <1>1, <1>3
<1>5. Paths!Reference(e) \notin {Paths!Reference(t[j]) : j \in 1..L - 1}
  <2> SUFFICES ASSUME NEW j \in 1..L - 1, Paths!Reference(t[j]) = Paths!Reference(e) PROVE FALSE
    OBVIOUS
  <2>1. /\ j - 1 \in 0..n /\ L - 1 \in 0..n /\ j - 1 # L - 1
        /\ t[j] = Paths!Ancestor(i, j - 1) /\ e = Paths!Ancestor(i, L - 1)
    BY <1>1, <1>2, <1>3
  <2> DEFINE refs == {Paths!Reference(Paths!Ancestor(i, k)) : k \in 0..n}
             f == [k \in 0..n |-> Paths!Reference(Paths!Ancestor(i, k))]
  <2>2. Paths!Cardinality(refs) = n + 1
    BY DEF InReach, Paths!Simple
  <2>3. Cardinality(refs) = n + 1
    BY <2>2 DEF Paths!Cardinality, Cardinality
  <2>4. IsFiniteSet(0..n) /\ Cardinality(0..n) = n + 1
    <3>1. n \in Int /\ ~(0 > n) /\ n - 0 + 1 = n + 1
      BY <1>1
    <3> HIDE DEF n
    <3>2. IsFiniteSet(0..n) /\ Cardinality(0..n) = IF 0 > n THEN 0 ELSE n - 0 + 1
      BY <3>1, FS_Interval
    <3> QED
      BY <3>1, <3>2
  <2>5. f \in Surjection(0..n, refs)
    BY DEF Surjection
  <2>6. f \in Injection(0..n, refs)
    <3> HIDE DEF f, refs, n
    <3> QED
      BY <2>3, <2>4, <2>5, FS_SurjSameCardinalityImpliesInj
  <2>7. f[j - 1] # f[L - 1]
    <3> HIDE DEF f, refs, n
    <3> QED
      BY <2>1, <2>6 DEF Injection, IsInjective
  <2> QED
    BY <2>1, <2>7
<1>6. ASSUME path[e] = None
      PROVE  L - 1 = n
  <2> SUFFICES ASSUME L - 1 # n PROVE FALSE
    OBVIOUS
  <2>1. L \in 0..n /\ L - 1 \in Nat /\ (L - 1) + 1 = L /\ e = Paths!Ancestor(i, L - 1)
    BY <1>1, <1>2, <1>3
  <2>2. Paths!Ancestor(i, L) \in DOMAIN rows
    BY <1>1, <2>1, WayHasRows
  <2>3. Paths!Ancestor(i, L) = Paths!Above(e)
    BY <1>1, <2>1, AncestorSteps
  <2>4. ~Paths!Begins(e) /\ Paths!Parent(e) = Paths!Above(e)
    BY <1>1, <2>2, <2>3, RowsAreNumbered DEF Paths!Above, Paths!Parent
  <2>5. GoesOn(t, L)
    BY <1>1, <1>5, <1>6, <2>2, <2>3, <2>4, RowsAreNumbered DEF GoesOn, Paths!Begins
  <2> QED
    BY <1>4, <2>5
<1>7. CASE path[e] # None
  <2>1. L > 1
    BY <1>1, <1>7 DEF IsTrail
  <2>2. Paths!Base(t) = path[e]
    BY <1>7 DEF Paths!Base
  <2> QED
    BY <1>7, <2>1, <2>2
<1>8. CASE path[e] = None
  <2>1. L - 1 = n /\ e = Paths!Ancestor(i, n)
    BY <1>1, <1>2, <1>6, <1>8
  <2>2. rows[e].rec = Paths!Root /\ ~rows[e].given
    BY <1>1, <1>8, <2>1 DEF Reaches, Paths!Begins, StatedHavePaths
  <2>3. Mount # None
    BY <2>1, <2>2 DEF InReach, Mounted
  <2>4. Paths!Base(t) = Mount
    <3>1. ~(L - 1 > Depth)
      BY <1>1, <1>4
    <3> QED
      BY <1>5, <1>8, <2>2, <3>1 DEF Paths!Base
  <2> QED
    BY <1>1, <2>1, <2>3, <2>4
<1> QED
  BY <1>7, <1>8

\* What is told by the rows alone stays.
LEMMA RowsTellTheSame ==
  ASSUME rows' = rows
  PROVE  /\ \A r, n : Paths!Ancestor(r, n)' = Paths!Ancestor(r, n)
         /\ \A r : Paths!Distance(r)' = Paths!Distance(r)
         /\ \A r : Reaches(r, Paths!Distance(r))' = Reaches(r, Paths!Distance(r))
         /\ \A r : Mounted(r)' = Mounted(r)
         /\ \A r : Paths!TruePath(r)' = Paths!TruePath(r)
         /\ \A r : InReach(r)' = InReach(r)
<1>1. \A r, n : Paths!Ancestor(r, n)' = Paths!Ancestor(r, n)
  BY DEF Paths!Ancestor, Paths!Above, Paths!Begins, Paths!Lookup, Paths!Reference
<1>2. \A r : Paths!Distance(r)' = Paths!Distance(r)
  BY <1>1 DEF Paths!Distance, Paths!Begins
<1>3. \A r : Reaches(r, Paths!Distance(r))' = Reaches(r, Paths!Distance(r))
  BY <1>1, <1>2 DEF Reaches, Paths!Begins
<1>4. \A r : Mounted(r)' = Mounted(r)
  BY <1>1, <1>2 DEF Mounted
<1>5. ASSUME NEW r
      PROVE  Paths!TruePath(r)' = Paths!TruePath(r)
  <2>1. BaseOf(r)' = BaseOf(r)
    BY <1>1, <1>2 DEF BaseOf, Paths!Stated
  <2>2. ASSUME NEW n
        PROVE  NamesOf(r, n)' = NamesOf(r, n)
    BY <1>1 DEF NamesOf
  <2>3. Paths!TruePath(r) = BaseOf(r) \o NamesOf(r, Paths!Distance(r))
    BY TruePathIs
  <2>4. Paths!TruePath(r)' = BaseOf(r)' \o NamesOf(r, Paths!Distance(r))'
    BY DEF Paths!TruePath, BaseOf, NamesOf
  <2>5. NamesOf(r, Paths!Distance(r))' = NamesOf(r, Paths!Distance(r))
    BY <1>1, <1>2 DEF NamesOf
  <2> QED
    BY <2>1, <2>3, <2>4, <2>5
<1>6. \A r : Paths!Simple(r)' = Paths!Simple(r)
  BY <1>1, <1>2 DEF Paths!Simple, Paths!Reference
<1>7. \A r : InReach(r)' = InReach(r)
  BY <1>2, <1>4, <1>6 DEF InReach
<1> QED
  BY <1>1, <1>2, <1>3, <1>4, <1>5, <1>7

LEMMA PathsInitHolds == Paths!Init => PathsInv
<1> SUFFICES ASSUME Paths!Init PROVE PathsInv
  OBVIOUS
<1>1. /\ Numbered /\ pending = DOMAIN rows
      /\ path = [r \in DOMAIN rows |-> IF rows[r].given THEN Paths!Stated(r) ELSE None]
      /\ origin = [r \in DOMAIN rows |-> {r}]
  BY DEF Paths!Init, Numbered
<1>2. \A r \in DOMAIN rows : Paths!Stated(r) # None
  <2> SUFFICES ASSUME NEW r \in DOMAIN rows PROVE Paths!Stated(r) # None
    OBVIOUS
  <2>1. rows[r].name \in PathParts /\ "stated" \in PathParts
    BY <1>1, NamesAreParts DEF PathParts
  <2>2. Paths!Stated(r) \in Seq(PathParts)
    BY <2>1 DEF Paths!Stated
  <2> QED
    BY <2>2, FilesAssumption
<1>3. PathShape
  BY <1>1, <1>2 DEF PathShape, StatedHavePaths
<1>4. ASSUME NEW r \in DOMAIN rows, path[r] # None
      PROVE  /\ Reaches(r, 0) /\ Paths!Distance(r) = 0 /\ Mounted(r) /\ rows[r].given
             /\ path[r] = Paths!TruePath(r) /\ Paths!Ancestor(r, 0) = r
  <2>1. rows[r].given /\ path[r] = Paths!Stated(r) /\ Paths!Ancestor(r, 0) = r
    BY <1>1, <1>4, AncestorSteps
  <2>2. Reaches(r, 0)
    BY <2>1 DEF Reaches, Paths!Begins
  <2>3. Paths!Distance(r) = 0
    BY <1>1, <2>2, DistanceIsReached
  <2>4. Paths!TruePath(r) = <<"stated", rows[r].name>> \o NamesOf(r, 0)
    BY <2>1, <2>3, TruePathIs DEF BaseOf, Paths!Stated
  <2>5. NamesOf(r, 0) = <<>>
    BY DEF NamesOf
  <2>6. <<"stated", rows[r].name>> \o <<>> = <<"stated", rows[r].name>>
    OBVIOUS
  <2> QED
    BY <2>1, <2>2, <2>3, <2>4, <2>5, <2>6 DEF Mounted, Paths!Stated
<1>5. PathsAreTrue
  BY <1>4 DEF PathsAreTrue
<1>6. OriginsAreTrue
  BY <1>1, <1>4 DEF OriginsAreTrue
<1> QED
  BY <1>1, <1>3, <1>5, <1>6 DEF PathsInv, ResolvedHavePaths

LEMMA ResolveHolds ==
  ASSUME PathsInv, NEW i \in DOMAIN rows, Paths!Resolve(i)
  PROVE  PathsInv'
<1> DEFINE t == Paths!Walk(i)
           named == {k \in 1..Len(t) - 1 : Paths!Base(t) # None}
<1>1. PathShape /\ PathsAreTrue /\ OriginsAreTrue /\ Numbered
  BY DEF PathsInv, PathShape
<1>2. /\ IsTrail(t, i) /\ Len(t) <= Depth + 2
      /\ Len(t) = Depth + 2 \/ ~GoesOn(t, Len(t))
  BY <1>1, WalkIsTrail
<1>3. /\ rows' = rows /\ pending' = pending \ {i}
      /\ path' = [r \in DOMAIN rows |->
                    IF \E k \in named : t[k] = r
                    THEN Paths!Base(t) \o Paths!NamesUpTo(t, CHOOSE k \in named : t[k] = r)
                    ELSE path[r]]
      /\ origin' = IF named = {} THEN origin ELSE Paths!ProvenanceAlong(t)
  BY DEF Paths!Resolve
<1> HIDE DEF t
<1>4. Len(t) \in Nat \ {0} /\ \A k \in 1..Len(t) : t[k] \in DOMAIN rows
  BY <1>2 DEF IsTrail
<1>5. ASSUME NEW k \in named
      PROVE  /\ t[k] \in DOMAIN rows
             /\ Reaches(t[k], Paths!Distance(t[k])) /\ Mounted(t[k]) /\ Paths!Distance(t[k]) # 0
             /\ path'[t[k]] = Paths!TruePath(t[k])
             /\ Paths!TruePath(t[k]) # None
             /\ \A n \in 0..Paths!Distance(t[k]) :
                  \E j \in k..Len(t) : Paths!Ancestor(t[k], n) \in origin[t[j]]
  <2>1. k \in 1..Len(t) - 1 /\ Paths!Base(t) # None
    OBVIOUS
  <2>2. /\ t[k] \in DOMAIN rows
        /\ Reaches(t[k], Paths!Distance(t[k])) /\ Mounted(t[k]) /\ Paths!Distance(t[k]) # 0
        /\ Paths!TruePath(t[k]) = Paths!Base(t) \o Paths!NamesUpTo(t, k)
        /\ Paths!TruePath(t[k]) # None
        /\ \A n \in 0..Paths!Distance(t[k]) :
             \E j \in k..Len(t) : Paths!Ancestor(t[k], n) \in origin[t[j]]
    BY <1>1, <1>2, <2>1, WalkedRowsHavePaths
  <2>3. (CHOOSE j \in named : t[j] = t[k]) = k
    <3>1. \A j \in named : t[j] = t[k] => j = k
      BY <1>2, TrailDistinct
    <3> HIDE DEF named
    <3> QED
      BY <3>1
  <2>4. path'[t[k]] = Paths!Base(t) \o Paths!NamesUpTo(t, k)
    BY <1>3, <2>2, <2>3
  <2> QED
    BY <2>2, <2>4
<1>6. \A r \in DOMAIN rows : (\A k \in named : t[k] # r) => path'[r] = path[r]
  BY <1>3
<1>7. /\ \A r \in DOMAIN rows : origin[r] \subseteq origin'[r] /\ origin'[r] \subseteq DOMAIN rows
      /\ \A k \in named : \A j \in k..Len(t) : origin[t[j]] \subseteq origin'[t[k]]
      /\ origin' = [r \in DOMAIN rows |-> origin'[r]]
  <2>1. CASE named = {}
    <3>1. origin' = origin
      BY <1>3, <2>1
    <3> HIDE DEF named
    <3> QED
      BY <1>1, <2>1, <3>1 DEF PathShape
  <2>2. CASE named # {}
    <3>1. origin' = [r \in DOMAIN rows |->
                       origin[r] \cup UNION { UNION {origin[t[j]] : j \in k..Len(t)} :
                                              k \in {k \in 1..Len(t) - 1 : t[k] = r} }]
      BY <1>3, <2>2 DEF Paths!ProvenanceAlong
    <3>2. \A k \in 1..Len(t) - 1 : \A j \in k..Len(t) :
            j \in 1..Len(t) /\ origin[t[j]] \subseteq DOMAIN rows
      BY <1>1, <1>4 DEF PathShape
    <3>3. ASSUME NEW r \in DOMAIN rows
          PROVE  origin[r] \subseteq origin'[r] /\ origin'[r] \subseteq DOMAIN rows
      BY <1>1, <3>1, <3>2 DEF PathShape
    <3>4. ASSUME NEW k \in named, NEW j \in k..Len(t)
          PROVE  origin[t[j]] \subseteq origin'[t[k]]
      <4>1. k \in 1..Len(t) - 1 /\ t[k] \in DOMAIN rows
        BY <1>5
      <4>2. UNION {origin[t[l]] : l \in k..Len(t)} \subseteq origin'[t[k]]
        BY <3>1, <4>1
      <4> QED
        BY <4>2
    <3>5. origin' = [r \in DOMAIN rows |-> origin'[r]]
      BY <3>1
    <3> QED
      BY <3>3, <3>4, <3>5
  <2> QED
    BY <2>1, <2>2
<1>8. path' = [r \in DOMAIN rows |-> path'[r]]
  BY <1>3
<1> HIDE DEF named
<1>9. \A r \in DOMAIN rows : path[r] # None => path'[r] # None
  BY <1>5, <1>6
<1>10. PathShape'
  BY <1>1, <1>3, <1>7, <1>8, <1>9 DEF PathShape, Numbered, StatedHavePaths
<1>11. PathsAreTrue'
  <2> SUFFICES ASSUME NEW r \in DOMAIN rows, path'[r] # None
               PROVE  /\ Reaches(r, Paths!Distance(r)) /\ Mounted(r)
                      /\ path'[r] = Paths!TruePath(r)
                      /\ Paths!Distance(r) = 0 => rows[r].given
    BY SMTT(60), <1>3, RowsTellTheSame DEF PathsAreTrue
  <2>1. CASE \E k \in named : t[k] = r
    BY <1>5, <2>1
  <2>2. CASE \A k \in named : t[k] # r
    BY <1>1, <1>6, <2>2 DEF PathsAreTrue
  <2> QED
    BY <2>1, <2>2
<1>12. OriginsAreTrue'
  <2> SUFFICES ASSUME NEW r \in DOMAIN rows, path'[r] # None, NEW n \in 0..Paths!Distance(r)
               PROVE  Paths!Ancestor(r, n) \in origin'[r]
    BY <1>3, RowsTellTheSame DEF OriginsAreTrue
  <2>1. CASE \E k \in named : t[k] = r
    <3>1. PICK k \in named : t[k] = r
      BY <2>1
    <3>2. PICK j \in k..Len(t) : Paths!Ancestor(r, n) \in origin[t[j]]
      BY <1>5, <3>1
    <3> QED
      BY <1>7, <3>1, <3>2
  <2>2. CASE \A k \in named : t[k] # r
    BY <1>1, <1>6, <1>7, <2>2 DEF OriginsAreTrue
  <2> QED
    BY <2>1, <2>2
<1>13. ResolvedHavePaths'
  <2> SUFFICES ASSUME NEW r \in DOMAIN rows \ (pending \ {i}), InReach(r)
               PROVE  path'[r] # None
    BY <1>3, RowsTellTheSame DEF ResolvedHavePaths
  <2>1. CASE path[r] # None
    BY <1>9, <2>1
  <2>2. CASE path[r] = None
    <3>1. r = i
      BY <2>2 DEF PathsInv, ResolvedHavePaths
    <3>2. Paths!Base(t) # None /\ Len(t) > 1
      BY <1>1, <1>2, <2>2, <3>1, WalkFindsPath
    <3>3. 1 \in named /\ t[1] = i
      BY <1>2, <1>4, <3>2 DEF named, IsTrail
    <3> QED
      BY <1>5, <3>1, <3>3
  <2> QED
    BY <2>1, <2>2
<1> QED
  BY <1>10, <1>11, <1>12, <1>13 DEF PathsInv

LEMMA PathsStepHolds ==
  ASSUME PathsInv, Paths!Next \/ UNCHANGED Paths!vars
  PROVE  PathsInv'
<1>1. CASE Paths!Next
  BY <1>1, ResolveHolds DEF Paths!Next
<1>2. CASE UNCHANGED Paths!vars
  <2>1. UNCHANGED <<rows, path, origin, pending>>
    BY <1>2 DEF Paths!vars
  <2>2. PathShape'
    BY <2>1 DEF PathsInv, PathShape, Numbered, StatedHavePaths
  <2>3. PathsAreTrue'
    BY <2>1, RowsTellTheSame DEF PathsInv, PathsAreTrue
  <2>4. OriginsAreTrue'
    BY <2>1, RowsTellTheSame DEF PathsInv, OriginsAreTrue
  <2>5. ResolvedHavePaths'
    BY <2>1, RowsTellTheSame DEF PathsInv, ResolvedHavePaths
  <2> QED
    BY <2>2, <2>3, <2>4, <2>5 DEF PathsInv
<1> QED
  BY <1>1, <1>2

LEMMA PathsHold == PathsInv => Paths!TypeOK /\ Paths!PathsAreRecorded
<1> SUFFICES ASSUME PathsInv PROVE Paths!TypeOK /\ Paths!PathsAreRecorded
  OBVIOUS
<1>1. Paths!TypeOK
  BY DEF PathsInv, PathShape, Paths!TypeOK
<1>2. Paths!PathsFollowReferences
  <2> SUFFICES ASSUME NEW r \in DOMAIN rows, path[r] # None
               PROVE  Paths!Distance(r) # None /\ path[r] = Paths!TruePath(r)
    BY DEF Paths!PathsFollowReferences
  <2>1. Reaches(r, Paths!Distance(r)) /\ path[r] = Paths!TruePath(r) /\ Numbered
    BY DEF PathsInv, PathsAreTrue, PathShape
  <2>2. Paths!Distance(r) \in 0..Len(rows)
    BY <2>1, WayIsShort, RowsAreNumbered DEF Reaches
  <2> QED
    BY <2>1, <2>2, RowsAreNumbered
<1>3. Paths!RowsInReachHavePaths
  BY DEF PathsInv, ResolvedHavePaths, InReach, Mounted, Paths!RowsInReachHavePaths
<1>4. Paths!NamesHaveProvenance
  BY DEF PathsInv, OriginsAreTrue, Paths!NamesHaveProvenance
<1> QED
  BY <1>1, <1>2, <1>3, <1>4 DEF Paths!PathsAreRecorded

-----------------------------------------------------------------------------
(***************************************************************************)
(* The theorems.                                                           *)
(***************************************************************************)

\* The invariant of the adapter that is at work.
Inv == /\ kind = "disk" => DiskInv /\ DiskCounts
       /\ kind = "paths" => PathsInv
       /\ kind = "memory" => MemoryInv
       /\ kind = "pcap" => PcapInv

LEMMA InvHolds == Spec => []Inv
<1>1. Init => Inv
  BY DiskInitHolds, DiskInitCounts, PathsInitHolds, MemoryInitHolds, PcapInitHolds
  DEF Init, Inv
<1>2. Inv /\ [Next]_vars => Inv'
  <2> SUFFICES ASSUME Inv, [Next]_vars PROVE Inv'
    OBVIOUS
  <2>1. CASE UNCHANGED vars
    <3>1. /\ kind' = kind
          /\ UNCHANGED Disk!vars /\ UNCHANGED Paths!vars
          /\ UNCHANGED Memory!vars /\ UNCHANGED Pcap!vars
      BY <2>1 DEF vars, diskVars, pathVars, memoryVars, pcapVars,
                  Disk!vars, Paths!vars, Memory!vars, Pcap!vars
    <3> QED
      BY <3>1, DiskStepHolds, DiskStepCounts, PathsStepHolds, MemoryStepHolds,
         PcapStepHolds
      DEF Inv
  <2>2. CASE Next
    <3>1. kind' = kind
      BY <2>2 DEF Next
    <3>2. kind = "disk" => Disk!Next
      BY <2>2 DEF Next
    <3>3. kind = "paths" => Paths!Next
      BY <2>2 DEF Next
    <3>4. kind = "memory" => Memory!Next
      BY <2>2 DEF Next
    <3>5. kind = "pcap" => Pcap!Next
      BY <2>2 DEF Next
    <3> QED
      BY <3>1, <3>2, <3>3, <3>4, <3>5,
         DiskStepHolds, DiskStepCounts, PathsStepHolds, MemoryStepHolds, PcapStepHolds
      DEF Inv
  <2> QED
    BY <2>1, <2>2
<1> QED
  BY <1>1, <1>2, PTL DEF Spec

\* All events of an image run that ended with SUCCESS were read from the image as
\* it was hashed, whenever others wrote to it (load_file).
THEOREM ImagesAreReadAsHashed == Spec => []CompletedExtractionsMatchTheImage
<1>1. Inv => CompletedExtractionsMatchTheImage
  BY DEF Inv, DiskInv, CompletedExtractionsMatchTheImage
<1> QED
  BY <1>1, InvHolds, PTL

\* Whatever the image, the volumes and kinds asked for and the artifacts that fail:
\* when the image run ended with SUCCESS each artifact that was due has its run, and
\* each run that succeeded its event in the case (load_file).
THEOREM FailuresStayConfined == Spec => []FailuresAreConfined
<1>1. Inv => FailuresAreConfined
  BY ConfinedIs DEF Inv, DiskCounts, FailuresAreConfined
<1> QED
  BY <1>1, InvHolds, PTL

\* A USN record is named by MFT records of its own volume only, also when
\* volumes share a serial number or are given one identifier; and of the names
\* of its file it takes its own (load_file, _usn).
THEOREM NamesDoNotCross == Spec => []JournalNamesAreTheirOwn
<1>1. Inv => JournalNamesAreTheirOwn
  <2>1. DiskInv => Disk!NamesStayInTheirVolume
    BY DEF DiskInv, Named, NamedByOwn, Disk!NamesStayInTheirVolume
  <2>2. PathsInv => Paths!JournalPathsAreTheirOwn
    BY JournalPathsHold DEF PathsInv
  <2> QED
    BY <2>1, <2>2 DEF Inv, JournalNamesAreTheirOwn
<1> QED
  BY <1>1, InvHolds, PTL

\* For every MFT, in whatever order its rows are resolved: a path is the chain of
\* recorded parents up to the root or to a stated path, every row within the depth
\* bound has one, and carries the provenance of the rows it is made of
\* (_resolve_mft).
THEOREM PathsAreResolved == Spec => []PathsAreRecorded
<1>1. Inv => PathsAreRecorded
  BY PathsHold DEF Inv, PathsAreRecorded
<1> QED
  BY <1>1, InvHolds, PTL

\* However many imports recover the bodies of one capture at once, and whenever
\* they are killed: no event names a file without all its bytes, and an import
\* that leaves a body out says so (_recover_body, _packet).
THEOREM BodiesAreRecovered == Spec => []BodiesAreAccountedFor
<1>1. Inv => BodiesAreAccountedFor
  BY ShapesAreTyped, BodiesAreWhole, LossesAreReported
  DEF Inv, BodiesAreAccountedFor, Pcap!BodiesAreAccountedFor
<1> QED
  BY <1>1, InvHolds, PTL

\* Whatever packets a capture has, in whatever order: a flow has those of one
\* conversation, and their first and last time (_packet, _flow).
THEOREM FlowsAreRight == Spec => []FlowsMatchPackets
<1>1. Inv => FlowsMatchPackets
  BY ShapesAreTyped, FlowsConverse, FlowsSpan
  DEF Inv, FlowsMatchPackets, Pcap!FlowsMatchPackets
<1> QED
  BY <1>1, InvHolds, PTL

\* For every list of exports: the rows behind the events of an import are those of
\* the exports it reports as successful, and no others (load_exports).
THEOREM EventsComeFromSuccesses == Spec => []RunsAgreeWithEvents
<1>1. Inv => RunsAgreeWithEvents
  BY RunsAgree DEF Inv, RunsAgreeWithEvents
<1> QED
  BY <1>1, InvHolds, PTL

\* Processes that used one PID after another stay apart, their parents and owners
\* lived at the time, and a scan is taken for a listed process, or for a hidden
\* one, only if the rows say so (_processes, _parent, _owner, convert, _comparisons).
THEOREM ProcessesAreTold == Spec => []ProcessesAreToldApart
<1>1. Inv => ProcessesAreToldApart
  BY ProcessesDiffer DEF Inv, ProcessesAreToldApart
<1> QED
  BY <1>1, InvHolds, PTL
=============================================================================
