-------------------------- MODULE CaseImportsProofs --------------------------
(***************************************************************************)
(* Proofs about CaseImports for every number of clients and runs and every *)
(* set of commands.                                                        *)
(***************************************************************************)
EXTENDS CaseImports, FiniteSetTheorems, TLAPS

\* The variables are functions on the clients, as far as the steps need it.
Shape ==
  /\ runs \in 0..MaxRuns
  /\ reports \in Nat
  /\ settled \in [Client -> Nat]
  /\ pc \in [Client -> Place]
  /\ entry \in [Client -> Nat]
  /\ answer \in [Client -> Seq(Status)]
  /\ \A f \in {command, known, held} : f = [c \in Client |-> f[c]]

\* Where a client is in its command: the reports it has, the entry it has come
\* to, and that only a wholly well-formed manifest gets past its check.
Placed(c) ==
  /\ pc[c] # "idle" => command[c] \in Commands /\ Len(answer[c]) = entry[c] - 1
  /\ pc[c] \in {"check", "begin", "load", "import"} =>
       entry[c] \in 1..Len(command[c].entries)
  /\ pc[c] \in {"write", "done", "unwritten"} =>
       entry[c] = Len(command[c].entries) + 1
  /\ pc[c] \notin {"idle", "check", "rejected"} =>
       \A i \in DOMAIN command[c].entries : command[c].wellFormed[i]

\* The $MFT events that came with the first imports, up to the last of the given number.
Mfts(last) == {m.id : m \in {x \in MftEvents : x.number <= last}}

\* The events of the case came with imports that are recorded, and their entries began
\* before these.
Numbered ==
  \A e \in stored : e.number \in 1..reports /\ e.since \in Nat /\ e.since < e.number

\* A client takes from one step of an import to the next the $MFT events there were
\* when its entry began, and maybe some that came with later imports.
Reads(c, ids) == Mfts(settled[c]) \subseteq ids /\ ids \subseteq Mfts(reports)

Carried(c) ==
  /\ settled[c] <= reports
  /\ pc[c] = "load" /\ Entry(c).kind = "usn" => Reads(c, known[c])
  /\ pc[c] = "import" =>
       \A e \in held[c].events : e.kind = "usn" => Reads(c, e.namedBy)

\* A batch its client has loaded and has yet to import: events made of some of the
\* files of its entry, and their number.
WellLoaded(batch) ==
  /\ batch.states \subseteq RunStatus
  /\ \E made : /\ IsFiniteSet(DOMAIN made)
               /\ batch.events = {made[i] : i \in DOMAIN made}
               /\ batch.count = Cardinality(DOMAIN made)

Loaded(c) == pc[c] = "import" => WellLoaded(held[c])

IInv ==
  /\ Shape
  /\ Numbered
  /\ \A c \in Client : Placed(c) /\ Carried(c) /\ Loaded(c)
  /\ JournalsUseEarlierMfts
  /\ EvidenceIsNeverDoubled

-----------------------------------------------------------------------------
(***************************************************************************)
(* Batches.                                                                *)
(***************************************************************************)

\* If a batch has as many identities as events, no two of its events share one.
LEMMA IdentitiesAreDistinct ==
  ASSUME NEW batch, WellLoaded(batch), Cardinality({e.id : e \in batch.events}) = batch.count
  PROVE  \A e, f \in batch.events : e.id = f.id => e = f
<1>1. PICK made : /\ IsFiniteSet(DOMAIN made)
                  /\ batch.events = {made[i] : i \in DOMAIN made}
                  /\ batch.count = Cardinality(DOMAIN made)
  BY DEF WellLoaded
<1> DEFINE files == DOMAIN made
           ids == {e.id : e \in batch.events}
           idOf == [i \in files |-> made[i].id]
<1>2. idOf \in Surjection(files, ids)
  <2>1. idOf \in [files -> ids]
    BY <1>1
  <2>2. \A x \in ids : \E i \in files : idOf[i] = x
    BY <1>1
  <2> QED
    BY <2>1, <2>2 DEF Surjection
<1>3. idOf \in Injection(files, ids)
  BY <1>1, <1>2, FS_SurjSameCardinalityImpliesInj
<1>4. \A i, j \in files : idOf[i] = idOf[j] => i = j
  BY <1>3 DEF Injection, IsInjective
<1> QED
  BY <1>1, <1>4

LEMMA IntervalIsFinite ==
  ASSUME NEW n \in Nat
  PROVE  IsFiniteSet(1..n)
<1>1. 1 \in Int /\ n \in Int
  OBVIOUS
<1> QED
  BY <1>1, FS_Interval

\* The files of an entry are finitely many, and the event made of each is named with
\* what the client has read for the entry.
LEMMA EventsOfEntry ==
  ASSUME NEW c \in Client, command[c] \in Commands,
         entry[c] \in 1..Len(command[c].entries)
  PROVE  /\ IsFiniteSet(DOMAIN Entry(c).files)
         /\ \A i \in DOMAIN Entry(c).files :
              EventsOf(c)[i].kind = Entry(c).kind /\ EventsOf(c)[i].namedBy = known[c]
<1>1. command[c].entries \in Seq(ToSet(command[c].entries))
  BY CommandsAssumption
<1>2. Entry(c).files \in Seq(ToSet(Entry(c).files))
  BY <1>1, CommandsAssumption DEF Entry
<1>3. IsFiniteSet(DOMAIN Entry(c).files)
  BY <1>2, IntervalIsFinite
<1> QED
  BY <1>3 DEF EventsOf

-----------------------------------------------------------------------------
(***************************************************************************)
(* One client moves, the others stay where they are.                       *)
(***************************************************************************)

LocalInv(c) == Placed(c) /\ Carried(c) /\ Loaded(c)

\* The case grows, and what is new in it comes with imports that were not recorded.
Grows ==
  /\ reports' \in Nat /\ reports <= reports'
  /\ stored \subseteq stored'
  /\ \A e \in stored' \ stored : e.number \in Nat /\ e.number > reports

\* The $MFT events that came with recorded imports stay the same.
LEMMA MftsStay ==
  ASSUME reports \in Nat, Numbered, Grows, NEW last \in Int, last <= reports
  PROVE  Mfts(last)' = Mfts(last)
<1>1. \A x \in stored' : x.number <= last => x \in stored
  <2> SUFFICES ASSUME NEW x \in stored', x.number <= last, x \notin stored PROVE FALSE
    OBVIOUS
  <2>1. x.number \in Nat /\ x.number > reports
    BY DEF Grows
  <2> QED
    BY <2>1
<1>2. {x \in MftEvents : x.number <= last}' = {x \in MftEvents : x.number <= last}
  BY <1>1 DEF MftEvents, Grows
<1> QED
  BY <1>2 DEF Mfts

LEMMA MftsGrow ==
  ASSUME reports \in Nat, Numbered, Grows
  PROVE  Mfts(reports) \subseteq Mfts(reports)'
<1>1. \A x \in MftEvents : x \in MftEvents' /\ x.number <= reports'
  BY DEF MftEvents, Grows, Numbered
<1> QED
  BY <1>1 DEF Mfts

LEMMA ReadsStay ==
  ASSUME Shape, Numbered, Grows, NEW c \in Client, settled[c] <= reports,
         settled'[c] = settled[c], NEW ids, Reads(c, ids)
  PROVE  Mfts(settled[c])' \subseteq ids /\ ids \subseteq Mfts(reports)'
<1>1. Mfts(settled[c])' = Mfts(settled[c])
  <2>1. settled[c] \in Int /\ reports \in Nat
    BY DEF Shape
  <2> DEFINE last == settled[c]
  <2>2. last \in Int /\ last <= reports /\ last' = last
    BY <2>1
  <2>3. \A n \in Int : n <= reports => {m.id : m \in {x \in MftEvents : x.number <= n}}'
                                         = {m.id : m \in {x \in MftEvents : x.number <= n}}
    BY <2>1, MftsStay DEF Mfts
  <2> QED
    BY <2>2, <2>3 DEF Mfts
<1>2. Mfts(reports) \subseteq Mfts(reports)'
  BY MftsGrow DEF Shape
<1> QED
  BY <1>1, <1>2 DEF Reads

LEMMA OthersStay ==
  ASSUME NEW c \in Client, Shape, Numbered, Grows, LocalInv(c),
         UNCHANGED <<command[c], pc[c], entry[c], known[c], held[c], answer[c], settled[c]>>
  PROVE  LocalInv(c)'
<1>1. Placed(c)' /\ Loaded(c)'
  BY DEF LocalInv, Placed, Loaded, WellLoaded
<1>2. \A ids : Reads(c, ids) => Reads(c, ids)'
  BY ReadsStay DEF LocalInv, Carried, Reads
<1>3. settled'[c] <= reports'
  BY DEF LocalInv, Carried, Grows, Shape
<1>4. Carried(c)'
  BY <1>2, <1>3 DEF LocalInv, Carried, Entry
<1> QED
  BY <1>1, <1>4 DEF LocalInv

\* What the steps of one client leave alone of the others.
Alone(c) ==
  \A d \in Client \ {c} :
    UNCHANGED <<command[d], pc[d], entry[d], known[d], held[d], answer[d], settled[d]>>

LEMMA StepsAreLocal ==
  ASSUME Shape, NEW c \in Client, NEW cmd,
         Start(c, cmd) \/ Check(c) \/ ReadMft(c) \/ Load(c) \/ Import(c)
           \/ Write(c) \/ Abort(c)
  PROVE  Alone(c)
<1> USE DEF Alone, Shape, Goes
<1>1. CASE Start(c, cmd)
  BY <1>1 DEF Start
<1>2. CASE Check(c)
  BY <1>2 DEF Check
<1>3. CASE ReadMft(c)
  BY <1>3 DEF ReadMft
<1>4. CASE Load(c)
  BY <1>4 DEF Load
<1>5. CASE Import(c)
  BY <1>5 DEF Import, Imports
<1>6. CASE Write(c)
  BY <1>6 DEF Write
<1>7. CASE Abort(c)
  BY <1>7 DEF Abort
<1> QED
  BY <1>1, <1>2, <1>3, <1>4, <1>5, <1>6, <1>7

\* Steps that leave the case alone leave what a client has read as true as it was.
LEMMA ReadsAreKept ==
  ASSUME NEW c \in Client, UNCHANGED <<stored, reports>>, settled'[c] = settled[c],
         NEW ids
  PROVE  Reads(c, ids)' <=> Reads(c, ids)
BY DEF Reads, Mfts, MftEvents

LEMMA StatusOfImport ==
  ASSUME NEW batch
  PROVE  ImportStatus(batch) \in Status
BY DEF ImportStatus, Status

LEMMA StartKeeps ==
  ASSUME Shape, NEW c \in Client, LocalInv(c), NEW cmd \in Commands, Start(c, cmd)
  PROVE  Shape' /\ LocalInv(c)'
<1>1. /\ command'[c] = cmd /\ entry'[c] = 1 /\ answer'[c] = <<>> /\ pc'[c] = "check"
      /\ UNCHANGED <<stored, reports, known, held, settled>>
  BY DEF Start, Shape, Goes
<1>2. Shape'
  <2>1. runs' \in 0..MaxRuns
    BY CommandsAssumption DEF Start, Shape
  <2>2. entry' \in [Client -> Nat] /\ answer' \in [Client -> Seq(Status)]
    BY DEF Start, Shape
  <2>3. pc' \in [Client -> Place]
    BY DEF Start, Shape, Goes, Place
  <2>4. \A f \in {command, known, held}' : f = [d \in Client |-> f[d]]
    BY DEF Start, Shape
  <2> QED
    BY <1>1, <2>1, <2>2, <2>3, <2>4 DEF Shape
<1>3. Len(cmd.entries) \in Nat /\ Len(cmd.entries) # 0
  BY CommandsAssumption
<1>4. Placed(c)'
  BY <1>1, <1>3 DEF Placed
<1> QED
  BY <1>1, <1>2, <1>4 DEF LocalInv, Carried, Loaded

LEMMA CheckKeeps ==
  ASSUME Shape, NEW c \in Client, LocalInv(c), Check(c)
  PROVE  Shape' /\ LocalInv(c)'
<1>1. /\ pc[c] = "check"
      /\ pc'[c] = IF \A i \in DOMAIN command[c].entries : command[c].wellFormed[i]
                  THEN "begin" ELSE "rejected"
      /\ settled'[c] = reports
      /\ UNCHANGED <<reports, command, entry, known, held, answer>>
  BY DEF Check, Shape, Goes
<1>2. Shape'
  BY DEF Check, Shape, Goes, Place
<1>3. settled'[c] <= reports'
  BY <1>1 DEF Shape
<1> QED
  BY <1>1, <1>2, <1>3 DEF LocalInv, Placed, Carried, Loaded

LEMMA ReadMftKeeps ==
  ASSUME Shape, Numbered, NEW c \in Client, LocalInv(c), ReadMft(c)
  PROVE  Shape' /\ LocalInv(c)'
<1>1. /\ pc[c] = "begin" /\ pc'[c] = "load"
      /\ known'[c] = IF Entry(c).kind = "usn" THEN {e.id : e \in MftEvents} ELSE {}
      /\ UNCHANGED <<stored, reports, command, entry, held, answer, settled>>
  BY DEF ReadMft, Shape, Goes
<1>2. Shape'
  BY DEF ReadMft, Shape, Goes, Place
<1>3. Entry(c)' = Entry(c)
  BY <1>1 DEF Entry
<1>4. Reads(c, {e.id : e \in MftEvents})
  BY DEF Reads, Mfts, Numbered, MftEvents
<1>5. Reads(c, {e.id : e \in MftEvents})'
  BY <1>1, <1>4 DEF Reads, Mfts, MftEvents
<1>6. {e.id : e \in MftEvents}' = {e.id : e \in MftEvents}
  BY <1>1 DEF MftEvents
<1> QED
  BY <1>1, <1>2, <1>3, <1>5, <1>6 DEF LocalInv, Placed, Carried, Loaded

LEMMA LoadKeeps ==
  ASSUME Shape, NEW c \in Client, LocalInv(c), Load(c)
  PROVE  Shape' /\ LocalInv(c)'
<1>1. /\ pc[c] = "load" /\ pc'[c] \in {"rejected", "import"}
      /\ UNCHANGED <<stored, reports, outputs, runs, command, entry, known, answer, settled>>
  BY DEF Load, Shape, Goes
<1>2. Shape'
  BY ZenonT(60) DEF Load, Shape, Goes, Place
<1>3. /\ IsFiniteSet(DOMAIN Entry(c).files)
      /\ \A i \in DOMAIN Entry(c).files :
           EventsOf(c)[i].kind = Entry(c).kind /\ EventsOf(c)[i].namedBy = known[c]
  BY <1>1, EventsOfEntry DEF LocalInv, Placed
<1>4. /\ WellLoaded(held'[c])
      /\ \A e \in held'[c].events : e.kind = Entry(c).kind /\ e.namedBy = known[c]
  <2>1. ASSUME NEW good \in SUBSET DOMAIN Entry(c).files,
               NEW states \in SUBSET RunStatus,
               held' = [held EXCEPT ![c] =
                 [ events |-> {EventsOf(c)[i] : i \in good},
                   count |-> Cardinality(good), states |-> states ]]
        PROVE  /\ WellLoaded(held'[c])
               /\ \A e \in held'[c].events : e.kind = Entry(c).kind /\ e.namedBy = known[c]
    <3>1. /\ held'[c].events = {EventsOf(c)[i] : i \in good}
          /\ held'[c].count = Cardinality(good) /\ held'[c].states = states
      BY <2>1 DEF Shape
    <3> DEFINE made == [i \in good |-> EventsOf(c)[i]]
    <3>2. IsFiniteSet(good) /\ DOMAIN made = good
      BY <1>3, FS_Subset
    <3>3. {EventsOf(c)[i] : i \in good} = {made[i] : i \in DOMAIN made}
      OBVIOUS
    <3> HIDE DEF made
    <3>4. WellLoaded(held'[c])
      BY <3>1, <3>2, <3>3 DEF WellLoaded
    <3> QED
      BY <1>3, <3>1, <3>4
  <2>2. ASSUME held' = [held EXCEPT ![c] = [events |-> {}, count |-> 0,
                                            states |-> {"FAILED"}]]
        PROVE  /\ WellLoaded(held'[c])
               /\ \A e \in held'[c].events : e.kind = Entry(c).kind /\ e.namedBy = known[c]
    <3>1. held'[c].events = {} /\ held'[c].count = 0 /\ held'[c].states = {"FAILED"}
      BY <2>2 DEF Shape
    <3> DEFINE made == [i \in {} |-> i]
    <3>2. DOMAIN made = {} /\ {made[i] : i \in DOMAIN made} = {}
      OBVIOUS
    <3>3. IsFiniteSet({}) /\ Cardinality({}) = 0
      BY FS_EmptySet
    <3> HIDE DEF made
    <3>4. WellLoaded(held'[c])
      BY <3>1, <3>2, <3>3 DEF WellLoaded, RunStatus
    <3> QED
      BY <3>1, <3>4
  <2>3. \A good \in SUBSET DOMAIN Entry(c).files, other \in {"FAILED", "UNAVAILABLE"} :
          ((IF good = {} THEN {} ELSE {"SUCCESS"}) \cup
           (IF good = DOMAIN Entry(c).files THEN {} ELSE {other})) \in SUBSET RunStatus
    BY DEF RunStatus
  <2>4. \/ \E good \in SUBSET DOMAIN Entry(c).files, states \in SUBSET RunStatus :
             held' = [held EXCEPT ![c] =
               [ events |-> {EventsOf(c)[i] : i \in good},
                 count |-> Cardinality(good), states |-> states ]]
        \/ held' = [held EXCEPT ![c] = [events |-> {}, count |-> 0, states |-> {"FAILED"}]]
    BY <2>3 DEF Load
  <2> QED
    BY <2>1, <2>2, <2>4
<1>5. Placed(c)' /\ Loaded(c)'
  BY <1>1, <1>4 DEF LocalInv, Placed, Loaded
<1>6. Carried(c)'
  <2>1. settled'[c] <= reports'
    BY <1>1 DEF LocalInv, Carried
  <2>2. ASSUME NEW e \in held'[c].events, e.kind = "usn"
        PROVE  Reads(c, e.namedBy)'
    <3>1. Reads(c, e.namedBy)
      BY <1>1, <1>4, <2>2 DEF LocalInv, Carried
    <3> QED
      BY <1>1, <3>1, ReadsAreKept
  <2> QED
    BY <1>1, <2>1, <2>2 DEF Carried
<1> QED
  BY <1>2, <1>5, <1>6 DEF LocalInv

\* What an import adds to the case is numbered with the import.
LEMMA ImportGrows ==
  ASSUME Shape, Numbered, NEW c \in Client, LocalInv(c), Import(c)
  PROVE  Grows /\ Numbered'
<1>1. /\ reports' = reports + 1
      /\ stored' = stored \/ stored' = stored \cup Batch(c)
  BY DEF Import, Imports
<1>2. \A e \in Batch(c) : e.number = reports + 1 /\ e.since = settled[c]
  BY DEF Batch, AsImported
<1>3. reports \in Nat /\ settled[c] \in Nat /\ settled[c] <= reports
  BY DEF Shape, LocalInv, Carried
<1>4. Grows
  BY <1>1, <1>2, <1>3 DEF Grows
<1>5. Numbered'
  BY <1>1, <1>2, <1>3 DEF Numbered
<1> QED
  BY <1>4, <1>5

\* Journals of the case stay named as they were, and those of a batch are named by what
\* its client read.
LEMMA ImportNames ==
  ASSUME Shape, Numbered, NEW c \in Client, LocalInv(c), Import(c), JournalsUseEarlierMfts
  PROVE  JournalsUseEarlierMfts'
<1>1. Grows /\ Numbered' /\ reports \in Nat
  BY ImportGrows DEF Shape
<1>2. \A n \in Int : n <= reports => {m.id : m \in {x \in MftEvents : x.number <= n}}'
                                       = {m.id : m \in {x \in MftEvents : x.number <= n}}
  BY <1>1, MftsStay DEF Mfts
<1>3. SUFFICES ASSUME NEW e \in stored', e.kind = "usn"
               PROVE  /\ {m.id : m \in {x \in MftEvents' : x.number <= e.since}}
                            \subseteq e.namedBy
                      /\ e.namedBy \subseteq
                            {m.id : m \in {x \in MftEvents' : x.number <= e.number - 1}}
  BY DEF JournalsUseEarlierMfts
<1>4. CASE e \in stored
  <2>1. /\ e.since \in Int /\ e.since <= reports
        /\ e.number - 1 \in Int /\ e.number - 1 <= reports
    BY <1>1, <1>4 DEF Numbered
  <2>2. /\ {m.id : m \in {x \in MftEvents : x.number <= e.since}} \subseteq e.namedBy
        /\ e.namedBy \subseteq {m.id : m \in {x \in MftEvents : x.number <= e.number - 1}}
    BY <1>3, <1>4 DEF JournalsUseEarlierMfts
  <2>3. \A n \in Int : n <= reports => {m.id : m \in {x \in MftEvents' : x.number <= n}}
                                         = {m.id : m \in {x \in MftEvents : x.number <= n}}
    BY <1>2
  <2> QED
    BY <2>1, <2>2, <2>3
<1>5. CASE e \notin stored
  <2>1. e \in Batch(c) /\ pc[c] = "import"
    BY <1>3, <1>5 DEF Import, Imports
  <2>2. PICK f \in held[c].events : e = AsImported(c, f)
    BY <2>1 DEF Batch
  <2>3. /\ e.namedBy = f.namedBy /\ f.kind = "usn"
        /\ e.since = settled[c] /\ e.number = reports + 1
    BY <1>3, <2>2 DEF AsImported
  <2>4. Reads(c, f.namedBy) /\ settled[c] <= reports /\ settled[c] \in Int
    BY <2>1, <2>3 DEF LocalInv, Carried, Shape
  <2>5. /\ e.since \in Int /\ e.since <= reports
        /\ e.number - 1 = reports
    BY <1>1, <2>3, <2>4
  <2>6. /\ {m.id : m \in {x \in MftEvents : x.number <= e.since}} \subseteq e.namedBy
        /\ e.namedBy \subseteq {m.id : m \in {x \in MftEvents : x.number <= reports}}
    BY <2>3, <2>4 DEF Reads, Mfts
  <2>7. \A n \in Int : n <= reports => {m.id : m \in {x \in MftEvents' : x.number <= n}}
                                         = {m.id : m \in {x \in MftEvents : x.number <= n}}
    BY <1>2
  <2>8. {m.id : m \in {x \in MftEvents' : x.number <= e.since}}
          = {m.id : m \in {x \in MftEvents : x.number <= e.since}}
    BY <2>5, <2>7
  <2>9. {m.id : m \in {x \in MftEvents' : x.number <= reports}}
          = {m.id : m \in {x \in MftEvents : x.number <= reports}}
    <3>1. reports \in Int /\ reports <= reports
      BY <1>1
    <3> QED
      BY <2>7, <3>1
  <2>10. {m.id : m \in {x \in MftEvents' : x.number <= e.number - 1}}
           = {m.id : m \in {x \in MftEvents' : x.number <= reports}}
    BY <2>5
  <2> QED
    BY <2>6, <2>8, <2>9, <2>10
<1> QED
  BY <1>4, <1>5

LEMMA ImportKeeps ==
  ASSUME Shape, Numbered, NEW c \in Client, LocalInv(c), Import(c), EvidenceIsNeverDoubled
  PROVE  Shape' /\ LocalInv(c)' /\ EvidenceIsNeverDoubled'
<1> DEFINE ids == {e.id : e \in held[c].events}
           refused == \/ ids \cap {e.id : e \in stored} # {}
                      \/ Cardinality(ids) # held[c].count
           status == IF refused THEN "FAILED" ELSE ImportStatus(held[c])
<1>1. /\ pc[c] = "import" /\ pc'[c] = AfterEntry(c)
      /\ entry'[c] = entry[c] + 1
      /\ answer'[c] = Append(answer[c], status)
      /\ settled'[c] = reports + 1 /\ reports' = reports + 1
      /\ UNCHANGED <<outputs, runs, command>>
  BY DEF Import, Imports, Shape, Goes
<1>2. /\ WellLoaded(held[c])
      /\ command[c] \in Commands /\ Len(answer[c]) = entry[c] - 1
      /\ entry[c] \in 1..Len(command[c].entries)
      /\ \A i \in DOMAIN command[c].entries : command[c].wellFormed[i]
  BY <1>1 DEF LocalInv, Placed, Loaded
<1>3. Len(command[c].entries) \in Nat
  BY <1>2, CommandsAssumption
<1>4. status \in Status
  BY StatusOfImport DEF Status
<1>5. Shape'
  <2>1. answer' \in [Client -> Seq(Status)]
    <3>1. answer' = [answer EXCEPT ![c] = Append(answer[c], status)]
      BY DEF Import, Imports
    <3>2. answer[c] \in Seq(Status) /\ answer \in [Client -> Seq(Status)]
      BY DEF Shape
    <3> HIDE DEF status
    <3>3. Append(answer[c], status) \in Seq(Status)
      BY <1>4, <3>2
    <3> QED
      BY <3>1, <3>2, <3>3
  <2>2. pc' \in [Client -> Place]
    BY DEF Import, Imports, Shape, Goes, Place, AfterEntry
  <2>3. entry' \in [Client -> Nat] /\ settled' \in [Client -> Nat] /\ reports' \in Nat
    BY DEF Import, Imports, Shape
  <2>4. \A f \in {command, known, held}' : f = [d \in Client |-> f[d]]
    BY DEF Import, Imports, Shape
  <2> QED
    BY <1>1, <2>1, <2>2, <2>3, <2>4 DEF Shape
<1>6. LocalInv(c)'
  <2>1. Len(answer'[c]) = entry'[c] - 1
    <3>1. answer[c] \in Seq(Status) /\ entry[c] \in Nat
      BY DEF Shape
    <3> HIDE DEF status
    <3> QED
      BY <1>1, <1>2, <3>1
  <2>2. settled'[c] <= reports'
    BY <1>1 DEF Shape
  <2>3. pc'[c] \in {"begin", "write", "done"}
    BY <1>1 DEF AfterEntry
  <2>4. Carried(c)' /\ Loaded(c)'
    BY <2>2, <2>3 DEF Carried, Loaded
  <2>5. CASE entry[c] < Len(command[c].entries)
    BY <1>1, <1>2, <1>3, <2>1, <2>4, <2>5 DEF LocalInv, Placed, AfterEntry
  <2>6. CASE ~(entry[c] < Len(command[c].entries))
    BY <1>1, <1>2, <1>3, <2>1, <2>4, <2>6 DEF LocalInv, Placed, AfterEntry
  <2> QED
    BY <2>5, <2>6
<1>7. CASE refused
  <2>1. stored' = stored
    BY <1>7 DEF Import, Imports
  <2> QED
    BY <1>5, <1>6, <2>1 DEF EvidenceIsNeverDoubled
<1>8. CASE ~refused
  <2>1. stored' = stored \cup Batch(c)
    BY <1>8 DEF Import, Imports
  <2>2. \A e, f \in held[c].events : e.id = f.id => e = f
    BY <1>2, <1>8, IdentitiesAreDistinct
  <2>3. \A e \in Batch(c) : \E g \in held[c].events : e = AsImported(c, g) /\ e.id = g.id
    BY DEF Batch, AsImported
  <2>4. \A e, f \in Batch(c) : e.id = f.id => e = f
    BY <2>2, <2>3
  <2>5. \A e \in stored, f \in Batch(c) : e.id # f.id
    BY <1>8, <2>3
  <2>6. EvidenceIsNeverDoubled'
    BY <2>1, <2>4, <2>5 DEF EvidenceIsNeverDoubled
  <2> QED
    BY <1>5, <1>6, <2>6
<1> QED
  BY <1>7, <1>8

LEMMA WriteKeeps ==
  ASSUME Shape, NEW c \in Client, LocalInv(c), Write(c)
  PROVE  Shape' /\ LocalInv(c)'
<1>1. /\ pc[c] = "write" /\ pc'[c] \in {"done", "unwritten"}
      /\ UNCHANGED <<reports, command, entry, known, held, answer, settled>>
  BY DEF Write, Shape, Goes
<1>2. Shape'
  BY DEF Write, Shape, Goes, Place
<1> QED
  BY <1>1, <1>2 DEF LocalInv, Placed, Carried, Loaded

LEMMA AbortKeeps ==
  ASSUME Shape, NEW c \in Client, LocalInv(c), Abort(c)
  PROVE  Shape' /\ LocalInv(c)'
<1>1. /\ pc[c] \in {"begin", "load", "import", "write"} /\ pc'[c] = "aborted"
      /\ UNCHANGED <<reports, command, entry, answer, settled>>
  BY DEF Abort, Shape, Goes
<1>2. Shape'
  BY DEF Abort, Shape, Goes, Place
<1> QED
  BY <1>1, <1>2 DEF LocalInv, Placed, Carried, Loaded

-----------------------------------------------------------------------------
(***************************************************************************)
(* The inductive invariant.                                                *)
(***************************************************************************)

LEMMA InitHolds == Init => IInv
<1> SUFFICES ASSUME Init PROVE IInv
  OBVIOUS
<1>1. Shape
  BY CommandsAssumption DEF Init, Shape, Place
<1>2. \A c \in Client : Placed(c) /\ Carried(c) /\ Loaded(c)
  BY DEF Init, Placed, Carried, Loaded
<1> QED
  BY <1>1, <1>2 DEF Init, IInv, Numbered, JournalsUseEarlierMfts, EvidenceIsNeverDoubled

LEMMA StepHolds == IInv /\ [Next]_vars => IInv'
<1> SUFFICES ASSUME IInv, [Next]_vars PROVE IInv'
  OBVIOUS
<1> USE DEF IInv
<1>1. CASE UNCHANGED vars
  <2>1. \A c \in Client : \A ids : Reads(c, ids) => Reads(c, ids)'
    BY <1>1 DEF vars, Reads, Mfts, MftEvents
  <2>2. \A c \in Client : Carried(c)'
    BY <1>1, <2>1 DEF vars, Carried, Entry
  <2>3. JournalsUseEarlierMfts'
    BY <1>1 DEF vars, JournalsUseEarlierMfts, MftEvents
  <2> QED
    BY <1>1, <2>2, <2>3 DEF vars, Shape, Numbered, Placed, Loaded, WellLoaded,
                            EvidenceIsNeverDoubled
<1>2. ASSUME NEW c \in Client, NEW cmd \in Commands,
             Start(c, cmd) \/ Check(c) \/ ReadMft(c) \/ Load(c) \/ Import(c)
               \/ Write(c) \/ Abort(c)
      PROVE  IInv'
  <2>1. LocalInv(c) /\ Alone(c)
    BY <1>2, StepsAreLocal DEF LocalInv
  <2>2. ~Import(c) => UNCHANGED <<stored, reports>>
    BY <1>2 DEF Start, Check, ReadMft, Load, Write, Abort
  <2>3. Grows /\ Numbered'
    <3>1. CASE Import(c)
      BY <2>1, <3>1, ImportGrows
    <3>2. CASE ~Import(c)
      BY <2>2, <3>2 DEF Grows, Numbered, Shape
    <3> QED
      BY <3>1, <3>2
  <2>4. ASSUME NEW d \in Client \ {c}
        PROVE  LocalInv(d)'
    BY <2>1, <2>3, <2>4, OthersStay DEF Alone, LocalInv
  <2>5. Shape' /\ LocalInv(c)' /\ EvidenceIsNeverDoubled'
    <3>1. CASE Import(c)
      BY <2>1, <3>1, ImportKeeps
    <3>2. CASE ~Import(c)
      <4>1. Shape' /\ LocalInv(c)'
        BY <1>2, <2>1, <3>2, StartKeeps, CheckKeeps, ReadMftKeeps, LoadKeeps, WriteKeeps,
           AbortKeeps
      <4> QED
        BY <2>2, <3>2, <4>1 DEF EvidenceIsNeverDoubled
    <3> QED
      BY <3>1, <3>2
  <2>6. JournalsUseEarlierMfts'
    <3>1. CASE Import(c)
      BY <2>1, <3>1, ImportNames
    <3>2. CASE ~Import(c)
      BY <2>2, <3>2 DEF JournalsUseEarlierMfts, MftEvents
    <3> QED
      BY <3>1, <3>2
  <2> QED
    BY <2>3, <2>4, <2>5, <2>6 DEF LocalInv
<1>3. ASSUME NEW c \in Client,
             Check(c) \/ ReadMft(c) \/ Load(c) \/ Import(c) \/ Write(c) \/ Abort(c)
      PROVE  Commands # {}
  BY <1>3 DEF Check, ReadMft, Load, Import, Write, Abort, Placed
<1> QED
  BY <1>1, <1>2, <1>3 DEF Next

LEMMA InvariantHolds == Spec => []IInv
BY InitHolds, StepHolds, PTL DEF Spec

-----------------------------------------------------------------------------
(***************************************************************************)
(* Theorems.                                                               *)
(***************************************************************************)

\* Whatever clients import and whenever they are killed, a stored USN record was named
\* by every $MFT of an import that was recorded before its entry began, and by none of
\* one that was recorded after its own (import_evidence).
THEOREM JournalsAreNamed == Spec => []JournalsUseEarlierMfts
<1>1. IInv => JournalsUseEarlierMfts
  BY DEF IInv
<1> QED
  BY <1>1, InvariantHolds, PTL

\* A manifest is imported entry by entry: not at all if it is malformed, with a
\* report for each entry otherwise, and never the same event twice (import_case).
THEOREM ManifestsAreAccountedFor == Spec => []EntriesAreAccountedFor
<1>1. IInv => EntriesAreAccountedFor
  <2> SUFFICES ASSUME IInv PROVE EntriesAreAccountedFor
    OBVIOUS
  <2> USE DEF IInv
  <2>1. TypeOK
    <3>1. \A c \in Client : ToSet(answer[c]) \subseteq Status
      <4> SUFFICES ASSUME NEW c \in Client PROVE ToSet(answer[c]) \subseteq Status
        OBVIOUS
      <4>1. answer[c] \in Seq(Status)
        BY DEF Shape
      <4> QED
        BY <4>1 DEF ToSet
    <3> QED
      BY <3>1 DEF TypeOK, Shape, Placed, Loaded, WellLoaded
  <2>2. RejectedManifestsImportNothing
    BY DEF RejectedManifestsImportNothing, Placed
  <2>3. EveryEntryIsReported
    <3> SUFFICES ASSUME NEW c \in Client, pc[c] \in {"done", "unwritten"}
                 PROVE  Len(answer[c]) = Len(command[c].entries)
      BY DEF EveryEntryIsReported
    <3>1. Len(answer[c]) = entry[c] - 1 /\ entry[c] = Len(command[c].entries) + 1
      BY DEF Placed
    <3>2. Len(command[c].entries) \in Nat
      BY CommandsAssumption DEF Placed
    <3> QED
      BY <3>1, <3>2
  <2> QED
    BY <2>1, <2>2, <2>3 DEF EntriesAreAccountedFor
<1> QED
  BY <1>1, InvariantHolds, PTL

\* What is in the case stays as it was imported and an output file as it was written,
\* whatever commands are repeated (import_batch, run_import).
THEOREM NothingIsTakenBack == Spec => NothingIsReplaced
<1>1. [Next]_vars => [stored \subseteq stored' /\ outputs \subseteq outputs']_vars
  <2> SUFFICES ASSUME Next
               PROVE  stored \subseteq stored' /\ outputs \subseteq outputs'
    BY DEF vars
  <2>1. \A c \in Client : Import(c) => stored \subseteq stored' /\ UNCHANGED outputs
    BY DEF Import, Imports
  <2>2. \A c \in Client : Write(c) => outputs \subseteq outputs' /\ UNCHANGED stored
    BY DEF Write
  <2> QED
    BY <2>1, <2>2 DEF Next, Start, Check, ReadMft, Load, Abort
<1> QED
  BY <1>1, PTL DEF Spec, NothingIsReplaced
=============================================================================
