------------------------------- MODULE MftPaths -------------------------------
(***************************************************************************)
(* How DiskArtifactAdapter names files: _resolve_mft follows each MFT row  *)
(* through its parents up to the root directory and writes the path into   *)
(* every row of the walk, so that later rows stop there; _usn gives a      *)
(* journal record the path of the MFT row with its reference.              *)
(*                                                                         *)
(* A row is [rec, seq, up, name, given]: its record and sequence number,   *)
(* the <<record, sequence>> it names as parent (None when it has none),    *)
(* its name, and whether the export states its full path.  Hard links are  *)
(* rows of one record.  A path is the sequence of its names below the      *)
(* mount point, or below the export's own "stated" prefix.                 *)
(***************************************************************************)
EXTENDS Naturals, Sequences, FiniteSets, FiniteSetsExt

CONSTANTS
  None,
  Mount,      \* the mount point of the context, a path, or None
  Depth,      \* bound of the code: parents followed from one row (128)
  Rows,       \* the sequences of rows a file can hold
  Journal     \* journal records [rec, seq, name, rename]

VARIABLES
  rows,       \* the rows of the file, in its order
  path,       \* file.path of each row
  origin,     \* the rows whose provenance each event carries
  pending     \* the rows _resolve_mft has not come to

vars == <<rows, path, origin, pending>>

Root == 5

Reference(i) == <<rows[i].rec, rows[i].seq>>

\* The dictionary of records: a later row replaces an earlier of its reference.
Lookup(reference) ==
  LET matches == {i \in DOMAIN rows : Reference(i) = reference}
  IN  IF matches = {} THEN None ELSE Max(matches)

Stated(i) == <<"stated", rows[i].name>>

Init ==
  /\ \E file \in Rows : rows = file
  /\ path = [i \in DOMAIN rows |-> IF rows[i].given THEN Stated(i) ELSE None]
  /\ origin = [i \in DOMAIN rows |-> {i}]
  /\ pending = DOMAIN rows

-----------------------------------------------------------------------------
(* One call of resolve: the walk up, the base it ends at, the way back *)

\* Mutant: the parent is looked up by its record number alone.
ParentRecord(i) ==
  LET matches == {j \in DOMAIN rows : rows[j].rec = rows[i].up[1]}
  IN  IF matches = {} THEN None ELSE Max(matches)

Parent(i) == Lookup(rows[i].up)

\* A walk goes on while its last row has no path, its reference was not met
\* before, it is not the root and its parent has a row.
Onward(trail) ==
  LET here == trail[Len(trail)]
      met == {Reference(trail[k]) : k \in 1..Len(trail) - 1}
      ends == \/ path[here] # None
              \/ Reference(here) \in met
              \/ rows[here].rec = Root
              \/ Parent(here) = None
  IN  IF ends THEN trail ELSE Append(trail, Parent(here))

\* The rows of the walk from a row; Base refuses one that is too long.
Walk(start) ==
  LET step[n \in 0..Depth + 1] == IF n = 0 THEN <<start>> ELSE Onward(step[n - 1])
  IN  step[Depth + 1]

\* Mutant: the trail may be one row shorter.
BaseOneShort(walk) ==
  LET end == walk[Len(walk)]
      met == {Reference(walk[k]) : k \in 1..Len(walk) - 1}
  IN  IF path[end] # None THEN path[end]
      ELSE IF Reference(end) \in met \/ Len(walk) - 1 >= Depth THEN None
      ELSE IF rows[end].rec = Root THEN Mount
      ELSE None

\* What resolve returns at the end of a walk.
Base(walk) ==
  LET end == walk[Len(walk)]
      met == {Reference(walk[k]) : k \in 1..Len(walk) - 1}
  IN  IF path[end] # None THEN path[end]
      ELSE IF Reference(end) \in met \/ Len(walk) - 1 > Depth THEN None
      ELSE IF rows[end].rec = Root THEN Mount
      ELSE None

NamesUpTo(walk, k) ==
  [j \in 1..Len(walk) - k |-> rows[walk[Len(walk) - j]].name]

\* Mutant: only the row that was asked for keeps the provenance of its parents.
ProvenanceOfAsked(walk) ==
  [origin EXCEPT ![walk[1]] = @ \cup {walk[j] : j \in DOMAIN walk}]

\* Every row of the walk takes over the provenance of the row above it.
ProvenanceAlong(walk) ==
  [i \in DOMAIN rows |->
     origin[i] \cup UNION { UNION {origin[walk[j]] : j \in k..Len(walk)} :
                            k \in {k \in 1..Len(walk) - 1 : walk[k] = i} }]

\* The body of the loop over the events.
Resolve(i) ==
  LET walk == Walk(i)
      base == Base(walk)
      named == {k \in 1..Len(walk) - 1 : base # None}
  IN  /\ i \in pending
      /\ pending' = pending \ {i}
      /\ path' = [r \in DOMAIN rows |->
                    IF \E k \in named : walk[k] = r
                    THEN base \o NamesUpTo(walk, CHOOSE k \in named : walk[k] = r)
                    ELSE path[r]]
      /\ origin' = IF named = {} THEN origin ELSE ProvenanceAlong(walk)
      /\ UNCHANGED rows

\* The order of the rows is the export's; any of them can come next.
Next == \E i \in DOMAIN rows : Resolve(i)

Spec == Init /\ [][Next]_vars

-----------------------------------------------------------------------------
(* _usn *)

Candidates(record) ==
  {i \in DOMAIN rows : Reference(i) = <<record.rec, record.seq>>}

\* Mutant: the name of the record is not compared.
UsnPathOfReference(record) ==
  LET paths == {path[i] : i \in {i \in Candidates(record) : path[i] # None}}
  IN  IF ~record.rename /\ Cardinality(paths) = 1
      THEN CHOOSE p \in paths : TRUE
      ELSE None

\* The path a journal record takes from the MFT: that of its reference, when
\* there is one only, the record is no rename and the name is still the same.
UsnPath(record) ==
  LET paths == {path[i] : i \in {i \in Candidates(record) : path[i] # None}}
      named == {p \in paths : p[Len(p)] = record.name}
  IN  IF ~record.rename /\ Cardinality(paths) = 1 /\ named = paths
      THEN CHOOSE p \in paths : TRUE
      ELSE None

-----------------------------------------------------------------------------
(* What the paths should be *)

\* A path begins at the root, or where the export states one.
Begins(i) == rows[i].rec = Root \/ rows[i].given

Above(i) == IF i = None \/ Begins(i) THEN None ELSE Lookup(rows[i].up)

\* The ancestors of a row by its parent references alone; a cycle repeats.
Ancestor(i, n) ==
  LET up[k \in 0..n] == IF k = 0 THEN i ELSE Above(up[k - 1])
  IN  up[n]

\* The distance from a row to where a path begins, None if there is no such place.
Distance(i) ==
  LET ends == {n \in 0..Len(rows) :
                 LET a == Ancestor(i, n)
                 IN  a # None /\ Begins(a)}
  IN  IF ends = {} THEN None ELSE Min(ends)

TruePath(i) ==
  LET n == Distance(i)
      end == Ancestor(i, n)
      base == IF rows[end].given THEN Stated(end) ELSE Mount
  IN  base \o [j \in 1..n |-> rows[Ancestor(i, n - j)].name]

\* No record is met twice on the way, as it would be on a cycle.
Simple(i) ==
  LET n == Distance(i)
  IN  Cardinality({Reference(Ancestor(i, k)) : k \in 0..n}) = n + 1

-----------------------------------------------------------------------------
(* Properties *)

\* The variables are of the expected shape; a row is its own provenance.
TypeOK ==
  /\ DOMAIN path = DOMAIN rows
  /\ pending \subseteq DOMAIN rows
  /\ \A i \in DOMAIN rows : i \in origin[i] /\ origin[i] \subseteq DOMAIN rows

\* In whatever order the rows are resolved and whichever paths the walks reuse,
\* a path is the chain of recorded parent references and sequences up to the
\* root or to a stated path (_resolve_mft).
PathsFollowReferences ==
  \A i \in DOMAIN rows :
    path[i] # None => Distance(i) # None /\ path[i] = TruePath(i)

\* Once all rows are resolved every row within the depth bound has its path:
\* no order of rows, cycle or reused record keeps it from being found, and
\* without a mount point only stated paths are built upon (_resolve_mft).
RowsInReachHavePaths ==
  pending = {} =>
    \A i \in DOMAIN rows :
      LET n == Distance(i)
          mounted == Mount # None \/ rows[Ancestor(i, n)].given
      IN  (n # None /\ n > 0 /\ n <= Depth /\ mounted /\ Simple(i)) =>
              path[i] # None

\* Who reads a resolved path finds the rows that its names come from in the
\* provenance of the event, also when the walk stopped at a path found before
\* (_resolve_mft).
NamesHaveProvenance ==
  \A i \in DOMAIN rows :
    path[i] # None =>
      \A n \in 0..Distance(i) : Ancestor(i, n) \in origin[i]

\* A journal record is never given the path of another name of its file: with
\* hard links, one of them without a path, the name decides (_usn).
JournalPathsAreTheirOwn ==
  pending = {} =>
    \A record \in Journal :
      UsnPath(record) # None =>
        \E i \in Candidates(record) :
          rows[i].name = record.name /\ UsnPath(record) = path[i]

\* The resolved paths are the chains of recorded references in reach, all of
\* them, and name where they come from (_resolve_mft).
PathsAreRecorded == PathsFollowReferences /\ RowsInReachHavePaths /\ NamesHaveProvenance
=============================================================================
