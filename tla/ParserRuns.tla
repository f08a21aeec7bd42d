----------------------------- MODULE ParserRuns -----------------------------
(***************************************************************************)
(* How the outcomes of parser runs add up to the outcome of an import.     *)
(* Every importer, the memory jobs included, ends in import_batch.         *)
(***************************************************************************)

\* ImportReport.status.
Status == {"SUCCESS", "PARTIAL", "FAILED", "CANCELLED", "UNAVAILABLE"}

\* RunStatus values a parser run can end with.
RunStatus == {"SUCCESS", "FAILED", "TIMEOUT", "CANCELLED", "UNAVAILABLE", "SKIPPED"}

\* Mutant: a timeout keeps its own status instead of counting as a failure.
TimeoutKeepsStatus(batch) ==
  IF batch.states = {"SUCCESS"} THEN "SUCCESS"
  ELSE IF batch.events # {} THEN "PARTIAL"
  ELSE IF "TIMEOUT" \in batch.states THEN "TIMEOUT"
  ELSE IF "FAILED" \in batch.states THEN "FAILED"
  ELSE IF "CANCELLED" \in batch.states THEN "CANCELLED"
  ELSE "UNAVAILABLE"

\* Mutant: a failed run outranks the events the other runs produced.
FailureOutranksEvents(batch) ==
  IF batch.states = {"SUCCESS"} THEN "SUCCESS"
  ELSE IF batch.states \cap {"FAILED", "TIMEOUT"} # {} THEN "FAILED"
  ELSE IF batch.events # {} THEN "PARTIAL"
  ELSE IF "CANCELLED" \in batch.states THEN "CANCELLED"
  ELSE "UNAVAILABLE"

\* import_batch: the status of a batch of events and the states of its runs.
ImportStatus(batch) ==
  IF batch.states = {"SUCCESS"} THEN "SUCCESS"
  ELSE IF batch.events # {} THEN "PARTIAL"
  ELSE IF batch.states \cap {"FAILED", "TIMEOUT"} # {} THEN "FAILED"
  ELSE IF "CANCELLED" \in batch.states THEN "CANCELLED"
  ELSE "UNAVAILABLE"

\* Mutant: the runs of a refused import keep their states.
StaysSuccessful(state) == state

\* The state of a run once the storage has refused its import.
Refused(state) == IF state = "SUCCESS" THEN "FAILED" ELSE state
=============================================================================
