--------------------------- MODULE DatasetReview ----------------------------
(***************************************************************************)
(* DatasetStore (dataset_review.py): the review life cycle that a dataset  *)
(* goes through before jobs may train on it.  The store is in memory only. *)
(*                                                                         *)
(* A synthetic shape is the row count, the declared schema as far as the   *)
(* validation tells schemas apart, and the reason that parsing the         *)
(* registration may already have set.                                      *)
(***************************************************************************)
EXTENDS Naturals

CONSTANTS
  DatasetIds,     \* registrable dataset ids
  FixtureIds,     \* FIXTURE_APPROVED_DATASET_IDS
  MinRows, MaxRows,  \* SYNTHETIC_ROW_COUNT_MIN and _MAX
  RowCounts,      \* the row counts that registrations declare
  NoReason        \* no rejection reason

ASSUME ReviewAssumption ==
  /\ FixtureIds \subseteq DatasetIds
  /\ MinRows \in RowCounts /\ RowCounts \subseteq Nat
  /\ MaxRows \in Nat /\ MinRows <= MaxRows
  /\ NoReason \notin {"SYNTHETIC_LIMIT", "FORMAT_INVALID", "POLICY_VIOLATION",
                      "SCHEMA_MISMATCH", "DUPLICATE_SUBMISSION"}

VARIABLE datasets   \* _datasets: the record of every id

Reason ==
  { "SYNTHETIC_LIMIT", "FORMAT_INVALID", "POLICY_VIOLATION", "SCHEMA_MISMATCH",
    "DUPLICATE_SUBMISSION" }

Shape ==
  [ rows: RowCounts,
    schema: {"synthetic", "other", "forbidden"},
    parseReason: {NoReason, "FORMAT_INVALID"} ]

DefaultShape == [rows |-> MinRows, schema |-> "synthetic", parseReason |-> NoReason]

DatasetStatus == {"registered", "pending_review", "approved", "rejected"}

DatasetRecord ==
  [ status: DatasetStatus \cup {"unknown"},
    reason: Reason \cup {NoReason},
    shape: Shape ]

UnknownDataset == [status |-> "unknown", reason |-> NoReason, shape |-> DefaultShape]

\* _DATASET_TRANSITIONS; the faulty variant lets a registered dataset be approved.
LaxTransitions ==
  [ registered |-> {"pending_review", "approved"},
    pending_review |-> {"approved", "rejected"}, approved |-> {}, rejected |-> {} ]
DatasetTransitions ==
  [ registered     |-> {"pending_review"},
    pending_review |-> {"approved", "rejected"},
    approved       |-> {},
    rejected       |-> {} ]

CanReview(current, next) == current = next \/ next \in DatasetTransitions[current]

\* What dataset_shape_from_registration() makes of a request: with a wrong type
\* or an unknown key, a default shape that carries the reason.
ParsedShape(rows, schema, wellFormed) ==
  IF wellFormed THEN [DefaultShape EXCEPT !.rows = rows, !.schema = schema]
  ELSE [DefaultShape EXCEPT !.parseReason = "FORMAT_INVALID"]

\* Faulty variant: a reason that is no RejectionReasonCode.
VerdictUncoded(shape) ==
  IF shape.rows \notin MinRows .. MaxRows THEN "ROW_COUNT" ELSE shape.parseReason

\* validate_synthetic_dataset_shape()
Verdict(shape) ==
  IF shape.parseReason # NoReason THEN shape.parseReason
  ELSE IF shape.rows \notin MinRows .. MaxRows THEN "SYNTHETIC_LIMIT"
  ELSE CASE shape.schema = "forbidden" -> "POLICY_VIOLATION"
         [] shape.schema = "other"     -> "SCHEMA_MISMATCH"
         [] shape.schema = "synthetic" -> NoReason

Approved(d) == datasets[d].status = "approved"

-----------------------------------------------------------------------------
\* The state of a new process: the fixtures are approved, nothing else is known.
Init ==
  datasets = [d \in DatasetIds |->
                IF d \in FixtureIds THEN [UnknownDataset EXCEPT !.status = "approved"]
                ELSE UnknownDataset]

\* Faulty variant: a registration starts the review of a known dataset anew.
RegisterAnew(d, shape) ==
  datasets' = [datasets EXCEPT ![d] =
                 [UnknownDataset EXCEPT !.status = "registered", !.shape = shape]]

\* register_shape(): a known dataset is returned as it is, or refused.
Register(d, shape) ==
  /\ datasets[d].status = "unknown"
  /\ datasets' = [datasets EXCEPT ![d] =
                    [UnknownDataset EXCEPT !.status = "registered", !.shape = shape]]

\* submit_for_review(): the dataset passes through pending_review and is decided
\* at once, under the lock.
Submit(d) ==
  /\ datasets[d].status # "unknown"
  /\ CanReview(datasets[d].status, "pending_review")
  /\ LET verdict == Verdict(datasets[d].shape)
     IN  datasets' = [datasets EXCEPT
           ![d].status = IF verdict = NoReason THEN "approved" ELSE "rejected",
           ![d].reason = verdict]

Approve(d) ==
  /\ datasets[d].status # "unknown"
  /\ CanReview(datasets[d].status, "approved")
  /\ datasets' = [datasets EXCEPT ![d].status = "approved"]

\* Faulty variant: the reason of the latest reviewer wins.
RejectAgain(d, reason) ==
  /\ datasets[d].status \in {"pending_review", "rejected"}
  /\ datasets' = [datasets EXCEPT ![d].status = "rejected", ![d].reason = reason]

\* reject(): a rejected dataset keeps its first reason.
Reject(d, reason) ==
  /\ datasets[d].status # "unknown"
  /\ CanReview(datasets[d].status, "rejected")
  /\ datasets' = IF datasets[d].status = "rejected" THEN datasets
                 ELSE [datasets EXCEPT ![d].status = "rejected", ![d].reason = reason]

Review ==
  \E d \in DatasetIds :
    \/ \E rows \in RowCounts, schema \in {"synthetic", "other", "forbidden"},
          wellFormed \in BOOLEAN : Register(d, ParsedShape(rows, schema, wellFormed))
    \/ Submit(d)
    \/ Approve(d)
    \/ \E reason \in Reason : Reject(d, reason)

Spec == Init /\ [][Review]_datasets

-----------------------------------------------------------------------------
\* Every record has the shape of DatasetRecord.
TypeOK == datasets \in [DatasetIds -> DatasetRecord]

\* No order of registrations, submissions and reviews approves a dataset but one of
\* the synthetic schema, that was declared well-formed and with a row count between
\* the bounds, both included.
ApprovedIsValidated ==
  \A d \in DatasetIds :
    LET shape == datasets[d].shape
    IN  Approved(d) => /\ MinRows <= shape.rows /\ shape.rows <= MaxRows
                       /\ shape.schema = "synthetic"
                       /\ shape.parseReason = NoReason

\* A dataset carries a reason exactly when it is rejected, and then the one that
\* its validation gave: no later review replaces it.
RejectionIsExplained ==
  \A d \in DatasetIds :
    LET rec == datasets[d]
    IN  /\ rec.status = "rejected" <=> rec.reason # NoReason
        /\ rec.reason # NoReason => rec.reason = Verdict(rec.shape)

\* A decision is final, and the shape it was taken on cannot be swapped.
DecisionIsFinal ==
  [][\A d \in DatasetIds :
       /\ datasets[d].status \in {"approved", "rejected"} => datasets'[d] = datasets[d]
       /\ datasets[d].status # "unknown" => datasets'[d].shape = datasets[d].shape]_datasets
=============================================================================
