------------------------ MODULE DatasetReviewProofs -------------------------
(***************************************************************************)
(* Proofs about DatasetReview for every value of its constants.            *)
(***************************************************************************)
EXTENDS DatasetReview, TLAPS

\* The validation of a shape ends in a reason code or in no reason.
LEMMA VerdictType ==
  ASSUME NEW shape \in Shape
  PROVE  Verdict(shape) \in Reason \cup {NoReason}
<1>1. /\ shape.schema \in {"synthetic", "other", "forbidden"}
      /\ shape.parseReason \in {NoReason, "FORMAT_INVALID"}
  BY DEF Shape
<1> QED BY <1>1 DEF Verdict, Reason

\* It ends in no reason just for the shapes that may be approved.
LEMMA VerdictMeaning ==
  ASSUME NEW shape \in Shape
  PROVE  Verdict(shape) = NoReason <=> /\ MinRows <= shape.rows /\ shape.rows <= MaxRows
                                       /\ shape.schema = "synthetic"
                                       /\ shape.parseReason = NoReason
<1>1. /\ shape.schema \in {"synthetic", "other", "forbidden"}
      /\ shape.parseReason \in {NoReason, "FORMAT_INVALID"}
      /\ shape.rows \in Nat /\ MinRows \in Nat /\ MaxRows \in Nat
  BY ReviewAssumption DEF Shape
<1>2. shape.rows \in MinRows .. MaxRows <=> MinRows <= shape.rows /\ shape.rows <= MaxRows
  BY <1>1
<1> QED BY <1>1, <1>2, ReviewAssumption DEF Verdict

LEMMA DefaultsType == DefaultShape \in Shape /\ UnknownDataset \in DatasetRecord
<1>1. DefaultShape \in Shape
  BY ReviewAssumption DEF DefaultShape, Shape
<1> QED BY <1>1 DEF UnknownDataset, DatasetRecord

LEMMA ParsedShapeType ==
  ASSUME NEW rows \in RowCounts, NEW schema \in {"synthetic", "other", "forbidden"},
         NEW wellFormed \in BOOLEAN
  PROVE  ParsedShape(rows, schema, wellFormed) \in Shape
BY DefaultsType DEF ParsedShape, Shape

-----------------------------------------------------------------------------
(***************************************************************************)
(* The inductive invariant.  submit_for_review() decides under the lock,   *)
(* so that no other call ever finds a dataset in pending_review: without   *)
(* this part, approve() and reject() of such a dataset would break the     *)
(* other parts.                                                            *)
(***************************************************************************)
NoneIsPending == \A d \in DatasetIds : datasets[d].status # "pending_review"

ReviewInv == TypeOK /\ NoneIsPending /\ ApprovedIsValidated /\ RejectionIsExplained

\* A record as every call leaves it.
Settled(rec) ==
  /\ rec \in DatasetRecord
  /\ rec.status # "pending_review"
  /\ rec.status = "approved" => Verdict(rec.shape) = NoReason
  /\ rec.status = "rejected" <=> rec.reason # NoReason
  /\ rec.reason # NoReason => rec.reason = Verdict(rec.shape)

LEMMA ReviewInvByRecord ==
  ReviewInv <=> datasets \in [DatasetIds -> DatasetRecord]
                /\ \A d \in DatasetIds : Settled(datasets[d])
<1>1. ASSUME datasets \in [DatasetIds -> DatasetRecord], NEW d \in DatasetIds
      PROVE  Verdict(datasets[d].shape) = NoReason
               <=> /\ MinRows <= datasets[d].shape.rows /\ datasets[d].shape.rows <= MaxRows
                   /\ datasets[d].shape.schema = "synthetic"
                   /\ datasets[d].shape.parseReason = NoReason
  <2>1. datasets[d].shape \in Shape
    BY <1>1 DEF DatasetRecord
  <2> QED BY <2>1, VerdictMeaning
<1> QED BY <1>1 DEF ReviewInv, TypeOK, NoneIsPending, ApprovedIsValidated,
        RejectionIsExplained, Approved, Settled

LEMMA ReviewInvByRecordNext ==
  ReviewInv' <=> datasets' \in [DatasetIds -> DatasetRecord]
                 /\ \A d \in DatasetIds : Settled(datasets'[d])
<1>1. ASSUME datasets' \in [DatasetIds -> DatasetRecord], NEW d \in DatasetIds
      PROVE  Verdict(datasets'[d].shape) = NoReason
               <=> /\ MinRows <= datasets'[d].shape.rows /\ datasets'[d].shape.rows <= MaxRows
                   /\ datasets'[d].shape.schema = "synthetic"
                   /\ datasets'[d].shape.parseReason = NoReason
  <2>1. datasets'[d].shape \in Shape
    BY <1>1 DEF DatasetRecord
  <2> QED BY <2>1, VerdictMeaning
<1> QED BY <1>1 DEF ReviewInv, TypeOK, NoneIsPending, ApprovedIsValidated,
        RejectionIsExplained, Approved, Settled

LEMMA InitIsSettled ==
  ASSUME Init
  PROVE  ReviewInv
<1>1. DefaultShape \in Shape /\ UnknownDataset \in DatasetRecord
  BY DefaultsType
<1>2. Verdict(DefaultShape) = NoReason
  BY ReviewAssumption DEF Verdict, DefaultShape
<1>3. Settled(UnknownDataset)
  BY <1>1 DEF Settled, UnknownDataset
<1>4. Settled([UnknownDataset EXCEPT !.status = "approved"])
  BY <1>1, <1>2 DEF Settled, UnknownDataset, DatasetRecord, DatasetStatus
<1> QED BY <1>3, <1>4, ReviewInvByRecord DEF Init, Settled

\* A call of the store changes one record, which it leaves settled; it changes a
\* decided record not at all, and no shape that was registered.
LEMMA ReviewStep ==
  ASSUME ReviewInv, Review
  PROVE  \E d \in DatasetIds, rec \in DatasetRecord :
           /\ datasets' = [datasets EXCEPT ![d] = rec]
           /\ Settled(rec)
           /\ datasets[d].status \in {"approved", "rejected"} => rec = datasets[d]
           /\ datasets[d].status # "unknown" => rec.shape = datasets[d].shape
<1> DEFINE Good(d, rec) ==
      /\ datasets' = [datasets EXCEPT ![d] = rec]
      /\ Settled(rec)
      /\ datasets[d].status \in {"approved", "rejected"} => rec = datasets[d]
      /\ datasets[d].status # "unknown" => rec.shape = datasets[d].shape
<1>1. datasets \in [DatasetIds -> DatasetRecord] /\ \A d \in DatasetIds : Settled(datasets[d])
  BY ReviewInvByRecord
<1>2. ASSUME NEW d \in DatasetIds, NEW shape \in Shape, Register(d, shape)
      PROVE  \E rec \in DatasetRecord : Good(d, rec)
  <2> DEFINE rec == [UnknownDataset EXCEPT !.status = "registered", !.shape = shape]
  <2>1. /\ rec \in DatasetRecord
        /\ rec.status = "registered" /\ rec.shape = shape /\ rec.reason = NoReason
    BY DefaultsType DEF UnknownDataset, DatasetRecord, DatasetStatus
  <2>2. datasets[d].status = "unknown" /\ datasets' = [datasets EXCEPT ![d] = rec]
    BY <1>2 DEF Register
  <2> HIDE DEF rec
  <2> QED BY <2>1, <2>2 DEF Settled
<1>3. ASSUME NEW d \in DatasetIds, Submit(d)
      PROVE  \E rec \in DatasetRecord : Good(d, rec)
  <2> DEFINE verdict == Verdict(datasets[d].shape)
             status == IF verdict = NoReason THEN "approved" ELSE "rejected"
             rec == [datasets[d] EXCEPT !.status = status, !.reason = verdict]
  <2>1. datasets[d] \in DatasetRecord /\ datasets[d].shape \in Shape
    BY <1>1 DEF DatasetRecord
  <2>2. verdict \in Reason \cup {NoReason}
    BY <2>1, VerdictType
  <2>3. datasets[d].status = "registered"
    BY <1>1, <1>3 DEF Submit, CanReview, DatasetTransitions, Settled, DatasetRecord,
       DatasetStatus
  <2>4. datasets' = [datasets EXCEPT ![d] = rec]
    BY <1>1, <1>3, <2>1 DEF Submit, DatasetRecord
  <2> HIDE DEF verdict
  <2>5. /\ rec \in DatasetRecord
        /\ rec.status = status /\ rec.reason = verdict /\ rec.shape = datasets[d].shape
    BY <2>1, <2>2 DEF DatasetRecord, DatasetStatus
  <2>6. Settled(rec)
    BY <2>2, <2>5, ReviewAssumption DEF Settled, Reason, verdict
  <2> HIDE DEF rec
  <2> QED BY <2>3, <2>4, <2>5, <2>6
<1>4. ASSUME NEW d \in DatasetIds, Approve(d)
      PROVE  \E rec \in DatasetRecord : Good(d, rec)
  <2>1. datasets[d] \in DatasetRecord /\ Settled(datasets[d])
    BY <1>1
  <2>2. datasets[d].status = "approved"
    BY <2>1, <1>4 DEF Approve, CanReview, DatasetTransitions, Settled, DatasetRecord,
       DatasetStatus
  <2>3. [datasets[d] EXCEPT !.status = "approved"] = datasets[d]
    BY <2>1, <2>2 DEF DatasetRecord
  <2>4. datasets' = [datasets EXCEPT ![d] = [datasets[d] EXCEPT !.status = "approved"]]
    BY <1>1, <1>4 DEF Approve
  <2>5. datasets' = [datasets EXCEPT ![d] = datasets[d]]
    BY <2>3, <2>4
  <2> QED BY <2>1, <2>5
<1>5. ASSUME NEW d \in DatasetIds, NEW reason \in Reason, Reject(d, reason)
      PROVE  \E rec \in DatasetRecord : Good(d, rec)
  <2>1. datasets[d] \in DatasetRecord /\ Settled(datasets[d])
    BY <1>1
  <2>2. datasets[d].status = "rejected"
    BY <2>1, <1>5 DEF Reject, CanReview, DatasetTransitions, Settled, DatasetRecord,
       DatasetStatus
  <2>3. datasets' = [datasets EXCEPT ![d] = datasets[d]]
    BY <1>1, <1>5, <2>2 DEF Reject
  <2> QED BY <2>1, <2>3
<1> HIDE DEF Good
<1>6. \E d \in DatasetIds : \E rec \in DatasetRecord : Good(d, rec)
  BY <1>2, <1>3, <1>4, <1>5, ParsedShapeType DEF Review
<1> QED BY <1>6 DEF Good

LEMMA ReviewKeepsInv ==
  ASSUME ReviewInv, [Review]_datasets
  PROVE  ReviewInv'
<1>1. CASE Review
  <2>1. PICK d \in DatasetIds, rec \in DatasetRecord :
          datasets' = [datasets EXCEPT ![d] = rec] /\ Settled(rec)
    BY <1>1, ReviewStep
  <2>2. datasets \in [DatasetIds -> DatasetRecord]
        /\ \A e \in DatasetIds : Settled(datasets[e])
    BY ReviewInvByRecord
  <2> QED BY <2>1, <2>2, ReviewInvByRecordNext
<1>2. CASE datasets' = datasets
  BY <1>2, ReviewInvByRecord, ReviewInvByRecordNext
<1> QED BY <1>1, <1>2

-----------------------------------------------------------------------------
\* The records of the datasets, and what their statuses say of their shapes and
\* reasons, stay consistent in every behaviour of the dataset store.
THEOREM ReviewInvariant == Spec => []ReviewInv
<1>1. Init => ReviewInv
  BY InitIsSettled
<1>2. ReviewInv /\ [Review]_datasets => ReviewInv'
  BY ReviewKeepsInv
<1> QED BY <1>1, <1>2, PTL DEF Spec

\* Every record keeps its shape.
THEOREM ReviewTypeCorrectness == Spec => []TypeOK
<1>1. ReviewInv => TypeOK
  BY DEF ReviewInv
<1> QED BY <1>1, ReviewInvariant, PTL

\* No order of registrations, submissions, approvals and rejections approves a
\* shape that the validation refuses.
THEOREM ApprovalIsValidated == Spec => []ApprovedIsValidated
<1>1. ReviewInv => ApprovedIsValidated
  BY DEF ReviewInv
<1> QED BY <1>1, ReviewInvariant, PTL

\* A dataset has a reason exactly when it is rejected: the one of its validation.
THEOREM RejectionKeepsItsReason == Spec => []RejectionIsExplained
<1>1. ReviewInv => RejectionIsExplained
  BY DEF ReviewInv
<1> QED BY <1>1, ReviewInvariant, PTL

\* A decision and the shape that it was taken on are final.
THEOREM DecisionsAreFinal == Spec => DecisionIsFinal
<1> DEFINE Kept ==
      \A d \in DatasetIds :
        /\ datasets[d].status \in {"approved", "rejected"} => datasets'[d] = datasets[d]
        /\ datasets[d].status # "unknown" => datasets'[d].shape = datasets[d].shape
<1>1. ReviewInv /\ [Review]_datasets => [Kept]_datasets
  <2> SUFFICES ASSUME ReviewInv, Review
               PROVE  Kept
    OBVIOUS
  <2>1. PICK d \in DatasetIds, rec \in DatasetRecord :
          /\ datasets' = [datasets EXCEPT ![d] = rec]
          /\ datasets[d].status \in {"approved", "rejected"} => rec = datasets[d]
          /\ datasets[d].status # "unknown" => rec.shape = datasets[d].shape
    BY ReviewStep
  <2>2. datasets \in [DatasetIds -> DatasetRecord]
    BY ReviewInvByRecord
  <2> QED BY <2>1, <2>2
<1>2. DecisionIsFinal <=> [][Kept]_datasets
  BY DEF DecisionIsFinal
<1> HIDE DEF Kept
<1> QED BY <1>1, <1>2, ReviewInvariant, PTL DEF Spec
=============================================================================
