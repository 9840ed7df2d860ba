-------------------------- MODULE RequestContract ---------------------------
(***************************************************************************)
(* The three validators that a training request meets, each in another     *)
(* place: from_mapping() (contracts.py, retention.py) when it is posted,   *)
(* the worker (fake_worker.py, gpu_worker.py) when it runs, and            *)
(* from_mapping() again when a later process reads it back from the file.  *)
(* A request that one of them takes and another refuses is a job that can  *)
(* only fail, or a file that no process starts from.                       *)
(*                                                                         *)
(* One request is followed.  Its strings are named for what the patterns   *)
(* make of them; learning rates are in millionths.                         *)
(***************************************************************************)
EXTENDS Integers

CONSTANTS
  Payloads,  \* the request bodies that are posted
  Absent,    \* a key that is not in the body
  Bad,       \* a value of another type: null, a string, a bool, NaN
  Refused    \* ApiError(VALIDATION_ERROR, 400)

\* What json.loads() can make of a body: a key may be absent or hold a value of
\* another type.  Absent and mistyped strings are among the "other" ones.
Number == {Absent, Bad} \cup Int

Flag == {Absent, Bad} \cup BOOLEAN

Classes == {"ephemeral", "standard", "extended"}

Datasets == {"fixture", "own", "other"}

Models == {"tiny", "gpu", "other"}

PolicyMapping == [extra: BOOLEAN, class: Classes \cup {"other"}, ttl: Number]

ParametersMapping == [extra: BOOLEAN, epochs: Number, rate: Number, dryRun: Flag]

RequestMapping ==
  [ keys: {"known", "unknown", "forbidden"}, names: {"safe", "unsafe"},
    dataset: Datasets, model: Models, retention: {Absent, Bad} \cup PolicyMapping,
    parameters: {Absent, Bad} \cup ParametersMapping ]

ASSUME PayloadsAssumption == Payloads \subseteq RequestMapping

\* RetentionPolicy and TrainingJobRequest, which the validators make of a body.
RetentionPolicy == [class: Classes, ttl: Int]

TrainingJobRequest ==
  [ dataset: Datasets, model: Models, retention: RetentionPolicy,
    parameters: ParametersMapping ]

\* The three values are no parts of a body, and nothing that is made of one.
ASSUME SentinelsAssumption ==
  /\ Absent # Bad /\ Absent # Refused /\ Bad # Refused
  /\ {Absent, Bad, Refused} \cap Int = {}
  /\ {Absent, Bad, Refused} \cap BOOLEAN = {}
  /\ \A v \in {Absent, Bad, Refused} :
       /\ v \notin PolicyMapping /\ v \notin ParametersMapping
       /\ v \notin RetentionPolicy /\ v \notin TrainingJobRequest

VARIABLES
  payload,   \* the body
  stage,     \* "posted", "refused", "stopped", or the status of the job
  request,   \* the TrainingJobRequest of the record
  artifact,  \* the retention policy of the registered artifact, or Absent
  trained    \* the parameters that were trained with, or Absent

vars == <<payload, stage, request, artifact, trained>>

-----------------------------------------------------------------------------
(***************************************************************************)
(* retention.py                                                            *)
(***************************************************************************)
RetentionBounds ==
  [ ephemeral |-> [default |-> 3600, min |-> 60, max |-> 86400],
    standard |-> [default |-> 2592000, min |-> 3600, max |-> 7776000],
    extended |-> [default |-> 31536000, min |-> 86400, max |-> 63072000] ]

DefaultRetention ==
  [class |-> "standard", ttl |-> RetentionBounds["standard"].default]

\* `extra`: a key that is not known.  None is like no policy at all.
RetentionOf(v) ==
  IF v = Absent THEN DefaultRetention
  ELSE IF v = Bad THEN Refused
  ELSE IF v.extra \/ v.class \notin DOMAIN RetentionBounds THEN Refused
  ELSE LET bounds == RetentionBounds[v.class]
           ttl == IF v.ttl = Absent THEN bounds.default ELSE v.ttl
       IN  IF ttl = Bad THEN Refused
           ELSE IF ttl \notin bounds.min..bounds.max THEN Refused
           ELSE [class |-> v.class, ttl |-> ttl]

\* What to_public_dict() of a policy and of the parameters writes.
AsMapping(policy) == [extra |-> FALSE, class |-> policy.class, ttl |-> policy.ttl]

-----------------------------------------------------------------------------
(***************************************************************************)
(* contracts.py                                                            *)
(***************************************************************************)
MaxEpochs == 3
MaxRate == 1000000

\* validate_training_parameters(): keys that are absent stay so.
EpochsOk(v) == v = Absent \/ (v # Bad /\ v \in 1..MaxEpochs)

\* Faulty variant: a learning rate of zero is taken.
RateNotNegative(v) == v = Absent \/ (v # Bad /\ v \in 0..MaxRate)

RateOk(v) == v = Absent \/ (v # Bad /\ v \in 1..MaxRate)

\* Faulty variant: GPU jobs may leave dryRun out.
DryRunOptional(v, gpu, required) ==
  IF gpu THEN v \in {FALSE, Absent} ELSE v = TRUE \/ (v = Absent /\ ~required)

DryRunOk(v, gpu, required) ==
  IF gpu THEN v = FALSE ELSE v = TRUE \/ (v = Absent /\ ~required)

ParametersOf(v, gpu, required) ==
  LET p == IF v = Absent
           THEN [extra |-> FALSE, epochs |-> Absent, rate |-> Absent, dryRun |-> Absent]
           ELSE v
  IN  IF p = Bad THEN Refused
      ELSE IF /\ ~p.extra
              /\ EpochsOk(p.epochs) /\ RateOk(p.rate)
              /\ DryRunOk(p.dryRun, gpu, required)
           THEN p ELSE Refused

\* `keys`: what is to say of the keys of the body, nested ones included; `names`:
\* whether idempotencyKey, modelId and requestedBy match their patterns.
KeysOk(p) == p.keys = "known"

NamesOk(p) == p.names = "safe"

DatasetOk(d) == d \in {"fixture", "own"}

\* TrainingJobRequest.from_mapping()
FromMapping(p) ==
  LET gpu == p.model = "gpu"
      retention == RetentionOf(p.retention)
      parameters == ParametersOf(p.parameters, gpu, p.dataset = "own")
  IN  IF /\ KeysOk(p) /\ NamesOk(p) /\ DatasetOk(p.dataset)
         /\ p.model \in {"tiny", "gpu"}
         /\ gpu => p.dataset = "own"
         /\ retention # Refused /\ parameters # Refused
      THEN [ dataset |-> p.dataset, model |-> p.model,
             retention |-> retention, parameters |-> parameters ]
      ELSE Refused

\* to_persisted_dict() of the request.  The faulty variant leaves the flag out.
WriteWithoutFlag(r) ==
  [ keys |-> "known", names |-> "safe", dataset |-> r.dataset, model |-> r.model,
    retention |-> AsMapping(r.retention),
    parameters |-> [r.parameters EXCEPT !.dryRun = Absent] ]

Write(r) ==
  [ keys |-> "known", names |-> "safe", dataset |-> r.dataset, model |-> r.model,
    retention |-> AsMapping(r.retention), parameters |-> r.parameters ]

-----------------------------------------------------------------------------
(***************************************************************************)
(* gpu_worker.py                                                           *)
(***************************************************************************)
DefaultEpochs == 1
DefaultRate == 200
LeastRate == 10
MostRate == 500

Clamp(lo, n, hi) == IF n < lo THEN lo ELSE IF n > hi THEN hi ELSE n

\* clamp_training_parameters()
ClampParameters(p) ==
  [ epochs |-> IF p.epochs = Absent THEN DefaultEpochs ELSE Clamp(1, p.epochs, MaxEpochs),
    rate |-> IF p.rate = Absent THEN DefaultRate ELSE Clamp(LeastRate, p.rate, MostRate),
    dryRun |-> FALSE ]

\* The checks of run_job() and of execute_gpu_worker_envelope(); a value of an
\* envelope is an int, a float or a bool.
Runnable(r) ==
  /\ r.model = "gpu" /\ r.dataset = "own"
  /\ r.parameters.dryRun = FALSE
  /\ Bad \notin {r.parameters.epochs, r.parameters.rate}

-----------------------------------------------------------------------------
Init ==
  /\ payload \in Payloads
  /\ stage = "posted"
  /\ request = Absent /\ artifact = Absent /\ trained = Absent

\* POST /training/jobs with a dataset that is approved.
Accept ==
  /\ stage = "posted" /\ FromMapping(payload) # Refused
  /\ stage' = "queued"
  /\ request' = FromMapping(payload)
  /\ UNCHANGED <<payload, artifact, trained>>

Refuse ==
  /\ stage = "posted" /\ FromMapping(payload) = Refused
  /\ stage' = "refused"
  /\ UNCHANGED <<payload, request, artifact, trained>>

Start ==
  /\ stage = "queued"
  /\ stage' = "running"
  /\ UNCHANGED <<payload, request, artifact, trained>>

\* _dispatch_worker(): the fake worker runs the request as it is, the GPU worker
\* what it makes of the envelope; what the GPU worker refuses fails.
Train ==
  /\ stage = "running"
  /\ IF request.model = "gpu" => Runnable(request)
     THEN /\ stage' = "succeeded"
          /\ artifact' = request.retention
          /\ trained' = IF request.model = "tiny" THEN request.parameters
                        ELSE ClampParameters(request.parameters)
     ELSE stage' = "failed" /\ UNCHANGED <<artifact, trained>>
  /\ UNCHANGED <<payload, request>>

\* A later process runs _load(): the request and the policy of the artifact are
\* validated again; a refusal ends the process.
Reload ==
  LET again == FromMapping(Write(request))
      policy == IF artifact = Absent THEN Absent ELSE RetentionOf(AsMapping(artifact))
  IN  /\ stage \notin {"posted", "refused", "stopped"}
      /\ IF Refused \in {again, policy}
         THEN stage' = "stopped" /\ UNCHANGED <<request, artifact>>
         ELSE request' = again /\ artifact' = policy /\ UNCHANGED stage
      /\ UNCHANGED <<payload, trained>>

\* The life of a request may end with a refusal.
Next == Accept \/ Refuse \/ Start \/ Train \/ Reload

Spec == Init /\ [][Next]_vars

-----------------------------------------------------------------------------
(***************************************************************************)
(* Correctness.                                                            *)
(***************************************************************************)

\* What docs/TRAINING-API-CONTRACT.md allows: policies inside the range of their
\* class, the parameters bounded, and the two shapes of model and flag.
Within(range, v) == v = Absent \/ (v # Bad /\ v \in range)

AllowedPolicy(v) ==
  \/ v = Absent
  \/ /\ v # Bad
     /\ ~v.extra
     /\ \E c \in {"ephemeral", "standard", "extended"} :
          v.class = c /\ Within(RetentionBounds[c].min..RetentionBounds[c].max, v.ttl)

AllowedEpochs == 3

AllowedRate == 1000000

AllowedShape(p) ==
  LET flag == IF p.parameters = Absent THEN Absent ELSE p.parameters.dryRun
  IN  \/ p.model = "gpu" /\ p.dataset = "own" /\ flag = FALSE
      \/ p.model = "tiny" /\ p.dataset = "own" /\ flag = TRUE
      \/ p.model = "tiny" /\ p.dataset = "fixture" /\ flag \in {TRUE, Absent}

Allowed(p) ==
  /\ p.keys = "known" /\ p.names = "safe"
  /\ AllowedPolicy(p.retention)
  /\ p.parameters # Bad
  /\ p.parameters # Absent =>
       /\ ~p.parameters.extra
       /\ Within(1..AllowedEpochs, p.parameters.epochs)
       /\ Within(1..AllowedRate, p.parameters.rate)
  /\ AllowedShape(p)

\* The validators, one inside the other, take just the bodies of the contract.
ContractIsEnforced ==
  stage # "posted" => (stage = "refused" <=> ~Allowed(payload))

\* A request that was accepted is accepted again from the file, whatever its job
\* has come to, and is the same request, hence of the same id: no start is refused for
\* what an earlier process let in.
AcceptedReloads ==
  /\ stage # "stopped"
  /\ stage \notin {"posted", "refused"} => request = FromMapping(payload)

\* The worker refuses no request that the API has accepted, and trains within
\* the bounds of the trainer, with the client's numbers where these are inside.
AcceptedTrains ==
  /\ stage # "failed"
  /\ stage = "succeeded" /\ request.model = "gpu" =>
       /\ trained.epochs \in 1..3 /\ trained.rate \in 10..500 /\ trained.dryRun = FALSE
       /\ request.parameters.epochs # Absent => trained.epochs = request.parameters.epochs
       /\ request.parameters.rate # Absent /\ request.parameters.rate \in 10..500 =>
            trained.rate = request.parameters.rate
=============================================================================
