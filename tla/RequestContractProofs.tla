------------------------ MODULE RequestContractProofs ------------------------
(***************************************************************************)
(* Proofs about RequestContract, for every body that can be posted: the    *)
(* validators take just the bodies of the contract, what they have taken   *)
(* they take again when it is read back from the file, and the worker      *)
(* refuses none of it.                                                     *)
(*                                                                         *)
(* All three follow from what the validators make of a policy and of the   *)
(* parameters: something inside the bounds, which they map to itself.      *)
(***************************************************************************)
EXTENDS RequestContract, TLAPS

\* A policy and parameters that were validated.
ValidPolicy ==
  {r \in RetentionPolicy :
     r.ttl \in RetentionBounds[r.class].min..RetentionBounds[r.class].max}

ValidParameters(gpu, required) ==
  {p \in ParametersMapping :
     /\ ~p.extra
     /\ p.epochs \in 1..MaxEpochs \cup {Absent} /\ p.rate \in 1..MaxRate \cup {Absent}
     /\ DryRunOk(p.dryRun, gpu, required)}

-----------------------------------------------------------------------------
(***************************************************************************)
(* Retention policies.                                                     *)
(***************************************************************************)

\* The bounds of a class are a range around its default.
LEMMA Bounds ==
  /\ DOMAIN RetentionBounds = Classes
  /\ \A c \in Classes :
       /\ RetentionBounds[c].min \in Int /\ RetentionBounds[c].max \in Int
       /\ RetentionBounds[c].default \in RetentionBounds[c].min..RetentionBounds[c].max
<1>1. DOMAIN RetentionBounds = Classes
  BY SMT DEF RetentionBounds, Classes
<1>2. ASSUME NEW c \in Classes
      PROVE  /\ RetentionBounds[c].min \in Int /\ RetentionBounds[c].max \in Int
             /\ RetentionBounds[c].default \in RetentionBounds[c].min..RetentionBounds[c].max
  <2>1. CASE c = "ephemeral"
    BY <2>1, SMT DEF RetentionBounds
  <2>2. CASE c = "standard"
    BY <2>2, SMT DEF RetentionBounds
  <2>3. CASE c = "extended"
    BY <2>3, SMT DEF RetentionBounds
  <2> QED BY <2>1, <2>2, <2>3 DEF Classes
<1> QED BY <1>1, <1>2

\* A valid policy is none of the three values.
LEMMA PoliciesAreRecords ==
  ASSUME NEW r \in ValidPolicy
  PROVE  r \notin {Absent, Bad, Refused}
<1>1. r \in RetentionPolicy
  BY DEF ValidPolicy
<1> QED BY <1>1, SentinelsAssumption

LEMMA DefaultIsValid == DefaultRetention \in ValidPolicy
<1>1. "standard" \in Classes
  BY DEF Classes
<1>2. PICK n \in Int : n = RetentionBounds["standard"].default
  BY <1>1, Bounds
<1>3. DefaultRetention = [class |-> "standard", ttl |-> n]
  BY <1>2 DEF DefaultRetention
<1>4. n \in RetentionBounds["standard"].min..RetentionBounds["standard"].max
  BY <1>1, <1>2, Bounds
<1> QED BY <1>1, <1>3, <1>4 DEF ValidPolicy, RetentionPolicy

\* retention_policy_from_mapping() refuses, or returns a policy inside its bounds, and
\* refuses just what the contract does not allow.
LEMMA RetentionIsValid ==
  ASSUME NEW v \in {Absent, Bad} \cup PolicyMapping
  PROVE  /\ RetentionOf(v) \in ValidPolicy \cup {Refused}
         /\ RetentionOf(v) # Refused <=> AllowedPolicy(v)
<1>1. CASE v = Absent
  BY <1>1, DefaultIsValid, PoliciesAreRecords DEF RetentionOf, AllowedPolicy
<1>2. CASE v = Bad
  BY <1>2, SentinelsAssumption DEF RetentionOf, AllowedPolicy
<1>3. CASE v \in PolicyMapping
  <2>0. v # Absent /\ v # Bad /\ v.extra \in BOOLEAN /\ v.ttl \in Number
    BY <1>3, SentinelsAssumption DEF PolicyMapping
  <2>1. CASE v.extra \/ v.class \notin Classes
    BY <2>0, <2>1, Bounds DEF RetentionOf, AllowedPolicy, Classes
  <2>2. CASE ~v.extra /\ v.class \in Classes
    <3> DEFINE lo == RetentionBounds[v.class].min
               hi == RetentionBounds[v.class].max
               default == RetentionBounds[v.class].default
    <3>1. PICK ttl : ttl = IF v.ttl = Absent THEN default ELSE v.ttl
      OBVIOUS
    <3>2. RetentionOf(v) = IF ttl = Bad THEN Refused
                           ELSE IF ttl \notin lo..hi THEN Refused
                           ELSE [class |-> v.class, ttl |-> ttl]
      BY <2>0, <2>2, <3>1, Bounds DEF RetentionOf
    <3>3. AllowedPolicy(v) <=> Within(lo..hi, v.ttl)
      BY <2>0, <2>2 DEF AllowedPolicy, Classes
    <3>4. lo \in Int /\ hi \in Int /\ default \in lo..hi
      BY <2>2, Bounds
    <3>5. Within(lo..hi, v.ttl) <=> ttl # Bad /\ ttl \in lo..hi
      BY <2>0, <3>1, <3>4, SentinelsAssumption DEF Within, Number
    <3>6. ttl \in lo..hi => [class |-> v.class, ttl |-> ttl] \in ValidPolicy
      BY <2>2, <3>4 DEF ValidPolicy, RetentionPolicy
    <3> HIDE DEF lo, hi, default
    <3>7. CASE ttl # Bad /\ ttl \in lo..hi
      BY <3>2, <3>3, <3>5, <3>6, <3>7, PoliciesAreRecords
    <3>8. CASE ~(ttl # Bad /\ ttl \in lo..hi)
      BY <3>2, <3>3, <3>5, <3>8
    <3> QED BY <3>7, <3>8
  <2> QED BY <2>1, <2>2
<1> QED BY <1>1, <1>2, <1>3

\* The mapping of a valid policy is validated to the policy itself.
LEMMA PoliciesReload ==
  ASSUME NEW r \in ValidPolicy
  PROVE  RetentionOf(AsMapping(r)) = r
<1>1. r.class \in Classes /\ r.ttl \in Int
      /\ r.ttl \in RetentionBounds[r.class].min..RetentionBounds[r.class].max
  BY DEF ValidPolicy, RetentionPolicy
<1>2. PICK m : m = [extra |-> FALSE, class |-> r.class, ttl |-> r.ttl]
  OBVIOUS
<1>3. m \in PolicyMapping /\ m.extra = FALSE /\ m.class = r.class /\ m.ttl = r.ttl
  BY <1>1, <1>2 DEF PolicyMapping, Number
<1>4. m # Absent /\ m # Bad /\ m.ttl # Absent /\ m.ttl # Bad
  BY <1>1, <1>3, SentinelsAssumption
<1>5. RetentionOf(m) = [class |-> r.class, ttl |-> r.ttl]
  BY <1>1, <1>3, <1>4, Bounds DEF RetentionOf
<1>6. r = [class |-> r.class, ttl |-> r.ttl]
  BY DEF ValidPolicy, RetentionPolicy
<1> QED BY <1>2, <1>5, <1>6 DEF AsMapping

-----------------------------------------------------------------------------
(***************************************************************************)
(* Training parameters.                                                    *)
(***************************************************************************)

LEMMA MostInt == MaxEpochs \in Int /\ MaxRate \in Int
  BY SMT DEF MaxEpochs, MaxRate

\* What is inside the bounds is no value of another type.
LEMMA NumbersInRange ==
  ASSUME NEW v \in Number, NEW hi \in Int
  PROVE  Within(1..hi, v) <=> v \in 1..hi \cup {Absent}
  BY SentinelsAssumption DEF Number, Within

\* validate_training_parameters() refuses, or returns the parameters it was given, and
\* refuses just those outside of the bounds and those of the wrong flag.
LEMMA ParametersAreValid ==
  ASSUME NEW v \in {Absent, Bad} \cup ParametersMapping,
         NEW gpu \in BOOLEAN, NEW required \in BOOLEAN
  PROVE  /\ ParametersOf(v, gpu, required) \in ValidParameters(gpu, required) \cup {Refused}
         /\ ParametersOf(v, gpu, required) # Refused <=>
              /\ v # Bad
              /\ v # Absent => /\ ~v.extra
                               /\ Within(1..MaxEpochs, v.epochs) /\ Within(1..MaxRate, v.rate)
              /\ DryRunOk(IF v = Absent THEN Absent ELSE v.dryRun, gpu, required)
<1> DEFINE Ok(p) == /\ ~p.extra /\ EpochsOk(p.epochs) /\ RateOk(p.rate)
                    /\ DryRunOk(p.dryRun, gpu, required)
<1>1. ASSUME NEW p \in ParametersMapping
      PROVE  /\ Ok(p) <=> p \in ValidParameters(gpu, required)
             /\ Ok(p) <=> /\ ~p.extra
                          /\ Within(1..MaxEpochs, p.epochs) /\ Within(1..MaxRate, p.rate)
                          /\ DryRunOk(p.dryRun, gpu, required)
             /\ p \notin {Absent, Bad, Refused}
  <2>1. p.epochs \in Number /\ p.rate \in Number
    BY DEF ParametersMapping
  <2>2. /\ EpochsOk(p.epochs) <=> Within(1..MaxEpochs, p.epochs)
        /\ RateOk(p.rate) <=> Within(1..MaxRate, p.rate)
    BY DEF EpochsOk, RateOk, Within
  <2>3. /\ Within(1..MaxEpochs, p.epochs) <=> p.epochs \in 1..MaxEpochs \cup {Absent}
        /\ Within(1..MaxRate, p.rate) <=> p.rate \in 1..MaxRate \cup {Absent}
    BY <2>1, NumbersInRange, MostInt
  <2> QED BY <2>2, <2>3, SentinelsAssumption DEF ValidParameters
<1>2. CASE v = Absent
  <2>1. PICK p : p = [extra |-> FALSE, epochs |-> Absent, rate |-> Absent, dryRun |-> Absent]
    OBVIOUS
  <2>2. /\ p \in ParametersMapping /\ ~p.extra
        /\ p.epochs = Absent /\ p.rate = Absent /\ p.dryRun = Absent
    BY <2>1 DEF ParametersMapping, Number, Flag
  <2>3. ParametersOf(v, gpu, required) = IF p = Bad THEN Refused
                                         ELSE IF Ok(p) THEN p ELSE Refused
    BY <1>2, <2>1 DEF ParametersOf
  <2>4. Within(1..MaxEpochs, Absent) /\ Within(1..MaxRate, Absent)
    BY DEF Within
  <2> HIDE DEF Ok
  <2> QED BY <1>1, <1>2, <2>2, <2>3, <2>4, SentinelsAssumption
<1>3. CASE v = Bad
  <2>1. v # Absent
    BY <1>3, SentinelsAssumption
  <2>2. ParametersOf(v, gpu, required) = Refused
    BY <1>3, <2>1 DEF ParametersOf
  <2> QED BY <1>3, <2>2
<1>4. CASE v \in ParametersMapping
  <2>1. v # Absent /\ v # Bad
    BY <1>1, <1>4
  <2>2. ParametersOf(v, gpu, required) = IF Ok(v) THEN v ELSE Refused
    BY <2>1 DEF ParametersOf
  <2> HIDE DEF Ok
  <2> QED BY <1>1, <1>4, <2>1, <2>2
<1> QED BY <1>2, <1>3, <1>4

\* Valid parameters are validated to themselves.
LEMMA ParametersReload ==
  ASSUME NEW gpu \in BOOLEAN, NEW required \in BOOLEAN,
         NEW p \in ValidParameters(gpu, required)
  PROVE  ParametersOf(p, gpu, required) = p
<1>1. p \in ParametersMapping /\ p # Absent /\ p # Bad
  BY SentinelsAssumption DEF ValidParameters
<1>2. EpochsOk(p.epochs) /\ RateOk(p.rate)
  BY SentinelsAssumption, MostInt DEF ValidParameters, EpochsOk, RateOk
<1>3. ~p.extra /\ DryRunOk(p.dryRun, gpu, required)
  BY DEF ValidParameters
<1> QED BY <1>1, <1>2, <1>3 DEF ParametersOf

-----------------------------------------------------------------------------
(***************************************************************************)
(* Requests.                                                               *)
(***************************************************************************)

ValidRequest ==
  {r \in TrainingJobRequest :
     /\ r.dataset \in {"fixture", "own"} /\ r.model \in {"tiny", "gpu"}
     /\ r.model = "gpu" => r.dataset = "own"
     /\ r.retention \in ValidPolicy
     /\ r.parameters \in ValidParameters(r.model = "gpu", r.dataset = "own")}

LEMMA RequestsAreRecords ==
  ASSUME NEW r \in ValidRequest
  PROVE  r \notin {Absent, Bad, Refused}
  BY SentinelsAssumption DEF ValidRequest

\* from_mapping() is the conjunction of its checks.
LEMMA RequestsAreValid ==
  ASSUME NEW p \in RequestMapping
  PROVE  LET retention == RetentionOf(p.retention)
             parameters == ParametersOf(p.parameters, p.model = "gpu", p.dataset = "own")
             taken == /\ p.keys = "known" /\ p.names = "safe"
                      /\ p.dataset \in {"fixture", "own"} /\ p.model \in {"tiny", "gpu"}
                      /\ p.model = "gpu" => p.dataset = "own"
                      /\ retention # Refused /\ parameters # Refused
         IN  /\ taken => /\ FromMapping(p) \in ValidRequest
                         /\ FromMapping(p) = [ dataset |-> p.dataset, model |-> p.model,
                                               retention |-> retention,
                                               parameters |-> parameters ]
             /\ ~taken => FromMapping(p) = Refused
<1> DEFINE retention == RetentionOf(p.retention)
           parameters == ParametersOf(p.parameters, p.model = "gpu", p.dataset = "own")
           taken == /\ p.keys = "known" /\ p.names = "safe"
                    /\ p.dataset \in {"fixture", "own"} /\ p.model \in {"tiny", "gpu"}
                    /\ p.model = "gpu" => p.dataset = "own"
                    /\ retention # Refused /\ parameters # Refused
           made == [ dataset |-> p.dataset, model |-> p.model,
                     retention |-> retention, parameters |-> parameters ]
<1>1. /\ p.retention \in {Absent, Bad} \cup PolicyMapping
      /\ p.parameters \in {Absent, Bad} \cup ParametersMapping
      /\ p.dataset \in Datasets /\ p.model \in Models
  BY DEF RequestMapping
<1>2. FromMapping(p) = IF taken THEN made ELSE Refused
  BY DEF FromMapping, KeysOk, NamesOk, DatasetOk
<1>3. retention \in ValidPolicy \cup {Refused}
  BY <1>1, RetentionIsValid
<1>4. (p.model = "gpu") \in BOOLEAN /\ (p.dataset = "own") \in BOOLEAN
  OBVIOUS
<1>5. parameters \in ValidParameters(p.model = "gpu", p.dataset = "own") \cup {Refused}
  BY <1>1, <1>4, ParametersAreValid
<1> HIDE DEF retention, parameters
<1>6. taken => made \in ValidRequest
  <2> SUFFICES ASSUME taken PROVE made \in ValidRequest
    OBVIOUS
  <2>1. retention \in RetentionPolicy /\ parameters \in ParametersMapping
    BY <1>3, <1>5 DEF ValidPolicy, ValidParameters
  <2>2. made \in TrainingJobRequest
    BY <1>1, <2>1 DEF TrainingJobRequest
  <2> QED BY <1>3, <1>5, <2>2 DEF ValidRequest
<1>7. /\ taken => FromMapping(p) \in ValidRequest /\ FromMapping(p) = made
      /\ ~taken => FromMapping(p) = Refused
  BY <1>2, <1>6
<1> QED BY <1>7 DEF retention, parameters

\* from_mapping() takes just the bodies that the contract allows.
LEMMA JustTheContract ==
  ASSUME NEW p \in RequestMapping
  PROVE  FromMapping(p) # Refused <=> Allowed(p)
<1> DEFINE gpu == p.model = "gpu"
           required == p.dataset = "own"
           flag == IF p.parameters = Absent THEN Absent ELSE p.parameters.dryRun
           numbers == /\ p.parameters # Bad
                      /\ p.parameters # Absent =>
                           /\ ~p.parameters.extra
                           /\ Within(1..MaxEpochs, p.parameters.epochs)
                           /\ Within(1..MaxRate, p.parameters.rate)
           shape == /\ p.dataset \in {"fixture", "own"} /\ p.model \in {"tiny", "gpu"}
                    /\ gpu => required
                    /\ DryRunOk(flag, gpu, required)
<1>1. /\ p.retention \in {Absent, Bad} \cup PolicyMapping
      /\ p.parameters \in {Absent, Bad} \cup ParametersMapping
      /\ p.dataset \in Datasets /\ p.model \in Models
      /\ gpu \in BOOLEAN /\ required \in BOOLEAN
  BY DEF RequestMapping
<1>2. RetentionOf(p.retention) # Refused <=> AllowedPolicy(p.retention)
  BY <1>1, RetentionIsValid
<1>3. ParametersOf(p.parameters, gpu, required) # Refused
        <=> numbers /\ DryRunOk(flag, gpu, required)
  BY <1>1, ParametersAreValid
<1>4. FromMapping(p) # Refused <=>
        /\ p.keys = "known" /\ p.names = "safe"
        /\ p.dataset \in {"fixture", "own"} /\ p.model \in {"tiny", "gpu"}
        /\ gpu => required
        /\ RetentionOf(p.retention) # Refused
        /\ ParametersOf(p.parameters, gpu, required) # Refused
  BY RequestsAreValid, RequestsAreRecords
<1>5. numbers => flag \in Flag
  <2>1. p.parameters \in ParametersMapping => p.parameters.dryRun \in Flag
    BY DEF ParametersMapping
  <2> QED BY <1>1, <2>1 DEF Flag
<1>6. flag \in Flag => (shape <=> AllowedShape(p))
  <2>1. Absent # TRUE /\ Absent # FALSE /\ Bad # TRUE /\ Bad # FALSE
    BY SentinelsAssumption
  <2> SUFFICES ASSUME flag \in Flag
               PROVE  shape <=>
                 \/ p.model = "gpu" /\ p.dataset = "own" /\ flag = FALSE
                 \/ p.model = "tiny" /\ p.dataset = "own" /\ flag = TRUE
                 \/ p.model = "tiny" /\ p.dataset = "fixture" /\ flag \in {TRUE, Absent}
    BY DEF AllowedShape
  <2> HIDE DEF flag
  <2> QED BY <1>1, <2>1 DEF DryRunOk, Flag, Datasets, Models
<1>7. Allowed(p) <=> /\ p.keys = "known" /\ p.names = "safe"
                     /\ AllowedPolicy(p.retention) /\ numbers /\ AllowedShape(p)
  <2>1. AllowedEpochs = MaxEpochs /\ AllowedRate = MaxRate
    BY SMT DEF AllowedEpochs, AllowedRate, MaxEpochs, MaxRate
  <2> QED BY <2>1 DEF Allowed
<1> HIDE DEF gpu, required, flag, numbers
<1> QED BY <1>2, <1>3, <1>4, <1>5, <1>6, <1>7

\* A request that was made of a body is made again of what is written of it.
LEMMA RequestsReload ==
  ASSUME NEW r \in ValidRequest
  PROVE  FromMapping(Write(r)) = r
<1>1. /\ r.dataset \in {"fixture", "own"} /\ r.model \in {"tiny", "gpu"}
      /\ r.model = "gpu" => r.dataset = "own"
      /\ r.retention \in ValidPolicy
      /\ r.parameters \in ValidParameters(r.model = "gpu", r.dataset = "own")
      /\ r = [ dataset |-> r.dataset, model |-> r.model, retention |-> r.retention,
               parameters |-> r.parameters ]
  BY DEF ValidRequest, TrainingJobRequest
<1>2. PICK policy : policy = AsMapping(r.retention)
  OBVIOUS
<1>3. policy \in PolicyMapping
  BY <1>1, <1>2 DEF AsMapping, PolicyMapping, ValidPolicy, RetentionPolicy, Number
<1>4. r.parameters \in ParametersMapping
  BY <1>1 DEF ValidParameters
<1>5. PICK p : p = [ keys |-> "known", names |-> "safe", dataset |-> r.dataset,
                     model |-> r.model, retention |-> policy, parameters |-> r.parameters ]
  OBVIOUS
<1>6. /\ p \in RequestMapping
      /\ p.keys = "known" /\ p.names = "safe" /\ p.dataset = r.dataset
      /\ p.model = r.model /\ p.retention = policy /\ p.parameters = r.parameters
  BY <1>1, <1>3, <1>4, <1>5 DEF RequestMapping, Datasets, Models
<1>7. RetentionOf(p.retention) = r.retention /\ r.retention # Refused
  BY <1>1, <1>2, <1>6, PoliciesReload, PoliciesAreRecords
<1>8. ParametersOf(p.parameters, p.model = "gpu", p.dataset = "own") = r.parameters
  BY <1>1, <1>6, ParametersReload
<1>9. r.parameters # Refused
  BY <1>4, SentinelsAssumption
<1>10. FromMapping(p) = [ dataset |-> r.dataset, model |-> r.model,
                          retention |-> r.retention, parameters |-> r.parameters ]
  BY <1>1, <1>6, <1>7, <1>8, <1>9, RequestsAreValid
<1> QED BY <1>1, <1>2, <1>5, <1>10 DEF Write

\* The worker runs whatever was accepted for it.
LEMMA AcceptedRuns ==
  ASSUME NEW r \in ValidRequest, r.model = "gpu"
  PROVE  Runnable(r)
<1>1. r.dataset = "own" /\ r.parameters \in ValidParameters(TRUE, TRUE)
  BY DEF ValidRequest
<1>2. r.parameters.dryRun = FALSE
  BY <1>1 DEF ValidParameters, DryRunOk
<1>3. r.parameters.epochs # Bad /\ r.parameters.rate # Bad
  <2>1. /\ r.parameters.epochs \in 1..MaxEpochs \cup {Absent}
        /\ r.parameters.rate \in 1..MaxRate \cup {Absent}
    BY <1>1 DEF ValidParameters
  <2>2. Bad \notin Int /\ Bad # Absent
    BY SentinelsAssumption
  <2> QED BY <2>1, <2>2, MostInt
<1> QED BY <1>1, <1>2, <1>3 DEF Runnable

-----------------------------------------------------------------------------
(***************************************************************************)
(* The life of a request.                                                  *)
(***************************************************************************)

TrainedWith(r) == IF r.model = "tiny" THEN r.parameters ELSE ClampParameters(r.parameters)

\* The request of a job is valid and what its body says, the artifact keeps its policy.
\* A job has neither failed nor stopped a process.
ContractInv ==
  /\ payload \in RequestMapping
  /\ stage \in {"posted", "refused", "queued", "running", "succeeded"}
  /\ stage = "refused" => FromMapping(payload) = Refused
  /\ stage \notin {"posted", "refused"} =>
       request \in ValidRequest /\ request = FromMapping(payload)
  /\ stage # "succeeded" => artifact = Absent
  /\ stage = "succeeded" => artifact = request.retention /\ trained = TrainedWith(request)

LEMMA ContractInit == Init => ContractInv
  BY PayloadsAssumption DEF Init, ContractInv

\* Where a body is not refused, the request is valid.
LEMMA TakenIsValid ==
  ASSUME NEW p \in RequestMapping, FromMapping(p) # Refused
  PROVE  FromMapping(p) \in ValidRequest
  BY RequestsAreValid

LEMMA ContractStep == ContractInv /\ [Next]_vars => ContractInv'
<1> SUFFICES ASSUME ContractInv, [Next]_vars PROVE ContractInv'
  OBVIOUS
<1>1. CASE Accept
  <2>1. FromMapping(payload) \in ValidRequest
    BY <1>1, TakenIsValid DEF Accept, ContractInv
  <2> QED BY <1>1, <2>1 DEF Accept, ContractInv
<1>2. CASE Refuse
  BY <1>2 DEF Refuse, ContractInv
<1>3. CASE Start
  BY <1>3 DEF Start, ContractInv
<1>4. CASE Train
  <2>1. request \in ValidRequest /\ request = FromMapping(payload)
    BY <1>4 DEF Train, ContractInv
  <2>2. request.model = "gpu" => Runnable(request)
    BY <2>1, AcceptedRuns
  <2>3. /\ stage' = "succeeded" /\ artifact' = request.retention
        /\ trained' = TrainedWith(request) /\ UNCHANGED <<payload, request>>
    BY <1>4, <2>2 DEF Train, TrainedWith
  <2> QED BY <2>1, <2>3 DEF ContractInv
<1>5. CASE Reload
  <2>1. request \in ValidRequest /\ stage \in {"queued", "running", "succeeded"}
    BY <1>5 DEF Reload, ContractInv
  <2>2. FromMapping(Write(request)) = request /\ request # Refused
    BY <2>1, RequestsReload, RequestsAreRecords
  <2>3. PICK policy : policy = IF artifact = Absent THEN Absent
                               ELSE RetentionOf(AsMapping(artifact))
    OBVIOUS
  <2>4. policy = artifact /\ policy # Refused
    <3>1. CASE stage = "succeeded"
      <4>1. artifact \in ValidPolicy
        BY <2>1, <3>1 DEF ContractInv, ValidRequest
      <4> QED BY <2>3, <4>1, PoliciesReload, PoliciesAreRecords
    <3>2. CASE stage # "succeeded"
      BY <2>3, <3>2, SentinelsAssumption DEF ContractInv
    <3> QED BY <3>1, <3>2
  <2>5. request' = request /\ artifact' = artifact /\ UNCHANGED <<stage, payload, trained>>
    BY <1>5, <2>2, <2>3, <2>4 DEF Reload
  <2> QED BY <2>5 DEF ContractInv
<1>6. CASE UNCHANGED vars
  BY <1>6 DEF vars, ContractInv
<1> QED BY <1>1, <1>2, <1>3, <1>4, <1>5, <1>6 DEF Next

\* The inductive invariant: what is in the table is valid, and what its body says.
THEOREM ContractInvariant == Spec => []ContractInv
<1> QED BY ContractInit, ContractStep, PTL DEF Spec

\* The validators, one inside the other, refuse just the bodies that the contract does
\* not allow, whatever numbers and policies they hold.
THEOREM TheContractIsEnforced == Spec => []ContractIsEnforced
<1>1. ContractInv => ContractIsEnforced
  <2> SUFFICES ASSUME ContractInv, stage # "posted"
               PROVE  stage = "refused" <=> ~Allowed(payload)
    BY DEF ContractIsEnforced
  <2>1. stage = "refused" <=> FromMapping(payload) = Refused
    BY RequestsAreRecords DEF ContractInv
  <2>2. FromMapping(payload) # Refused <=> Allowed(payload)
    BY JustTheContract DEF ContractInv
  <2> QED BY <2>1, <2>2
<1> QED BY <1>1, ContractInvariant, PTL

\* Every later process reads the same request back from the file: none is refused.
THEOREM WhatIsAcceptedReloads == Spec => []AcceptedReloads
<1>1. ContractInv => AcceptedReloads
  BY DEF ContractInv, AcceptedReloads
<1> QED BY <1>1, ContractInvariant, PTL

\* The worker refuses nothing that the API has accepted, and trains inside the bounds
\* of the trainer, with the client's numbers where those are inside.
THEOREM WhatIsAcceptedTrains == Spec => []AcceptedTrains
<1>1. ContractInv => AcceptedTrains
  <2> SUFFICES ASSUME ContractInv PROVE AcceptedTrains
    OBVIOUS
  <2>1. stage # "failed"
    BY DEF ContractInv
  <2>2. CASE stage = "succeeded" /\ request.model = "gpu"
    <3>1. request \in ValidRequest /\ trained = ClampParameters(request.parameters)
      BY <2>2 DEF ContractInv, TrainedWith
    <3>2. /\ request.parameters.epochs \in 1..MaxEpochs \cup {Absent}
          /\ request.parameters.rate \in 1..MaxRate \cup {Absent}
      BY <3>1 DEF ValidRequest, ValidParameters
    <3>3. PICK epochs, rate : epochs = request.parameters.epochs
                              /\ rate = request.parameters.rate
      OBVIOUS
    <3>4. /\ epochs = Absent \/ (epochs \in Int /\ 1 <= epochs /\ epochs <= 3)
          /\ rate = Absent \/ rate \in Int
          /\ Absent \notin Int
      BY <3>2, <3>3, MostInt, SentinelsAssumption, SMT DEF MaxEpochs
    <3>5. /\ trained.epochs = IF epochs = Absent THEN DefaultEpochs
                              ELSE Clamp(1, epochs, MaxEpochs)
          /\ trained.rate = IF rate = Absent THEN DefaultRate
                            ELSE Clamp(LeastRate, rate, MostRate)
          /\ trained.dryRun = FALSE
      BY <3>1, <3>3 DEF ClampParameters
    <3>6. /\ trained.epochs \in 1..3
          /\ epochs # Absent => trained.epochs = epochs
      BY <3>4, <3>5, SMT DEF Clamp, DefaultEpochs, MaxEpochs
    <3>7. /\ trained.rate \in 10..500
          /\ rate # Absent /\ rate \in 10..500 => trained.rate = rate
      BY <3>4, <3>5, SMT DEF Clamp, DefaultRate, LeastRate, MostRate
    <3> QED BY <2>1, <3>3, <3>5, <3>6, <3>7 DEF AcceptedTrains
  <2> QED BY <2>1, <2>2 DEF AcceptedTrains
<1> QED BY <1>1, ContractInvariant, PTL
=============================================================================
