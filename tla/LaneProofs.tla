------------------------------ MODULE LaneProofs ------------------------------
(***************************************************************************)
(* The records that the example lanes write about a run, as pure           *)
(* operators: the public pathway (examples/participation-distributable-    *)
(* public-pathway-proof.js), the public seeder                             *)
(* (...-public-seeder-lifecycle.js) and the seeder of installable bundles  *)
(* (installable-participation-bundle-public-seeder-lifecycle.js).          *)
(*                                                                         *)
(* An input is told apart by the checks it fails; an observation, like     *)
(* operationProof, is the set of its fields that are true.  A digest is    *)
(* injective: the hash of a record is what it was computed from.           *)
(***************************************************************************)

Lanes == {"pathway", "seeder", "bundle"}
NotHashed == "no hash"
Unresolved == "public_swarm_fetch_unresolved"    \* the one issue an observation adds

AcquisitionRules ==
    {"node_modules_included", "node_modules_transfer_default_allowed",
     "node_modules_transfer_claimed_as_decentralized_proof", "external_fetch_default_allowed",
     "external_fetch_claimed_as_decentralized_proof",
     "external_fetch_rbc_exception_requirement_missing"}
TargetRules == {"target_os_required", "target_arch_required", "target_runtime_required"}
LayerRules == {"layer_component_status_schema_required", "layer_component_primary_command_required",
               "layer_component_status_artifact_kind_required"}

\* validateInputs of the three lanes.  in.fails: the checks that fail; in.layer:
\* the bundle is for the layer component; in.ref: it has a packs proofRef.
PathwayInputIssues(in) ==
    in.fails \cap (AcquisitionRules \cup {"distributable_schema_invalid", "public_hyperdht_flag_required",
                                          "publisher_storage_required", "consumer_storage_required",
                                          "independent_storage_roots_required"})
SeederInputIssues(in) ==
    in.fails \cap (AcquisitionRules \cup {"distributable_schema_invalid", "public_hyperdht_flag_required",
                                          "storage_required"})
BundleInputIssues(in) ==
    in.fails \cap (AcquisitionRules \cup TargetRules \cup (IF in.layer THEN LayerRules ELSE {}) \cup
                   {"packs_installable_bundle_schema_invalid", "packs_installable_bundle_not_verified",
                    "packs_archive_not_tar_compatible", "packs_archive_hash_required",
                    "archive_hash_mismatch", "storage_required", "public_hyperdht_flag_required"})
InputIssues(lane, in) == CASE lane = "pathway" -> PathwayInputIssues(in)
                           [] lane = "seeder" -> SeederInputIssues(in)
                           [] lane = "bundle" -> BundleInputIssues(in)

PrivateNetwork == {"localHyperDhtTestnetUsed", "privateBootstrapUsed"}
NotDefault == "defaultPublicHyperDhtUsed is false"    \* what only the seeders look at

\* What an observation has to show for the proof to be complete, or live.
PathwayNeeds == {"publicSwarmFetchComplete", "payloadHashVerified", "descriptorHashVerified",
                 "consumerReadbackAfterFetchVerified", "cleanupComplete"}
SeederNeeds == {"published", "served", "byteReference"}

\* Mutant: no observation is asked for.
CompleteAnyhow(lane, issues, observed) == issues = {}

Complete(lane, issues, observed) ==
    /\ issues = {} /\ observed \cap PrivateNetwork = {}
    /\ lane = "pathway" \/ NotDefault \notin observed
    /\ (IF lane = "pathway" THEN PathwayNeeds ELSE SeederNeeds) \subseteq observed

Status(lane, issues, observed) == IF issues # {} THEN "blocked"
                                  ELSE IF Complete(lane, issues, observed) THEN "complete"
                                  ELSE "unresolved"

\* The fields of operationProof that are true.
PathwayOperation(in, observed) ==
    (observed \ {"byteReference", "publicSwarmFetchComplete", Unresolved})
        \cup {"defaultPublicHyperDhtUsed"}
        \cup (IF in.fails \cap {"publisher_storage_required", "consumer_storage_required",
                               "independent_storage_roots_required"} = {}
              THEN {"independentStorageRootsUsed"} ELSE {})

\* Mutant: a live seeder does not say that its process is left running.
SeederOperationSilent(observed, live) ==
    (observed \cap ({"published", "served"} \cup PrivateNetwork))
        \cup {"defaultPublicHyperDhtUsed"} \cup (IF live THEN {"publicSeederStillRunning"} ELSE {})

SeederOperation(observed, live) ==
    (observed \cap ({"published", "served"} \cup PrivateNetwork))
        \cup {"defaultPublicHyperDhtUsed"}
        \cup (IF live THEN {"publicSeederStillRunning", "processLeftRunning"} ELSE {})

Digest(record) == [record EXCEPT !.hash = NotHashed]

\* build...Proof: the record, then its hash.  A command that stops at its inputs
\* passes their issues on as its observation, and they are listed twice.
PathwayProof(in, observed) ==
    LET issues == PathwayInputIssues(in)
        r == [lane |-> "pathway", in |-> in, status |-> Status("pathway", issues, observed),
              operation |-> PathwayOperation(in, observed),
              issues |-> issues \cup (observed \cap {Unresolved}), twice |-> issues, hash |-> NotHashed]
    IN [r EXCEPT !.hash = Digest(r)]
SeederProof(lane, in, observed) ==
    LET issues == InputIssues(lane, in)
        status == Status(lane, issues, observed)
        r == [lane |-> lane, in |-> in, status |-> status,
              operation |-> SeederOperation(observed, status = "complete"),
              issues |-> issues, twice |-> issues, hash |-> NotHashed]
    IN [r EXCEPT !.hash = Digest(r)]
BundleProof(in, observed) == SeederProof("bundle", in, observed)
Proof(lane, in, observed) == CASE lane = "pathway" -> PathwayProof(in, observed)
                               [] lane = "seeder" -> SeederProof("seeder", in, observed)
                               [] lane = "bundle" -> BundleProof(in, observed)

\* validate...Proof; the issue of an overclaim has the name of its field.
Overclaims == PrivateNetwork \cup {"nodeModulesTransferObserved", "externalFetchObserved", "authorityClaimed"}
PathwayProofIssues(proof) ==
    (proof.operation \cap Overclaims) \cup
    (IF proof.status = "complete"
     THEN ({"published", "served", "fetched", "cleanupComplete", "independentStorageRootsUsed",
            "defaultPublicHyperDhtUsed"} \cup (PathwayNeeds \ {"publicSwarmFetchComplete"})) \ proof.operation
     ELSE {})
SeederProofIssues(proof) ==
    (proof.operation \cap (Overclaims \ {"nodeModulesTransferObserved"})) \cup
    (IF proof.status = "complete"
     THEN {"published", "served", "publicSeederStillRunning", "defaultPublicHyperDhtUsed",
           "processLeftRunning"} \ proof.operation
     ELSE {})
BundleSourceIssues(in) ==
    (IF in.ref THEN {} ELSE {"packs_proof_ref_required"})
        \cup (in.fails \cap (TargetRules \cup {"packs_archive_hash_required"}
                             \cup (IF in.layer THEN LayerRules ELSE {})))
BundleProofIssues(proof) == SeederProofIssues(proof) \cup BundleSourceIssues(proof.in)
ProofIssues(proof) == CASE proof.lane = "pathway" -> PathwayProofIssues(proof)
                        [] proof.lane = "seeder" -> SeederProofIssues(proof)
                        [] proof.lane = "bundle" -> BundleProofIssues(proof)

HashMatches(proof) == proof.hash = Digest(proof)

\* build...Readback: the hash is computed again.
Readback(proof) == [hash |-> proof.hash, proofHashMatches |-> HashMatches(proof), status |-> proof.status]

\* What main writes: issues that the validation finds are added after the proof
\* was hashed, and each is then listed once.
Written(proof) == IF ProofIssues(proof) = {} THEN proof
                  ELSE [proof EXCEPT !.issues = @ \cup ProofIssues(proof), !.twice = {}]

\* build...Down.
DownRecord(proof, stopped) ==
    [status |-> IF stopped THEN "stopped" ELSE "stop_unresolved", source |-> proof.hash,
     cleanupComplete |-> stopped, processLeftRunning |-> ~stopped]
=============================================================================
