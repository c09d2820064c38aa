------------------------- MODULE MaterializationPlan -------------------------
(***************************************************************************)
(* The records around a materialization (src/materialization/index.js,     *)
(* src/reference/index.js): the reference, the hints an object's           *)
(* descriptor carries, the request of the consumer and the plan resolved   *)
(* from them, with what is refused.                                        *)
(*                                                                         *)
(* A field that is not given is None.  A text is told apart only by what   *)
(* the validators look at: FileNames are the non-empty texts without a     *)
(* separator, Texts the non-empty ones; anything else is refused.          *)
(***************************************************************************)

CONSTANTS Keys,       \* keys that are 64 hex characters, in lower case
          Digests,    \* the hex strings that may be a descriptorHash
          FileNames, Texts,
          None        \* undefined, no error, no file

Modes == {"stream", "cache", "mirror"}
VisibilityLevels == {"operator", "public", "internal"}
Families == {"hypercore_immutable"}

Optional(S) == S \cup {None}
Or(value, default) == IF value # None THEN value ELSE default

\* normalizeByteReference accepts it.
ValidReference(ref) == /\ ref.family \in Families
                       /\ ref.key \in Keys
                       /\ ref.descriptorHash \in Optional(Digests)

\* Mutant: the filename hint may be a path.
ValidHintsAnyName(h) == /\ h.preferredMode \in Optional(Modes)
                        /\ h.visibility \in Optional(VisibilityLevels)
                        /\ h.placementClass \in Optional(Texts)

\* validateMaterializationHints.
ValidHints(h) == /\ h.preferredMode \in Optional(Modes)
                 /\ h.visibility \in Optional(VisibilityLevels)
                 /\ h.placementClass \in Optional(Texts)
                 /\ h.filenameHint \in Optional(FileNames)

\* validateMaterializationRequest.
ValidRequest(q) == /\ ValidReference(q.reference)
                   /\ q.targetClass \in Optional(Texts)
                   /\ q.mode \in Optional(Modes)
                   /\ q.filenameOverride \in Optional(FileNames)

\* validateMaterializationPlan.
ValidPlan(p) == /\ p.mode \in Modes
                /\ p.placementClass \in Optional(Texts)
                /\ p.targetClass \in Optional(Texts)
                /\ p.visibility \in Optional(VisibilityLevels)
                /\ p.filename \in Optional(FileNames)

\* resolveMaterializationPlan: what is requested goes before what is hinted.
Plan(h, q) == [mode |-> Or(q.mode, Or(h.preferredMode, "stream")),
               placementClass |-> h.placementClass, targetClass |-> q.targetClass,
               visibility |-> h.visibility,
               filename |-> Or(q.filenameOverride, h.filenameHint)]

\* The request of materializeImmutableObject, whose options.request may name
\* a reference of its own.
Asked(o) == [o.request EXCEPT !.reference = Or(@, o.reference)]

RequestedMode(o) == Or(o.request.mode, "stream")

\* Mutant: the mode that was not asked for is not filled in.
EffectiveWithoutMode(o) == [Asked(o) EXCEPT !.reference = o.reference]

\* The effective request: the reference is the call's, the mode is settled.
Effective(o) == [Asked(o) EXCEPT !.reference = o.reference, !.mode = RequestedMode(o)]

\* What the call accepts, before anything is loaded.
Acceptable(o) == /\ ValidReference(o.reference)
                 /\ ValidRequest(Asked(o))
                 /\ RequestedMode(o) # "stream" => o.destination # None
=============================================================================
