----------------------------- MODULE Providers -----------------------------
(***************************************************************************)
(* What a scenario requires of the providers bound to a runtime            *)
(* (providers.py), and the conformance documents these bindings rest on    *)
(* (semantics.py).                                                         *)
(***************************************************************************)
EXTENDS Status

NoScene == [absent |-> TRUE]

\* Physical parameters are compared with their types: 1 is not TRUE.
SceneSatisfies(requirement, scene) ==
  /\ scene.semantic_scene_id = requirement.semantic_scene_id
  /\ requirement.required_entities \subseteq scene.entities
  /\ requirement.required_interfaces \subseteq scene.interfaces
  /\ \A key \in DOMAIN requirement.physical_parameters :
       /\ key \in DOMAIN scene.physical_parameters
       /\ scene.physical_parameters[key] = requirement.physical_parameters[key]

Scenes(bindings) == {b.scene : b \in bindings} \ {NoScene}
Capabilities(bindings) == UNION {b.capabilities : b \in bindings}

\* slip: several scenes make up what is required
RequirementsMetJointly(requirements, bindings) ==
  /\ requirements.capabilities \subseteq Capabilities(bindings)
  /\ requirements.scene # NoScene =>
       /\ requirements.scene.required_entities \subseteq UNION {s.entities : s \in Scenes(bindings)}
       /\ requirements.scene.required_interfaces
            \subseteq UNION {s.interfaces : s \in Scenes(bindings)}

\* All capabilities together, the scene by one provider alone.
RequirementsMet(requirements, bindings) ==
  /\ requirements.capabilities \subseteq Capabilities(bindings)
  /\ requirements.scene # NoScene =>
       \E scene \in Scenes(bindings) : SceneSatisfies(requirements.scene, scene)

\* The provider kind a source of data needs, exactly once.
PlantKind ==
  [simulator |-> "simulator", recording_playback |-> "recording_source",
   live_target |-> "hardware_target"]
PlantKinds == {PlantKind[s] : s \in DOMAIN PlantKind}

\* One plant provider, of the kind of the source; targets and conformance
\* results are not used twice.
BindingsFit(source, bindings) ==
  /\ \E plant \in bindings :
       /\ plant.provider.kind = PlantKind[source]
       /\ \A b \in bindings \ {plant} : b.provider.kind \notin PlantKinds
  /\ \A a, b \in bindings : a.target_id = b.target_id \/ a.conformance = b.conformance => a = b

\* slip: whatever was checked is established
ConformanceWellFormedByName(r) ==
  /\ r.status = WorstStatus({c.status : c \in r.checks})
  /\ r.capabilities = {c.capability : c \in r.checks}

\* The status is that of the worst check, the capabilities are those that
\* some check established.
ConformanceWellFormed(r) ==
  /\ r.checks # {}
  /\ r.status = WorstStatus({c.status : c \in r.checks})
  /\ r.capabilities = {c.capability : c \in {x \in r.checks : x.status = "passed"}}

\* A capability is listed once, as required or not.
ProfileWellFormed(profile) ==
  \A x, y \in profile.requirements : x.capability = y.capability => x = y

RequiredBy(profile) == {x.capability : x \in {y \in profile.requirements : y.required}}
=============================================================================
