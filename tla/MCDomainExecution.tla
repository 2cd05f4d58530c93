------------------------ MODULE MCDomainExecution ------------------------
(***************************************************************************)
(* A small instance of DomainExecution for TLC: a plant with two           *)
(* configurations, of which one shows the required scene, and a sensor     *)
(* that shows what the other one lacks.                                    *)
(***************************************************************************)
EXTENDS DomainExecution, TLC

CONSTANTS plant, sensor, good, bad, see, move, img1, img2, wire

Required ==
  [semantic_scene_id |-> "arena", required_entities |-> {"robot", "wall"},
   required_interfaces |-> {"odom"}, physical_parameters |-> [g |-> 9]]
Full ==
  [semantic_scene_id |-> "arena", entities |-> {"robot", "wall"},
   interfaces |-> {"odom"}, physical_parameters |-> [g |-> 9]]
NoWall == [Full EXCEPT !.entities = {"robot"}]
NoRobot == [Full EXCEPT !.entities = {"wall"}]

SomeKind == (plant :> "hardware_target") @@ (sensor :> "sensor")
SomeShow ==
  (plant :> ((good :> Full) @@ (bad :> NoWall)))
  @@ (sensor :> (good :> NoRobot))

Passing(c) == [capability |-> c, status |-> "passed"]
SomeChecks ==
  {{Passing(see), Passing(move)},
   {Passing(move), [capability |-> see, status |-> "failed"]}}

Demands(c) == [capability |-> c, required |-> TRUE]
SomeProfiles ==
  {[provider_kind |-> "hardware_target", requirements |-> {Demands(move)}],
   [provider_kind |-> "sensor", requirements |-> {[capability |-> see, required |-> FALSE]}]}

Model(id, format) == [id |-> id, format |-> format, family |-> "onnx", provider |-> "cpu"]
SomeModels == {Model("m1", "onnx"), Model("m2", "onnx"), None}

Still == [offset |-> 0, drift |-> 0]
Off == [offset |-> -2, drift |-> 0]
SomeClocks == {Still, Off, [offset |-> -1, drift |-> 1], [offset |-> 0, drift |-> 2]}

Policy ==
  [time_authority_min_samples |-> 2, p50 |-> 1, p95 |-> 2, max |-> 3,
   min_realtime_factor |-> 1, max_deadline_misses |-> 0,
   max_clock_offset |-> 1, max_clock_drift |-> 1, max_message_age |-> 1]

Hil ==
  [data_source |-> "live_target", middleware |-> wire, model |-> None,
   provider_requirements |-> [capabilities |-> {see, move}, scene |-> Required],
   time_policy |-> Policy]
Inference == [Hil EXCEPT !.model = Model("m1", "onnx"), !.middleware = None]

\* One provider is enough.
Timed == [Hil EXCEPT !.provider_requirements = [capabilities |-> {move}, scene |-> NoScene]]

Begin ==
  [scenario |-> Inference, deployed |-> [image |-> img1, middleware |-> wire],
   configured |-> (plant :> good) @@ (sensor :> good),
   serving |-> Model("m1", "onnx"), drifting |-> Still]
SomeSetups ==
  {Begin, [Begin EXCEPT !.configured[plant] = bad], [Begin EXCEPT !.serving = Model("m2", "onnx")],
   [Begin EXCEPT !.scenario = Hil, !.serving = None],
   [Begin EXCEPT !.scenario = Timed, !.serving = None]}

Fine ==
  [sample_count |-> 2, p50 |-> 1, p95 |-> 2, max |-> 3, real_time_factor |-> 1,
   deadline_misses |-> 0, monotonic |-> TRUE, max_sample_age |-> 1,
   assertions |-> {"passed"}, mode |-> "live", shut_down |-> TRUE, fallback_count |-> 0]
Fallen == [Fine EXCEPT !.fallback_count = 1]

\* Every policy is met to the limit, or one of them is missed.
SomeMeasured ==
  {Fine, Fallen, [Fine EXCEPT !.sample_count = 1], [Fine EXCEPT !.max = 4],
   [Fine EXCEPT !.real_time_factor = 0], [Fine EXCEPT !.deadline_misses = 1],
   [Fine EXCEPT !.max_sample_age = 2], [Fine EXCEPT !.monotonic = FALSE]}

\* What is measured of time is searched where there is one provider, checked
\* once, and no time passes; everything else where time is kept.
OneConcern ==
  IF scenario = Timed
  THEN clock = 0 /\ count["run"] <= 1 /\ count["conformance"] <= 1
  ELSE drifting \in {Still, Off} /\ (result # None => result.measured \in {Fine, Fallen})
==========================================================================
