---------------------- MODULE MCPhysicalAuthorization ----------------------
(***************************************************************************)
(* Small instances of PhysicalAuthorization for TLC.                       *)
(***************************************************************************)
EXTENDS PhysicalAuthorization, TLC

CONSTANT t1

Interchangeable == Permutations(Person) \cup Permutations(Identity) \cup Permutations(Image)

OnOne == [d \in Domain |-> {t1}]
Sensor == [t \in Target |-> "sensor"]
AsAsked == {{"sensor"}}
OneOrTheOther == {{"sensor"}, {"compute"}}

Hil ==
  [version |-> 1, environment |-> "hil", trust_policy |-> "trust",
   hardware_scope |-> {"sensor"}]
Robot == [Hil EXCEPT !.version = 2, !.environment = "real_robot"]
Simulation ==
  [version |-> 3, environment |-> "simulation", trust_policy |-> "none",
   hardware_scope |-> {}]

HilOrRobot == {Hil, Robot}
SimulationOrHil == {Simulation, Hil}
=============================================================================
