-------------------------- MODULE MCEngineLifecycle --------------------------
(* Instance of ProfileCompiler and EngineLifecycle for TLC: a block of     *)
(* every method, two of level 2 with the documented limits or none, one    *)
(* rank and two, the HTTP driver with one cycle and two, the adapter with  *)
(* either level.                                                           *)
EXTENDS ProfileCompiler

Documented == [coldMaxResident |-> 5, coldMinRead |-> 90,
               warmMinResident |-> 90, warmMaxRead |-> 10]
NoLimits   == [coldMaxResident |-> 100, coldMinRead |-> 0,
               warmMinResident |-> 0, warmMaxRead |-> 100]

Block(method, ranks, index, limits) ==
  [driver |-> "block", method |-> method, ranks |-> ranks, index |-> index, total |-> 3,
   limits |-> limits]

MCJobs ==
  {Block("sleep_l2", 1, index, IF index % 2 = 0 THEN Documented ELSE NoLimits) : index \in 1..2}
  \cup {Block(method, ranks, 1, Documented) :
          method \in {"sleep_l1", "cpu_backup", "exact_disk"}, ranks \in 1..2}
  \cup {[driver |-> "http", method |-> "exact_disk", ranks |-> ranks, index |-> 0,
         total |-> total, limits |-> Documented] : ranks \in 1..2, total \in 1..2}
  \cup {[driver |-> "adapter", method |-> method, ranks |-> 1, index |-> 0, total |-> 2,
         limits |-> NoLimits] : method \in {"sleep_l1", "sleep_l2"}}
=============================================================================
