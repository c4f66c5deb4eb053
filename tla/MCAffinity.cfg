SPECIFICATION Spec
CONSTANTS
  Machines <- SomeMachines
  CoreList <- LogicalCores
  PuList <- LogicalPus
  MaxWorkers = 9
INVARIANTS LoadEven
