\* The instances are in ConcurrentQueueMC; worlds end when their elements are spent.
SPECIFICATION Spec
INVARIANTS SubqueuesSound SubqueuesInOrder ProducersSound
CHECK_DEADLOCK FALSE
