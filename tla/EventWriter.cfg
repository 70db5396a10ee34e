\* Batches smaller than the queue, and more rows than fit into it.
CONSTANTS
  QueueMax = 3
  BatchMax = 2
  MaxRows = 6
SPECIFICATION FairWSpec
INVARIANTS WTypeOK Account StoredAsCounted
PROPERTIES ImplementsEventLog ShutdownEnds
CHECK_DEADLOCK FALSE
