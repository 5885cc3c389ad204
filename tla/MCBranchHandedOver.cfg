\* One call at a time, one of which breaks off.
CONSTANTS
  c1 = c1
  c2 = c2
  Calls <- OneCall
  MaxFaults = 1
  MaxWork = 0
SPECIFICATION Spec
INVARIANT OnlyReadyIsHandedOver
