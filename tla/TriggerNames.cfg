SPECIFICATION TriggerSpec
CONSTANTS
  i1 = i1
  i2 = i2
  Instances = {i1, i2}
  Order <- BothInOrder
  Users = {u1, u2}
  MaxMinute = 1
PROPERTIES
  OneJobPerInstance
CHECK_DEADLOCK FALSE
