SPECIFICATION PortSpec
CONSTANTS
  forward = forward
  adb = adb
  Sessions <- Both
  Interactive <- OneForwards
  Nobody = Nobody
INVARIANTS
  AdbFindsItsTunnel
  EndsWellWhenAsked
PROPERTIES
  LossIsTold
  CtrlCEnds
CHECK_DEADLOCK FALSE
