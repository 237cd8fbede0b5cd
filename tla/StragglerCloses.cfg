\* Socket timeouts that allow a command to take as long as the cooldown.
SPECIFICATION Spec
CONSTANTS
  Commands = {c1, c2}
  Threshold = 5
  Cooldown = 5
  Timeout = 5
PROPERTY
  OnlyProbeCloses
