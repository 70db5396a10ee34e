\* Docstring: the probe decides.
CONSTANTS
  Requests = {r1, r2, r3}
  Models = {gated}
  Gated = {gated}
  Fails = 2
  Cooldown = 2
  NoModel = NoModel
SPECIFICATION CSpec
PROPERTY ProbeDecides
