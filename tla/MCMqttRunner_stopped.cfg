SPECIFICATION Spec
CONSTANTS
  m1 = m1
  m2 = m2
  g1 = g1
  g2 = g2
  Inbound = {m1}
  MaxOutbound = 1
  BufferSize = 1
  Generations = {g1}
  MaxLosses = 1
  Owner = Owner
  Nobody = Nobody
INVARIANTS
  StoppedIsDisconnected
