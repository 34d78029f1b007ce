SPECIFICATION Spec
CONSTANTS
  f32 = f32
  pcm = pcm
  eq = eq
  mute = mute
  nr = nr
  None = None
  Formats <- MCFormats
  Processable <- MCProcessable
  LockRequests <- MCLockRequests
  Connections <- MCConnections
  EffectIds <- MCEffectIds
  Advertised <- MCAdvertised
  Controllable <- MCControllable
  Threads = {t1, t2}
  MayOverlap <- DocumentedOverlap
SYMMETRY Symmetry
INVARIANTS
  OnlyControllable
