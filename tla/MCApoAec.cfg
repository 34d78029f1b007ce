SPECIFICATION AecSpec
CONSTANTS
  f32 = f32
  pcm = pcm
  eq = eq
  mute = mute
  nr = nr
  i1 = i1
  i2 = i2
  None = None
  Formats <- MCFormats
  Processable <- MCProcessable
  LockRequests <- AecLockRequests
  Connections <- AecConnections
  EffectIds <- AecEffectIds
  Advertised <- AecEffectIds
  Controllable <- AecEffectIds
  Threads = {t1, t2}
  MayOverlap <- CasRaces
  AuxIds <- AecIds
  AuxOverlap <- AecOverlap
SYMMETRY AecSymmetry
INVARIANTS
  AuxExclusive
  AuxGeometry
  AuxBetweenAddAndRemove
PROPERTY
  ImplementsEchoLifecycle
