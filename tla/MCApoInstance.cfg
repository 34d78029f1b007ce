SPECIFICATION Spec
CONSTANTS
  f32 = f32
  pcm = pcm
  eq = eq
  mute = mute
  nr = nr
  None = None
  Formats <- MCFormats
  Processable <- MCProcessable
  LockRequests <- MCLockRequests
  Connections <- MCConnections
  EffectIds <- MCEffectIds
  Advertised <- MCAdvertised
  Controllable <- MCControllable
  Threads = {t1, t2, t3}
  MayOverlap <- CasRaces
SYMMETRY Symmetry
INVARIANTS
  TypeOK
  CallbacksPaired
  UserExclusive
  ProcessGeometry
  LifecycleConsistent
  NoCacheRace
  LockedReadsCache
  OutputAlwaysMarked
PROPERTIES
  LockVerdict
  ImplementsLifecycle
