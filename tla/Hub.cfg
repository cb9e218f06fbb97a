CONSTANTS
  s1 = s1
  s2 = s2
  native = native
  wasm = wasm
  Backends <- MCBackends
  Instruments = {i1, i2}
  Targets = {t1}
  Sessions <- MCSessions
  RegistrationInputs <- MCRegistrations
  DescriptorInputs <- MCDescriptors
  None = None
  MaxGeneration = 1
  MaxOrder = 3
  MaxSequence = 3
SPECIFICATION Spec
INVARIANT RegistryConsistent
INVARIANT AttachmentsSound
INVARIANT MaskExact
INVARIANT ControlSound
INVARIANT QueuesSound
PROPERTY StaleHandlesStayStale
PROPERTY SessionIsolation
CHECK_DEADLOCK FALSE
SYMMETRY IdSymmetry
