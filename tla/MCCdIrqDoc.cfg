\* What geo_cd.c's comment says of the decoder interrupt's enable.
CONSTANTS
  SrMasks <- MCSrMasks
  MaxNest = 1
SPECIFICATION Spec
PROPERTIES
  DecoderNeedsEnable
