CONSTANTS
  Vapor = {"vapor"}
  Cloud = {"cloud"}
  MuRatio <- MCMuRatio
  CvRatioMass <- MCCvRatio
  LatentMole <- MCLatent
  Rd <- MCRd
  Mu0 <- MCMu0
  IGm1 <- MCIGm1
  Air <- MCAir
  MaxOps = 5
SPECIFICATION Spec
INVARIANTS TypeOK MatterKept
PROPERTIES TracerKept ChemistryKept
CHECK_DEADLOCK FALSE
