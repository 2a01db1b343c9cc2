SPECIFICATION Spec
CONSTANTS
  MaxUpdates = 1
  MaxOutages = 0
PROPERTIES
  RollbackMeansNoIp
