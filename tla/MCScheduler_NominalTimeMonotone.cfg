CONSTANTS
  Never = 100
  MaxEvent = 12
  MaxLines = 3
  Lines <- MCLines
SPECIFICATION Spec
PROPERTIES NominalTimeMonotone
