\* Calls, replies and other lines with up to two attributes.
CONSTANTS
  hex <- HexValues
  dec <- DecValues
  Digits <- AllDigits
  HandleSpace = 8
  WordSpace = 4
  Unparsed = Unparsed
  Attributes <- MixedAttributes
  MaxAttributes = 2
  Record <- Records
  Line <- Lines
SPECIFICATION LineSpec
PROPERTIES  FieldsSettle
\* The line ends.
CHECK_DEADLOCK FALSE
