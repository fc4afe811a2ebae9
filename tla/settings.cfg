\* Dates, numbers and words.
CONSTANTS
  Argument <- Arguments
  NoDate = NoDate
  Zone = 0
  OptionLimit = 3
SPECIFICATION Spec
INVARIANTS LastDecides 
\* The options end.
CHECK_DEADLOCK FALSE
