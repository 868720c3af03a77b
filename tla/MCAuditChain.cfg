\* One process at a time appends, as the repository's entry points do.
CONSTANTS
  day = day  gate = gate
  Writers = {day}
  a = a  b = b  forged = forged
  Payloads = {a, b}
  Forged = {forged}
  Torn = Torn
  MaxLen = 4
  MaxEdits = 2
  MaxFaults = 2
SPECIFICATION Spec
INVARIANTS
  VerifiesUnlessTouched
  VerifiedOnlyIfOnceWritten
  BreaksByFirstTamperedRecord
CHECK_DEADLOCK FALSE
