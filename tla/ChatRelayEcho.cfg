SPECIFICATION Spec
CONSTANTS
  a1 = a1
  a2 = a2
  b1 = b1
  Pages = {a1, a2, b1}
  Owner <- TwoPagesOfAlice
  MaxEvents = 1
INVARIANT EchoesPaired
CHECK_DEADLOCK FALSE
