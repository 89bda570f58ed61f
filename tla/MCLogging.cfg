SPECIFICATION Spec
CONSTANTS
  t1 = t1
  t2 = t2
  q1 = q1
  q2 = q2
  Callers = {t1, t2}
  Processes = {q1, q2}
  Fields = 3
  DateFields = 2
  Calendar <- MCCalendar
  Universal <- MCUniversal
  MaxClock = 2
  None = None
INVARIANTS
  LoggingInv
  AloneIsExact
CHECK_DEADLOCK FALSE
