SPECIFICATION Spec
CONSTANTS
  s1 = s1
  s2 = s2
  t1 = t1
  t2 = t2
  NoSession = NoSession
  Sessions = {s1, s2}
  Todos = {t1, t2}
  MaxOperations = 3
  MaxAttempts = 2
  MaxRevised = 1
  MaxElsewhere = 1
  MaxMail = 1
INVARIANTS
  WhatIsShownIsSent
  ViewIsOfOneSession
  DueDecisionIsShown
  VerdictCoversBoard
  InFlightIsAnswered
SYMMETRY Symmetry
CHECK_DEADLOCK FALSE
