SPECIFICATION Spec
CONSTANTS
  Calls = {c1, c2, c3}
  Keys = {k1, k2}
  Prints = {f1, f2}
  TxIds = {t1, t2}
  None = None
INVARIANTS
  AtMostOnce
  AnswersAgree
PROPERTIES
  ResolvedForGood
