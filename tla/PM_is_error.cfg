CONSTANTS
  m1 = m1  m2 = m2  r1 = r1  r2 = r2
  Messages = {m1, m2}
  Malformed = {}
  Rounds = {r1}
  MaxSends = 1
  Faults = {"no_connection"}
SPECIFICATION Spec
INVARIANTS SentMeansAnswered
