SPECIFICATION ASpec
CONSTANTS
  d1 = d1
  d2 = d2
  p1 = p1
  p2 = p2
  p3 = p3
  w1 = w1
  w2 = w2
  b1 = b1
  b2 = b2
  Reports <- MCReports
INVARIANT AutomaticAnswers
