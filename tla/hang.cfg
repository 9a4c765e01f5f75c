SPECIFICATION FairSpec
CONSTANTS
  c1 = c1
  c2 = c2
  c3 = c3
  w1 = w1
  w2 = w2
  Worker = {w1, w2}
  Client = {c1, c2, c3}
  NoClient = none
  Limit = 2
  Forces = {TRUE, FALSE}
  Failing = {c3}
  MaxRequests <- TwoNoneNone
  Pages <- SomePages
PROPERTY TurnsCome
