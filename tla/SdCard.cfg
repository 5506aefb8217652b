\* Two cards that come and go, a countdown of two passes.
CONSTANTS
  Cards = {c1, c2}
  NoCard = NoCard
  CountDown = 2
SPECIFICATION Spec
INVARIANTS
  CardsNotMixed
  HostWritesNotForgotten
