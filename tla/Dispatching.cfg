\* Handlers that may raise, come and go, and what becomes of their events.
CONSTANTS
  Events = {e1, e2}
  Handlers = {h1, h2}
  MayRaise = {h2}
  MaxDispatched = 2
  MaxChain = 2
SPECIFICATION Spec
INVARIANTS
  TypeOK
  EventComplete
PROPERTY
  HeadOfLine
CHECK_DEADLOCK FALSE
