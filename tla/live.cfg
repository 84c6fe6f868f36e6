SPECIFICATION MCSpec
CONSTANTS
    Starters = {s1, s2}
    Dynamics = {d}
    Subscribers = {q1, q2}
    Capacity = 1
    MaxNotes = 2
    MaxStops = 1
    MaxLosses = 1
    Answers = {x, y}
    Triggered = TRUE
INVARIANTS
  LeftoversAreHarmless
  WakeOnTheWay
PROPERTY
  Converges
CHECK_DEADLOCK FALSE
