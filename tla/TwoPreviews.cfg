\* Two previews of one project started together.
SPECIFICATION Spec
CONSTANTS
    r1 = r1
    r2 = r2
    Runs = {r1, r2}
    Previews = {r1, r2}
    Polled = {r1}
    MaxRetained = 1
INVARIANTS
    SingleOccupancy
CHECK_DEADLOCK FALSE
