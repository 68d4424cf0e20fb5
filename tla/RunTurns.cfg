SPECIFICATION FairTurnsSpec
CONSTANTS
    Runs = {r1, r2}
    Tasks = {t1, t2, t3}
    Gates = {g1, g2, g3, g4}
    NoGate = NoGate
    NoRun = NoRun
INVARIANTS
    MutualExclusion
    NoLostTurn
PROPERTIES
    AskedTurnComes
    ImplementsTurnPerRun
