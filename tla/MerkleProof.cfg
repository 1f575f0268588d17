SPECIFICATION TreeSpec
CONSTANTS
    Chunk = {c1, c2}
    MaxLeaves = 5
    MaxChallenges = 2
    MaxDamage = 2
INVARIANTS ProofVerifies
CHECK_DEADLOCK FALSE
