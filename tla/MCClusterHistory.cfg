SPECIFICATION Spec
CONSTANTS
    p1 = p1
    p2 = p2
    self = self
    peer = peer
    x = x
    Free = Free
    None = None
    Self = self
    MaxSeq = 2
    Checkpointed = TRUE
    Procs <- MCProcs
    Actors <- MCActors
    Bodies <- MCBodies
    Foreign <- MCForeign
SYMMETRY Perms
INVARIANTS ReadCoherent CommittedSnapshotComplete NumberReserved
PROPERTY CommitMonotone
