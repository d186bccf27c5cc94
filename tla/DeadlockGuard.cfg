\* Any edge added or refused, jobs removed.
CONSTANTS
  Nodes = {n1, n2, n3, n4}
SYMMETRY JobSymmetry
SPECIFICATION Spec
INVARIANTS Acyclic RefusedOnlyForCycles
