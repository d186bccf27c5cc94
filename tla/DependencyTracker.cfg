\* Any edges, validated in one lock section or detected and registered in two.
CONSTANTS
  Nodes = {n1, n2, n3}
  SplitCallers = 2
SYMMETRY JobSymmetry
SPECIFICATION Spec
INVARIANT RefusedReplacement
PROPERTY OnlyStaleRegisterClosesCycles
