SPECIFICATION Spec
CONSTANTS
  ElemW = 8
  AccW = 30
INVARIANT ComputesItsReference
INVARIANT BenchesAgree
