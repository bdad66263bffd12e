SPECIFICATION Spec
CONSTANTS
  Half = 4
  HalfBits = 2
  Operations = {"mul_div", "mul_div_round", "mul_div_ceil", "mul_q64",
                "mul_q64_ceil", "div_q64", "div_q64_ceil"}
INVARIANTS
  PartlyDivided
  Exact
CHECK_DEADLOCK FALSE
