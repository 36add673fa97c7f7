\* The same values, checked against Prometheus' le semantics.
CONSTANTS
  Mantissas <- MCMantissas
  Exponents <- MCExponents
SPECIFICATION Spec
INVARIANT HistogramsMatchPrometheus
