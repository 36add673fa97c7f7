\* Values m * 10^e for m in 0..12 and e in -9..2, and every boundary.
CONSTANTS
  Mantissas <- MCMantissas
  Exponents <- MCExponents
SPECIFICATION Spec
INVARIANT BoundsAsDocumented
