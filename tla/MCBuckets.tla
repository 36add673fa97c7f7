------------------------------ MODULE MCBuckets ------------------------------
(* Model-checking instance of Buckets. *)
EXTENDS Buckets

\* Mantissas 0..12 and exponents -9..2: values from 1e-09 to 1200,
\* spanning every view's boundaries and the values between them.
MCMantissas == 0..12
MCExponents == -9..2
=============================================================================
