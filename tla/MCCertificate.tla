--------------------------- MODULE MCCertificate ---------------------------
\* The instance of Certificate that is model-checked.
EXTENDS Certificate
CONSTANTS c1, c2
============================================================================
