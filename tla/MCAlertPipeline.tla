--------------------------- MODULE MCAlertPipeline ---------------------------
EXTENDS AlertPipeline

CONSTANTS m1, m2
=============================================================================
