--------------------------- MODULE MCScalingPolicy ---------------------------
EXTENDS ScalingPolicy
=============================================================================
