------------------------- MODULE MCTransferSession -------------------------
\* Instances of TransferSession for TLC: pushes as model values.
EXTENDS TransferSession, TLC

CONSTANTS p1, p2

OnePush   == {p1}
TwoPushes == {p1, p2}
=============================================================================
