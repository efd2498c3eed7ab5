----------------------------- MODULE MCAstReset -----------------------------
\* Instances of AstReset for TLC: the three families, two i2c buses of which
\* I2cEnabledSet knows one on family 26.
EXTENDS AstReset
CONSTANTS b1, b2
MCBuses == {b1, b2}
MCFixedBuses == {b1}
=============================================================================
