----------------------------- MODULE MCI2cMaster -----------------------------
\* Instances of I2cMaster for TLC: an eeprom of two bytes, a mux that is set to
\* the slot of the switch or to nothing, an id that idtInfo knows and one that it
\* does not, files that are empty, shorter than the eeprom or as long.
EXTENDS I2cMaster
MCImages == {<<>>, <<1>>, <<1, 0>>}
=============================================================================
