-------------------------- MODULE MCHistoricalAccess --------------------------
EXTENDS HistoricalAccess

AllPageSizes == 0..(UInt32 - 1)
===============================================================================
