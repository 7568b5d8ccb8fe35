-------------------------- MODULE MCDeviceStatistics --------------------------
\* Two readings of the clock a day, so that 5 AM can come before, in and after a
\* poll, over three days.
EXTENDS DeviceStatistics

MCDate == [t \in 0..5 |-> t \div 2]
MCNoTime == -1
===============================================================================
