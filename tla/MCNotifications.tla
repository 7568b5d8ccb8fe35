---------------------------- MODULE MCNotifications ----------------------------
\* Notifications that begin at 0 or 1 and end at 0 or never.  An update may
\* move the beginning to 1 and take the end away; 0 keeps the field.
EXTENDS Notifications

CONSTANTS n1, n2, t1

MCEnd == {0, MaxNow + 1}
MCKeep == 0
===============================================================================
