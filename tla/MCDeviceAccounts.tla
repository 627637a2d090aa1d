-------------------------- MODULE MCDeviceAccounts --------------------------
EXTENDS DeviceAccounts
CONSTANTS p1, u1, u2, r1, r2
MCRoutes == {<<p1, p1>>}
MCSigned == {<<u2, u1>>, <<>>}
=============================================================================
