---- MODULE MCDeviceGroup ----
EXTENDS DeviceGroup

CONSTANTS c1, c2
====
