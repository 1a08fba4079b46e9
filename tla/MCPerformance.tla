---- MODULE MCPerformance ----
EXTENDS Performance
====
