------------------------------- MODULE MCSeed -------------------------------
EXTENDS Seed

\* Three executions: one can fail between two others.
MCRuns == 1..3
=============================================================================
