------------------------ MODULE MC_RilClientController ------------------------
EXTENDS RilClientController

\* atoi of the test-mode property: off, on.
MCTestModes == {0, 1}
\* rfxGetSimCount() on single- to quad-SIM builds.
MCSimCounts == 1..4
================================================================================
