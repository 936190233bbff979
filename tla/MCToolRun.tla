----------------------------- MODULE MCToolRun -----------------------------
\* ToolRun for TLC: operations one after another, without the project's files.
EXTENDS ToolRun, TLC
=============================================================================
