-------------------------- MODULE MCProblemManager --------------------------
EXTENDS ProblemManager

MCWriters == {"allocator", "monitor"}
MCReaders == {"deployer", "problems"}
=============================================================================
