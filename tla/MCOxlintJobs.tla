---------------------------- MODULE MCOxlintJobs ----------------------------
\* A pool whose started jobs can crash, be aborted or find it out of use.
EXTENDS OxlintJobs

MCFailure == {"aborted", "unavailable", "oom"}
=============================================================================
