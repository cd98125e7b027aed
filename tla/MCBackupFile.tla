---------------------------- MODULE MCBackupFile ----------------------------
EXTENDS BackupFile

\* Nightly runs with -c; full runs in place, of a version with other defaults;
\* and runs that ask for another key size.
MCOpts ==
  {[changed |-> TRUE,  force |-> FALSE, risky |-> FALSE, par |-> 1],
   [changed |-> FALSE, force |-> FALSE, risky |-> TRUE,  par |-> 2],
   [changed |-> TRUE,  force |-> TRUE,  risky |-> FALSE, par |-> 2]}
=============================================================================
