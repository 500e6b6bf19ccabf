---------------------------- MODULE MCRemoteWords ----------------------------
EXTENDS RemoteWords
AllFaults == {"berr", "lost", "dlock", "signal"}
=============================================================================
