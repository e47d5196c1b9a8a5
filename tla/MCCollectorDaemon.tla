-------------------------- MODULE MCCollectorDaemon --------------------------
\* The constants are all assigned in daemon.cfg.
EXTENDS CollectorDaemon
=============================================================================
