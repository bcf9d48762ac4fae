---------------------------- MODULE MCReporting ----------------------------
(* One source, one sink counter, one connection. *)
EXTENDS Reporting

TheClients == {"scraper"}
\* The two observers only read, so they are looked at one at a time.
OneObserver == {<<TRUE, FALSE>>, <<FALSE, TRUE>>}
TheSinkCounters == {"events_dropped"}
============================================================================
