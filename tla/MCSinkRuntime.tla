--------------------------- MODULE MCSinkRuntime ---------------------------
(* Small instances of SinkRuntime: envelopes of unequal size. *)
EXTENDS SinkRuntime

CONSTANTS big, small1, small3

SizeInEvents(e) == IF e = big THEN 2 ELSE 1
SizeInBytes(e) == IF e = small3 THEN 3 ELSE 1
============================================================================
