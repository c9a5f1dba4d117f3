----------------------------- MODULE MCSessions -----------------------------
(* A small instance of LiveFeed for TLC: the modules that start together.  *)
EXTENDS LiveFeed

TypeOK == SessionTypeOK

============================================================================
