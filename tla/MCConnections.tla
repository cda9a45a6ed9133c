---------------------------- MODULE MCConnections ----------------------------
(***************************************************************************)
(* Two connections of one database each; the server lists both, or one of  *)
(* them, so that an index may name another connection, or none, later on.  *)
(***************************************************************************)
EXTENDS Connections

CONSTANTS a, b, d, e

MCdatabases == a :> {d} @@ b :> {e}
MCListings  == {<<a, b>>, <<b>>}
=============================================================================
