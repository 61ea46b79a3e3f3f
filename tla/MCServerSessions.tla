-------------------------- MODULE MCServerSessions --------------------------
(* TLC instances of ServerSessions.                                        *)
EXTENDS ServerSessions, TLC

(* Connections are only ever compared for equality.                        *)
ConnSymmetry == Permutations(Conn)
=============================================================================
