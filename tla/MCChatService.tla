--------------------------- MODULE MCChatService ---------------------------
(* A server with one client beside a server with another; the first of the *)
(* clients posts twice, in one room or in two.                             *)
EXTENDS ChatService

CONSTANTS srvA, srvB, s1, s2, s3

MCHome == [s \in {s1, s2, s3} |-> IF s = s2 THEN srvB ELSE srvA]
MCRooms == [s \in {s1, s2, s3} |-> IF s = s1 THEN 2 ELSE IF s = s2 THEN 1 ELSE 0]
MCPosts == [s \in {s1, s2, s3} |-> IF s = s1 THEN 2 ELSE IF s = s2 THEN 1 ELSE 0]
=============================================================================
