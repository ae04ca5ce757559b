---------------------------- MODULE MCPollPoller ----------------------------
(* Three descriptors, so that a removal finds a pollfd before and one      *)
(* behind the one it takes out; one of them is 0, and one has two          *)
(* channels.                                                               *)
EXTENDS PollPoller

CONSTANTS c0, c1, c2, d1

MCFd == [c \in Channels |-> CASE c = c0 -> 0 [] c \in {c1, d1} -> 1 [] OTHER -> 2]
=============================================================================
