----------------------------- MODULE MCPollLoop -----------------------------
(* A small instance of PollLoop for TLC: a request, a body to read and one to
   write, and a Main that starts them.                                     *)
EXTENDS PollLoop

CONSTANTS main, f1, r1, w1
MCFetchers == {f1}
MCReaders == {r1}
MCWriters == {w1}
=============================================================================
