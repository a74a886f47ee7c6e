----------------------------- MODULE MCHostCall -----------------------------
(* TLC instance of HostCall.                                               *)
EXTENDS HostCall

CONSTANTS b1, b2, b3, get, put, row, junk

MCBlocks == {b1, b2, b3}
MCRequests == {get, put}
MCPayloads == {row, junk}
MCFitting == {row}
MCOtherCodes == {"rate_limited"}
=============================================================================
