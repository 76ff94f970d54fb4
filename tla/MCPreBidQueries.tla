--------------------------- MODULE MCPreBidQueries ---------------------------
(* PreBidQueries for TLC, alone: every body of a PATCH, one at a time.        *)
EXTENDS PreBidQueries, TLC

AllPayloads == Payload
=============================================================================
