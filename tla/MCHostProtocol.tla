--------------------------- MODULE MCHostProtocol ---------------------------
(***************************************************************************)
(* TLC instance of HostProtocol: a command that is answered in a single    *)
(* packet, as XN_PARAM commands, one with a second packet, as GetFileList, *)
(* and one whose second packet the caller leaves in the pipe.              *)
(***************************************************************************)
EXTENDS HostProtocol

CONSTANTS get, list, quiet

MCOpcodes == {get, list, quiet}
MCRest == [op \in MCOpcodes |-> IF op = get THEN 0 ELSE 1]
MCSilent == {quiet}
=============================================================================
