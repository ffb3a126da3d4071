-------------------------- MODULE MCOutputBuffers --------------------------
(***************************************************************************)
(* Model-checking instances of OutputBuffers.                              *)
(* BadFdIsInAllClients is a comment of the code that does not hold:        *)
(* README.md (Departures) says how it fails.                               *)
(***************************************************************************)
EXTENDS OutputBuffers

(* Client 3 only connects.                                                 *)
MCMaxWritten == <<2, 1, 0>>

(* A write to client 1 may fail when it is stuffed already.                *)
MCWrittenMore == <<3, 1, 0>>

(* "The file descriptor has been closed, but is still in AllClients": when *)
(* select() objects to a descriptor, CheckConnections finds it.            *)
BadFdIsInAllClients == pc = "select" => BadFds(os) \subseteq os.AllClients
=============================================================================
