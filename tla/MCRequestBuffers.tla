-------------------------- MODULE MCRequestBuffers --------------------------
(***************************************************************************)
(* Model-checking instances of RequestBuffers.                             *)
(***************************************************************************)
EXTENDS RequestBuffers

R(kind, big, len) == [kind |-> kind, big |-> big, len |-> len]

(* Client 1 only connects; client 2 has a request put back with a part of  *)
(* a Big Request behind it, whose rest is beyond the watermark, and then a *)
(* short request in a buffer that may shrink.                              *)
MCRequests ==
    (1 :> <<>>)
      @@ (2 :> <<R("enable", FALSE, 1), R("grab", FALSE, 1), R("plain", TRUE, 4),
                 R("plain", FALSE, 1)>>)

(* Client 2 has its Big Request put back.                                  *)
MCPutBack ==
    (1 :> <<R("plain", FALSE, 2)>>)
      @@ (2 :> <<R("enable", FALSE, 1), R("grab", TRUE, 4)>>)
=============================================================================
