------------------------------ MODULE MCSession ------------------------------
(* Instances of Session for TLC. *)
EXTENDS Session

MCUrls == {"about:blank", "ftp:", "http:a"}
MCBuiltIn == {"about:blank"}
MCInvalid == {"ftp:"}
=============================================================================
