----------------------------- MODULE MCIocCheck -----------------------------
(***************************************************************************)
(* Model-checking IocCheck; every constant is an ordinary value.           *)
(***************************************************************************)
EXTENDS IocCheck
=============================================================================
