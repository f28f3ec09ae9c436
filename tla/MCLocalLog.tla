----------------------------- MODULE MCLocalLog -----------------------------
(* LocalLog on a small instance. *)
EXTENDS LocalLog, TLC

CONSTANTS rule, draft   \* the address of a rule and that of a draft

MCAddress == {rule, draft}

MCKindOf == (rule :> "context") @@ (draft :> "edit")
=============================================================================
