----------------------------- MODULE MCStoreLocks -----------------------------
(***************************************************************************)
(* StoreLocks with one task of each kind.                                  *)
(***************************************************************************)
EXTENDS StoreLocks

CONSTANTS builder, export, transfer, get

MCReads == [r \in Reader |->
    CASE r = builder  -> Part
      [] r = export   -> Part
      [] r = transfer -> <<"membership">>]

=============================================================================
