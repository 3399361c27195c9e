----------------------------- MODULE S3UploadMC -----------------------------
(* An upload, with another one and a download of the same user beside it.    *)
EXTENDS S3Upload, TLC

CONSTANTS ada, a1, a2, a3

MCUserOf == (a1 :> ada) @@ (a2 :> ada) @@ (a3 :> ada)

=============================================================================
