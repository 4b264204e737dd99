------------------------- MODULE MCAuthoritativeRuntime -------------------------
(* One connection followed, over channels and a queue that fill up, with    *)
(* ids that saturate; the others' ids come from AskOther.                   *)
EXTENDS AuthoritativeRuntime
=============================================================================
