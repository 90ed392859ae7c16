---------------------------- MODULE MCSiteVerify ----------------------------
(* One token id, three requests: enough for two racing redemptions and a   *)
(* third that stalls until its mark has been cleaned away.                 *)
EXTENDS SiteVerify
=============================================================================
