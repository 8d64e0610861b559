-------------------------- MODULE MCCampaignStudio --------------------------
(* Small instances of the studio. *)
EXTENDS CampaignStudio
=============================================================================
