------------------------ MODULE MCRecipientNotifications -----------------------
(***************************************************************************)
(* Instances of RecipientNotifications for TLC.                            *)
(***************************************************************************)
EXTENDS RecipientNotificationsInv, TLC
================================================================================
