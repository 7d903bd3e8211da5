------------------------------ MODULE AgentDomain ------------------------------
(***************************************************************************)
(* The constants that the modules of this project share.                   *)
(***************************************************************************)
CONSTANTS Users,      \* the users, each with one Telegram chat
          NoRecord    \* a key or row that the store does not hold
================================================================================
