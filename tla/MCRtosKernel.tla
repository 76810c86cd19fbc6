---------------------------- MODULE MCRtosKernel ----------------------------
(***************************************************************************)
(* Two tasks, the first restarted once, with payloads that alias an event  *)
(* id (257 is 1 as a u8) and that are negative (a sleep without end).      *)
(***************************************************************************)
EXTENDS RtosKernel

MCMaxRestarts == <<1, 0>>
MCPayloads == {-1, 2, 257}
MCBudgets == {Unlimited, 1}
=============================================================================
