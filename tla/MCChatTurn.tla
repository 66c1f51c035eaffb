---------------------------- MODULE MCChatTurn ----------------------------
(* A small instance of ChatTurn for TLC: see MCChatTurn.cfg.               *)
EXTENDS ChatTurn
===========================================================================
