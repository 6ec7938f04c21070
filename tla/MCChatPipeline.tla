--------------------------- MODULE MCChatPipeline ---------------------------
(* A small instance of ChatPipeline: the entries and the workers are model  *)
(* values given by ChatPipeline.cfg.                                        *)
EXTENDS ChatPipeline
=============================================================================
