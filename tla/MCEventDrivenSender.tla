------------------------- MODULE MCEventDrivenSender -------------------------
(***************************************************************************)
(* Small instances of the sender.  One connection sends enough frames to   *)
(* fill its queue and to leave some behind when a batch is cut at its      *)
(* limit; the others send one frame each, which takes the transport's      *)
(* buffer or the callback slot away from it.  Word is far above every      *)
(* queue length, as usize is.                                              *)
(***************************************************************************)
EXTENDS EventDrivenSender, TLC

OneBusy ==
  LET busy == CHOOSE c \in Conns : TRUE
  IN  [c \in Conns |-> IF c = busy THEN MaxFrames ELSE 1]
==============================================================================
