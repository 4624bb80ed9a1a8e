---------------------------- MODULE SpscQueueMC ----------------------------
(* One block that grows from two slots to four, and a ring of five small ones. *)
EXTENDS SpscQueue

MCSetups == {<<1, 2>>, <<1, 4>>, <<4, 2>>}
==============================================================================
