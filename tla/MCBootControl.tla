---------------------------- MODULE MCBootControl ----------------------------
(* BootControl with two slots and images of which one group of blocks of the *)
(* second partition may be unreadable.                                       *)
EXTENDS BootControl

MCFlaws == {{}, {<<2, 2>>}}
=============================================================================
