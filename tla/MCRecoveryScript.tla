-------------------------- MODULE MCRecoveryScript --------------------------
(***************************************************************************)
(* Commands of every kind: an update followed by a wipe of /cache, a       *)
(* sideload; scripts that wipe, install, mount, operate and reboot.        *)
(***************************************************************************)
EXTENDS RecoveryScript

MCArgs    == {<<"update", "wipe_cache">>, <<"sideload">>}
MCScripts == {<<"wipe", "install", "reboot">>, <<"mount", "reboot_first", "mkdir">>}
MCCli     == {"twrp_install"}
MCKind    == [c \in Commands |->
                CASE c \in {"update", "install", "twrp_install"} -> "install"
                  [] c \in {"wipe", "wipe_cache"} -> "wipe"
                  [] c = "sideload" -> "sideload"
                  [] c \in {"reboot", "reboot_first"} -> "reboot"
                  [] c = "mount" -> "quiet"
                  [] c = "mkdir" -> "op"]
=============================================================================
