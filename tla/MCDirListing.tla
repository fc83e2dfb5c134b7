---------------------------- MODULE MCDirListing ----------------------------
(***************************************************************************)
(* Five entries whose padded sizes are 72, 64, 72, 32 and 32 bytes for   *)
(* READDIR and 200, 192, 200, 160 and 160 for READDIRPLUS, under a 200-  *)
(* byte budget: a READDIR reply holds two or three records and is cut    *)
(* before a longer record that a shorter one follows; a READDIRPLUS      *)
(* reply holds one.  Inode numbers differ from positions, and the        *)
(* generations are 0, as a filesystem that does not reuse inodes leaves  *)
(* them.                                                                  *)
(***************************************************************************)
EXTENDS DirListing

MCIno == <<7, 3, 9, 5, 4>>
MCNameLen == <<48, 40, 48, 8, 1>>
MCGeneration == <<0, 0, 0, 0, 0>>
MCBothModes == {"readdir", "readdirplus"}
MCPlus == {"readdirplus"}
====
