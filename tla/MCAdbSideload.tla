---------------------------- MODULE MCAdbSideload ----------------------------
(* AdbSideload with a package of one and a half blocks, read within a block, *)
(* across two blocks and across the end of the file.                         *)
EXTENDS AdbSideload

MCRequests == {<<0, 2>>, <<1, 2>>, <<3, 2>>}
=============================================================================
