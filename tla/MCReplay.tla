------------------------------ MODULE MCReplay ------------------------------
(***************************************************************************)
(* The folders Replay is checked with: the images 1 and 2 between them of  *)
(* every kind, an empty folder, and one with the misnamed file 3.          *)
(***************************************************************************)
EXTENDS Replay

Images(one, two, three) == << one, two, three >>

MCFolders == {
  Images("latin1", "two_codes", NoImage),
  Images("ascii", NoImage, NoImage),
  Images("blank", "ascii", "ascii"),
  Images(NoImage, NoImage, NoImage) }

=============================================================================
