------------------------ MODULE MCIlluminationCanvas ------------------------
(***************************************************************************)
(* One color with four different bytes; displays of one pixel, of a common *)
(* size and of the largest length; levels below, at and above rows of the  *)
(* table, between rows where the alpha falls, rises and stays.             *)
(***************************************************************************)
EXTENDS IlluminationCanvas

MCColors == {<<1, 2, 3, 4>>}

MCDisplays == {<<1, 1>>, <<1080, 2400>>, <<65535, 1>>}

MCLevels ==
    {-2, 0, 4, 5, 7, 8, 9, 10, 23, 53, 124, 247, 248, 250, 255, 256}

=============================================================================
