------------------------ MODULE MCBrowserSimulation ------------------------
(* A small instance of the simulation of the editor. *)
EXTENDS BrowserSimulation

MCContents == {0, 2, Measured}
MCPositions == {-1, 1, Whole}
=============================================================================
