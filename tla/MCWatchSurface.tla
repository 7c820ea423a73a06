--------------------------- MODULE MCWatchSurface ---------------------------
(* Every runtime, with a list of nothing, of one and of two files of the workspace
   and of a file outside it that this host has approved or not. *)
EXTENDS WatchSurface

MCRuntimes == {"openclaw", "hermes", "zeroclaw", "generic"}

MCLists == {{}, {Entry(Other, "inside"), Entry(Note, "inside"), Entry(Outside, "verified")},
            {Entry(Outside, "inert"), Entry(Other, "inside")}}
=============================================================================
