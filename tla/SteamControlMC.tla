--------------------------- MODULE SteamControlMC ---------------------------
EXTENDS SteamControl

MCPlans == {{}, {[start |-> 0, stop |-> 1]},
            {[start |-> 0, stop |-> 2], [start |-> 3, stop |-> 4]}}
=============================================================================
