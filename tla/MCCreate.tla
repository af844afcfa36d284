-------------------------------- MODULE MCCreate -------------------------------
(* CreateProperties on small instances.                                    *)
EXTENDS CreateProperties

WithAndWithoutOverride == {NoState, 7}
================================================================================
