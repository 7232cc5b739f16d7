---------------------------- MODULE MC_RIBDaemon ----------------------------
EXTENDS RIBDaemon

MCObjNames == {<<>>, <<"a">>, <<"a", "b">>}
=============================================================================
