--------------------------- MODULE MCClientSession ---------------------------
EXTENDS ClientSession

CONSTANTS f1, l1, e1, v1, z1

MCNothing == {}
MCRefresh == {f1}
MCLogin == {l1}
MCRestore == {e1}
MCSave == {v1}
MCClear == {z1}
=============================================================================
