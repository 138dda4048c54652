--------------------------- MODULE MCRemoteBrowser ---------------------------
(* Two connections, a share with a folder and a link below its root, and the *)
(* two threads main() gives the pool.                                        *)
EXTENDS RemoteBrowser

CONSTANTS c1, c2, root, folder, link

MCParent == [p \in {root, folder, link} |-> root]

MCAbove == [p \in {root, folder, link} |-> IF p = root THEN {} ELSE {root}]

MCStartPath == [c \in {c1, c2} |-> root]
=============================================================================
