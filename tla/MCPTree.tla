------------------------------ MODULE MCPTree ------------------------------
EXTENDS PTree
Spec == TreeInit /\ [][TreeNext]_treeVars
=============================================================================
