--------------------------- MODULE MCClusterPower ---------------------------
\* Two workers: a GPU Deployment on one, another on the second.
EXTENDS ClusterPower, TLC

CONSTANTS llm, gateway, node1, node2

MCHome == (llm :> node2) @@ (gateway :> node1)

============================================================================
