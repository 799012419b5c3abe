------------------------------- MODULE MCRpc -------------------------------
EXTENDS Rpc, TLC

MCAsks == ("c1" :> <<Known \cup {"renamed_method"}>>)
  @@ ("c2" :> <<{"delete_volume", "get_server"}, {"start_cluster", "get_cluster_log"}>>)
=============================================================================
