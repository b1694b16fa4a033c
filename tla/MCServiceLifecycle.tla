-------------------------- MODULE MCServiceLifecycle --------------------------
(* Instance of ServiceLifecycle for TLC: a row after one of its own model   *)
(* and a row after one of another model.                                    *)
EXTENDS ServiceLifecycle

Campaign(models, cycles) == [models |-> models, cycles |-> cycles]
MCPair == {Campaign(<<"a">>, 2)}
MCCampaigns == MCPair \cup {Campaign(<<"a", "b">>, 1)}

\* Every service the rows are claimed for does less than one of these.
MCServices == {{"crash", "failure", "unlisted"}, {"late", "crash", "failure", "unlisted"},
               {"blank"}}
=============================================================================
