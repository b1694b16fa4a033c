------------------------- MODULE MCProfilingCampaign -------------------------
(* Instance of ProfilingCampaign for TLC: two jobs of every kind, a given  *)
(* port and a free one.                                                    *)
EXTENDS ProfilingCampaign

MCCampaigns == {<<"run", "run">>, <<"run", "block">>, <<"block", "run">>, <<"block", "block">>}
=============================================================================
