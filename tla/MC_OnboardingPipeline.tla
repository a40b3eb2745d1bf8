------------------------ MODULE MC_OnboardingPipeline ------------------------
(* OnboardingPipeline for TLC: what an overtaken worker has pushed is not     *)
(* followed beyond its merge, and not at all once there is a server; what an  *)
(* administrator has made of a server, as long as its source is the first and *)
(* no revision of it is under way.                                            *)
EXTENDS OnboardingPipeline

InTime ==
  \A j \in Jobs :
    /\ pull[j] = Late => server[j].state = "NONE"
    /\ job[j].commit # Late /\ \A w \in Workers : worker[w].head # Late
    /\ server[j].by = "ADMIN" => job[j].source = 1 /\ asked[j] = 0
=============================================================================
