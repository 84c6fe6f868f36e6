---------------------------- MODULE MCLiveQuery -----------------------------
(* The broker alone, with calls of start that overlap, and live queries     *)
(* under a broker that is started once, as init_subscriptions does.  A      *)
(* behaviour plays one of the two scenes.                                   *)
EXTENDS LiveQuery

VARIABLE scene

OnlyStarter == CHOOSE t \in Starters : TRUE

MCInit ==
  /\ scene \in {"broker", "live"} /\ Init
  /\ scene = "broker" => table = CHOOSE a \in Answers : TRUE
MCNext ==
  /\ UNCHANGED scene
  /\ \/ scene = "broker" /\ BNext /\ StreamsUnchanged
     \/ scene = "live" /\ Next /\ \A t \in Tasks \ {OnlyStarter} : task'[t] = task[t]
MCSpec ==
  /\ MCInit /\ [][MCNext]_<<scene, vars>>
  /\ \A q \in Subscribers : WF_vars(scene = "live" /\ Stream(q)) /\ WF_vars(scene = "live" /\ Tick(q))
=============================================================================
