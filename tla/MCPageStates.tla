---------------------------- MODULE MCPageStates ----------------------------
(***************************************************************************)
(* Two views that must come to agree with the daemon, for TLC with         *)
(* liveness: the list of instances (ConfigList) and the update card        *)
(* (SelfUpdate).  They share no state; a behaviour chooses one and stays   *)
(* in it, and owes fairness to that one only.                              *)
(***************************************************************************)
EXTENDS ConfigList, TLC

VARIABLES
    part,         \* "list" or "update"
    latest, version, installed, cached, fresh, updaters, uRequests, card, wait, clicks

uVars == <<latest, version, installed, cached, fresh, updaters, uRequests, card, wait, clicks>>
stateVars == <<part, vars, uVars>>

Copies == [i \in Ids |-> IF i = "a" THEN "a_copy" ELSE "b_copy"]

Update == INSTANCE SelfUpdate WITH
    Cards <- {"c1"}, MaxVersion <- 2, MaxClicks <- 3, requests <- uRequests

StateInit == part \in {"list", "update"} /\ Init /\ Update!Init
ListOnly == part = "list" /\ UNCHANGED <<part, uVars>>
UpdateOnly == part = "update" /\ UNCHANGED <<part, vars>>
StateNext == (Next /\ ListOnly) \/ (Update!Next /\ UpdateOnly)

\* The fairness of ConfigList and of SelfUpdate, each where it is chosen.
StateFairness ==
    /\ WF_stateVars(Serve /\ ListOnly)
    /\ WF_stateVars(Arrive /\ ListOnly)
    /\ WF_stateVars((\E r \in requests : r.op = "list" /\ ServeRead(r)) /\ ListOnly)
    /\ \A i \in AllIds :
         /\ WF_stateVars(Poll(i) /\ ListOnly)
         /\ WF_stateVars((\E r \in requests : Of(i, r) /\ ServeRead(r)) /\ ListOnly)
         /\ WF_stateVars((\E r \in requests : Of(i, r) /\ DeliverStatus(r)) /\ ListOnly)
    /\ WF_stateVars(Update!Advance("check", "c1") /\ UpdateOnly)
    /\ WF_stateVars(Update!Advance("update", "c1") /\ UpdateOnly)
    /\ WF_stateVars(Update!WaitTimesOut("c1") /\ UpdateOnly)

StateSpec == StateInit /\ [][StateNext]_stateVars /\ StateFairness

-----------------------------------------------------------------------------
\* The types of the two views.
ViewsTypeOK == TypeOK /\ Update!TypeOK

\* A card does not say for ever that it updates or checks (UpdateCard.tsx).
CardSettles == part = "update" => Update!CardSettles
-----------------------------------------------------------------------------
(* What comments say, and the code does not keep.                          *)

\* An update under way has the card to itself (UpdateCard.tsx, "exclusive").
UpdatingIsShown == Update!UpdatingIsShown

\* "Done" is said of the update the card asked for.
DoneIsDone == Update!DoneIsDone
=============================================================================
