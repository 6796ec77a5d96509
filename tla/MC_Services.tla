------------------------------ MODULE MC_Services ------------------------------
(***************************************************************************)
(* The services that share no state, side by side: a behaviour is one of   *)
(* them, which Init chooses.  RunModes has three async runs, one of them   *)
(* refused by the scheduler, a sync run and one child session; Interaction *)
(* two questions and a client; WebConsole two posts and an interruption    *)
(* that nobody reads ("console"), or one post, an interruption and a       *)
(* reader of the events ("reading").                                       *)
(***************************************************************************)
EXTENDS RunModes, Interaction, WebConsole

CONSTANTS y, a1, a2, a3, k1, q1, q2, c, p1, p2, i, s   \* model values

VARIABLE service

modes   == modesVars
asking  == interactionVars
console == consoleVars

Is(name) == service = name

Init ==
  /\ service \in {"modes", "asking", "console", "reading"}
  /\ ModesInit /\ InteractionInit /\ ConsoleInit

Next ==
  /\ UNCHANGED service
  /\ \/ Is("modes")   /\ UNCHANGED <<asking, console>>        /\ ModesNext
     \/ Is("asking")  /\ UNCHANGED <<modes, console>>         /\ InteractionNext
     \/ Is("console") /\ UNCHANGED <<modes, asking, reader>>  /\ ConsoleNext
     \/ Is("reading") /\ UNCHANGED <<modes, asking>>          /\ ConsoleNext /\ call'[p2] = call[p2]

\* A service that is not chosen stays in its initial state, where no action with
\* a fairness condition is enabled.
Spec == Init /\ [][Next]_<<service, modes, asking, console>> /\ ModesFairness /\ InteractionFairness
=============================================================================
