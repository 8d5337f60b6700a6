------------------------------ MODULE TurnGame ------------------------------
(***************************************************************************)
(* What the host of a GLSMAC game promises about turns, without events,    *)
(* queues or network: every player completes the turn or takes that back,  *)
(* and the turn advances by one exactly when nobody is missing.            *)
(* TurnReplication is shown to implement this module on its host.          *)
(***************************************************************************)
EXTENDS Naturals

CONSTANT Players   \* slots in state SS_PLAYER

VARIABLES turn,    \* Game::m_current_turn
          done     \* players whose m_is_turn_completed is set

gameVars == <<turn, done>>

Init == turn = 1 /\ done = {}

Complete(p) ==
    /\ p \notin done
    /\ done' = done \cup {p}
    /\ turn' = turn

Uncomplete(p) ==
    /\ p \in done
    /\ done' = done \ {p}
    /\ turn' = turn

Advance ==
    /\ done = Players
    /\ turn' = turn + 1
    /\ done' = {}

Next ==
    \/ \E p \in Players : Complete(p) \/ Uncomplete(p)
    \/ Advance

Spec == Init /\ [][Next]_gameVars

=============================================================================
