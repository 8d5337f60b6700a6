-------------------------- MODULE MCClientSessions --------------------------
(***************************************************************************)
(* ClientSessions for TLC, with one history variable: the cids that GAME   *)
(* has kicked.                                                             *)
(***************************************************************************)
EXTENDS ClientSessions, TLC

VARIABLE kicked

mcVars == <<vars, kicked>>

MCInit == Init /\ kicked = {}

MCNext ==
    /\ Next
    /\ kicked' = kicked \cup ({kicking'["GAME"]} \ {NoCid})

MCSpec == MCInit /\ [][MCNext]_mcVars

MCFairSpec == MCSpec /\ Fairness

\* The accounts are interchangeable; used for safety only.
AccountSymmetry == Permutations(Accounts)

\* Connection.cpp:190 forgets whom to ignore after every batch.  Even so, from the
\* moment GAME kicks a client, nothing the client sent gets it a slot or is handed
\* to MAIN any more: the request to disconnect it is ahead of the one that
\* fetches the next batch, or it is still ignored when that batch is handled,
\* whomever MAIN kicks meanwhile.  Closures that are queued already do run.
\* Of a client that MAIN kicks this cannot be said: GAME may forget it, fetch
\* its events and handle them before NETWORK is asked to disconnect it.
KickedIsSilent ==
    [][\A c \in kicked :
        /\ cid_slots'[c] # NoSlot => cid_slots[c] # NoSlot
        /\ queueing'.cid # c]_mcVars
=============================================================================
