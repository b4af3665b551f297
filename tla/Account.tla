------------------------------- MODULE Account -------------------------------
(***************************************************************************)
(* What the user handlers promise about the account of one name            *)
(* (src/src/UserCommands.cpp): creation and token replacement give a token *)
(* that was never used, an edit leaves the token alone, and a replacement  *)
(* leaves the rest alone.                                                  *)
(***************************************************************************)
CONSTANTS Tokens, GlobusIDs

VARIABLES
    state,     \* "none", "account"; "unclear": nothing is promised
    rec,       \* its token and Globus ID
    retired    \* tokens the account has had

Records == [token : Tokens, globus : GlobusIDs]
Exists == state = "account" /\ rec \in Records

Init == (state = "none" \/ Exists) /\ retired = {}

Create ==
    /\ state = "none" /\ state' = "account"
    /\ rec' \in Records /\ rec'.token \notin retired
    /\ UNCHANGED retired

Edit ==
    /\ Exists
    /\ rec' \in Records /\ rec'.token = rec.token
    /\ UNCHANGED <<state, retired>>

Replace ==
    /\ Exists
    /\ retired' = retired \cup {rec.token}
    /\ rec' \in Records /\ rec'.globus = rec.globus /\ rec'.token \notin retired'
    /\ UNCHANGED state

Delete ==
    /\ Exists
    /\ state' = "none"
    /\ retired' = retired \cup {rec.token}

Lose == state' = "unclear" /\ retired \subseteq retired'
Recover == state = "unclear" /\ state' = "none" /\ retired \subseteq retired'

Next == Create \/ Edit \/ Replace \/ Delete \/ Lose \/ Recover

Spec == Init /\ [][Next]_<<state, rec, retired>>
=============================================================================
