------------------------------ MODULE MCPages ------------------------------
(* The pages of the search and of the data, behind one menu.  They share no  *)
(* state: users search first, and go to the data pages from a blank search.  *)
(* The configuration matters from there on, and is chosen only then.         *)
EXTENDS MCSearch, MCDataPage

VARIABLE where
searchVars == <<vars, pageVars>>

MenuInit ==
    /\ PageInit /\ DataInit
    /\ config = CHOOSE c \in Configs : TRUE
    /\ where = "search"

OpenMenu ==
    /\ where = "search" /\ coll = Docs /\ phase = "idle"
    /\ where' = "data"
    /\ config' \in Configs
    /\ slots' = [i \in 1..config'.spare |-> NoSection]
    /\ UNCHANGED <<searchVars, gen, page, overlap>>

MenuNext ==
    \/ where = "search" /\ PageNext /\ UNCHANGED <<dataVars, where>>
    \/ where = "data" /\ DataNext /\ UNCHANGED <<searchVars, where>>
    \/ OpenMenu

MenuSpec == MenuInit /\ [][MenuNext]_<<searchVars, dataVars, where>>
============================================================================
