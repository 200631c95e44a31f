---------------------------- MODULE SingleFlight ----------------------------
(***************************************************************************)
(* What the request coalescer promises, without its lock, its map or its   *)
(* channels: a key has at most one flight in the air; a caller either      *)
(* leads a new flight or boards the one in the air; everyone aboard gets   *)
(* what the flight brought back, or gives up waiting for it.  A flight     *)
(* that has landed may still be boarded until its leader clears it away.   *)
(***************************************************************************)
CONSTANTS
    Callers,    \* the goroutines, one Do call each
    Keys,       \* cache keys
    Outcomes,   \* what the executed function can return
    TimedOut,   \* the error a passenger that gives up gets
    Nobody,     \* no caller
    Nothing     \* no outcome

VARIABLES
    leader,     \* leader[k]: the caller whose flight k may be boarded
    cargo,      \* cargo[c]: what the flight led by c brought back
    flight,     \* flight[c]: the leader of the flight c is or was aboard
    answer      \* answer[c]: what Do returned to c

abstractVars == <<leader, cargo, flight, answer>>

Init ==
    /\ leader = [k \in Keys |-> Nobody]
    /\ cargo = [c \in Callers |-> Nothing]
    /\ flight = [c \in Callers |-> Nobody]
    /\ answer = [c \in Callers |-> Nothing]

TakeOff(c, k) ==
    /\ flight[c] = Nobody
    /\ leader[k] = Nobody
    /\ leader' = [leader EXCEPT ![k] = c]
    /\ flight' = [flight EXCEPT ![c] = c]
    /\ UNCHANGED <<cargo, answer>>

Board(c, k) ==
    /\ flight[c] = Nobody
    /\ leader[k] # Nobody
    /\ flight' = [flight EXCEPT ![c] = leader[k]]
    /\ UNCHANGED <<leader, cargo, answer>>

Land(c, o) ==
    /\ flight[c] = c
    /\ cargo[c] = Nothing
    /\ cargo' = [cargo EXCEPT ![c] = o]
    /\ UNCHANGED <<leader, flight, answer>>

\* The leader clears its landed flight away and returns what it brought.
Clear(c, k) ==
    /\ leader[k] = c
    /\ cargo[c] # Nothing
    /\ answer[c] = Nothing
    /\ leader' = [leader EXCEPT ![k] = Nobody]
    /\ answer' = [answer EXCEPT ![c] = cargo[c]]
    /\ UNCHANGED <<cargo, flight>>

Unload(c) ==
    /\ flight[c] \notin {Nobody, c}
    /\ answer[c] = Nothing
    /\ cargo[flight[c]] # Nothing
    /\ answer' = [answer EXCEPT ![c] = cargo[flight[c]]]
    /\ UNCHANGED <<leader, cargo, flight>>

GiveUp(c) ==
    /\ flight[c] \notin {Nobody, c}
    /\ answer[c] = Nothing
    /\ answer' = [answer EXCEPT ![c] = TimedOut]
    /\ UNCHANGED <<leader, cargo, flight>>

Next ==
    \E c \in Callers :
        \/ \E k \in Keys : TakeOff(c, k) \/ Board(c, k) \/ Clear(c, k)
        \/ \E o \in Outcomes : Land(c, o)
        \/ Unload(c)
        \/ GiveUp(c)

Spec == Init /\ [][Next]_abstractVars
=============================================================================
