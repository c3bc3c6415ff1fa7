----------------------------- MODULE QueryRound -----------------------------
(***************************************************************************)
(* What the Near-RT RIC promises about a query of its Logic Modules: a     *)
(* round opens, the LMs answer, and the answers are sent once, when all    *)
(* LMs have answered or, if there is a maximum wait time, when it is over. *)
(* Nothing of another round is ever sent.                                  *)
(***************************************************************************)
EXTENDS Naturals

CONSTANTS Lms,          \* the deployed Logic Modules
          MayExpire     \* TRUE: there is a maximum wait time

VARIABLES open,         \* the round still collects answers
          cycle,        \* the time the round was opened
          answered,     \* the LMs whose answer has been collected
          sent          \* the answers that were sent, as records lm, cycle

vars == <<open, cycle, answered, sent>>

Batch(S) == [lm : S, cycle : {cycle}]

Init ==
    /\ open = FALSE
    /\ cycle = 0
    /\ answered = {}
    /\ sent = {}

Open ==
    /\ ~open
    /\ open' = TRUE
    /\ cycle' \in {c \in Nat : c >= cycle}
    /\ answered' = {}
    /\ sent' = sent

Answer(l) ==
    /\ open
    /\ l \notin answered
    /\ answered \cup {l} # Lms
    /\ answered' = answered \cup {l}
    /\ UNCHANGED <<open, cycle, sent>>

\* The last answer closes the round.
LastAnswer(l) ==
    /\ open
    /\ l \notin answered
    /\ answered \cup {l} = Lms
    /\ open' = FALSE
    /\ sent' = sent \cup Batch(Lms)
    /\ answered' = {}
    /\ cycle' = cycle

\* The maximum wait time closes the round.
Expire ==
    /\ MayExpire
    /\ open
    /\ open' = FALSE
    /\ sent' = sent \cup Batch(answered)
    /\ answered' = {}
    /\ cycle' = cycle

Next ==
    \/ Open
    \/ Expire
    \/ \E l \in Lms : Answer(l) \/ LastAnswer(l)

Spec == Init /\ [][Next]_vars
=============================================================================
