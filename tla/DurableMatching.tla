---------------------------- MODULE DurableMatching ----------------------------
(***************************************************************************)
(* What a durable matching engine promises of one symbol: its book is what *)
(* some sequence of distinct commands makes of an empty one, the sequence  *)
(* only grows while the engine runs, and a restart that can read all that  *)
(* is on disk may reorder it or add to it, but drops no command whose      *)
(* caller has been answered.                                               *)
(***************************************************************************)
EXTENDS BookCommands, Functions

CONSTANT Commands

VARIABLES
    running,        \* the engine runs
    history,        \* the commands the book is made of
    book,           \* the resting orders
    answered,       \* commands whose caller has had an answer
    readable        \* the last restart could read all that is on disk

durableVars == <<running, history, book, answered, readable>>

Init ==
    /\ running = TRUE /\ history = <<>> /\ book = <<>> /\ answered = {}
    /\ readable = TRUE

Execute ==
    /\ running
    /\ \E cmd \in Commands \ Range(history) :
        history' = Append(history, cmd) /\ book' = Apply(book, cmd)
    /\ UNCHANGED <<running, answered, readable>>

Answer ==
    /\ running
    /\ \E cmd \in Range(history) : answered' = answered \cup {cmd}
    /\ UNCHANGED <<running, history, book, readable>>

Fail ==
    /\ running /\ running' = FALSE
    /\ UNCHANGED <<history, book, answered, readable>>

Restart ==
    /\ ~running /\ running' = TRUE
    /\ history' \in Seq(Commands) /\ IsInjective(history')
    /\ readable' \in BOOLEAN
    /\ readable' => answered \subseteq Range(history')
    /\ book' = Run(<<>>, history')
    /\ UNCHANGED answered

Next == Execute \/ Answer \/ Fail \/ Restart

Spec == Init /\ [][Next]_durableVars
=============================================================================
