----------------------------- MODULE BookCommands -----------------------------
(***************************************************************************)
(* An order book as the log and the snapshots see it: a state machine that *)
(* commands drive.  One side at one price is enough to tell the order and  *)
(* the number of commands apart: the book is the queue of resting orders,  *)
(* each known by the number of the call that submitted it; "rest" joins    *)
(* the queue, "take" trades with its head, "cancel" leaves it.  The full   *)
(* order book is OrderBook.                                                *)
(***************************************************************************)
EXTENDS Subsequence, Functions

Command(op, no, order) == [op |-> op, no |-> no, order |-> order]

Apply(book, cmd) ==
    CASE cmd.op = "rest"   -> Append(book, cmd.order)
      [] cmd.op = "take"   -> IF book = <<>> THEN book ELSE Tail(book)
      [] cmd.op = "cancel" -> Kept(book, Range(book) \ {cmd.order})

\* Does the command trade?
Trades(book, cmd) == cmd.op = "take" /\ book # <<>>

\* The book after the commands, one after the other.
Run(book, cmds) ==
    LET after[n \in 0..Len(cmds)] ==
            IF n = 0 THEN book ELSE Apply(after[n - 1], cmds[n])
    IN  after[Len(cmds)]
=============================================================================
